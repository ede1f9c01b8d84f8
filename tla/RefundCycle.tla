---------------------------- MODULE RefundCycle ----------------------------
(***************************************************************************)
(* The refund cycles of one node (executeRefundCheck, processAccounts and  *)
(* processAccount in pkg/scheduler/scheduler.go) as the cron library fires *)
(* them, against accounts whose balances move and a faucet that answers at *)
(* its own pace.  Each call to the faucet is an instance of the contract   *)
(* FundingCall, which FaucetClient implements.                             *)
(*                                                                         *)
(* Cron starts every cycle in a goroutine of its own and does not wait for *)
(* the one before: only the deadline of a cycle keeps two of them apart.   *)
(*                                                                         *)
(* The process may die at any moment, and is then started again.  It keeps *)
(* nothing: calls in progress are lost, but not the claims they made.      *)
(***************************************************************************)
EXTENDS CycleTiming, FiniteSets

CONSTANTS
    Accounts,               \* the node's accounts with a threshold and a target
    Addresses,              \* the addresses they have
    AddressOf,              \* account -> address
    Threshold, Target,      \* account -> amount, in base units
    InitialBalance,         \* address -> amount
    MAX_WORKER_GOROUTINES,
    CYCLE_SAFETY_MARGIN,
    MinimumTimeout,         \* the calculated minimum of cycleTimeout
    ConfigTimeout,          \* autoRefund.timeout
    Every,                  \* TRUE: "@every d"; FALSE: a cron expression
    Period,                 \* the d of "@every d", as scheduleInterval parses it
    Gaps,                   \* times between two activations of the schedule: for
                            \*   "@every d" one, d as cron takes it, which drops
                            \*   the fraction of a second
    Skew,                   \* a fired goroutine is running within Skew
    Lag,                    \* work stops within Lag of its context's deadline
    PromptFaucet,           \* no claim outlives the call that made it
    MaxCycles, MaxWithdrawals, MaxCrashes   \* bounds

ASSUME AccountsAssumption ==
    /\ IsFiniteSet(Accounts)
    /\ AddressOf \in [Accounts -> Addresses]
    /\ Threshold \in [Accounts -> Nat] /\ Target \in [Accounts -> Nat]
    /\ InitialBalance \in [Addresses -> Nat]

ASSUME TimingAssumption ==
    /\ CYCLE_SAFETY_MARGIN \in Nat /\ MinimumTimeout \in Nat
    /\ ConfigTimeout \in Nat
    /\ Gaps \subseteq Nat \ {0}
    /\ Every \in BOOLEAN
    /\ Every => \E g \in Gaps : Gaps = {g}
    /\ Period \in Nat
    /\ Skew \in Nat /\ Lag \in Nat
    /\ MAX_WORKER_GOROUTINES \in Nat \ {0}

ASSUME BoundsAssumption ==
    MaxCycles \in Nat /\ MaxWithdrawals \in Nat /\ MaxCrashes \in Nat

Cycles == 1 .. MaxCycles

VARIABLES
    now,            \* the clock
    nextRun,        \* when the schedule fires next
    fired,          \* how many cycles have been fired
    phase,          \* cycle -> "unfired", "fired", "running" or "done"
    limit,          \* cycle -> when it must have started, then its deadline
    step,           \* cycle, account -> where processAccount is
    amount,         \* cycle, account -> refundAmountBase
    told,           \* cycle, account -> FundingCall's outcome
    payout,         \* cycle, account -> FundingCall's payout
    events,         \* cycle -> number of events in eventChan
    balance,        \* address -> its balance on the chain
    withdrawals,    \* how many withdrawals there have been
    crashes,        \* how often the process has died
    lost            \* <<cycle, account>>: calls that a crash has cut short
                    \*   before the faucet had settled their claim

cronVars == <<nextRun, fired>>
taskVars == <<step, amount, told, payout, events>>
chainVars == <<balance, withdrawals>>
crashVars == <<crashes, lost>>
vars == <<now, cronVars, phase, limit, taskVars, chainVars, crashVars>>

Steps == {"queued", "collecting", "funding", "reporting", "done"}
Working == {"collecting", "funding", "reporting"}

Init == /\ now = 0
        /\ nextRun = 0
        /\ fired = 0
        /\ phase = [c \in Cycles |-> "unfired"]
        /\ limit = [c \in Cycles |-> 0]
        /\ step = [c \in Cycles |-> [a \in Accounts |-> "queued"]]
        /\ amount = [c \in Cycles |-> [a \in Accounts |-> 0]]
        /\ told = [c \in Cycles |-> [a \in Accounts |-> "pending"]]
        /\ payout = [c \in Cycles |-> [a \in Accounts |-> "none"]]
        /\ events = [c \in Cycles |-> 0]
        /\ balance = InitialBalance
        /\ withdrawals = 0
        /\ crashes = 0 /\ lost = {}

(***************************************************************************)
(* The clock.  Cron fires on time, goroutines start within Skew, and every *)
(* operation of a cycle takes the cycle's context, so that a cycle whose   *)
(* deadline has passed ends within Lag.                                    *)
(***************************************************************************)
TimePasses ==
    /\ fired < MaxCycles => now < nextRun
    /\ \A c \in Cycles :
        /\ phase[c] = "fired" => now < limit[c]
        /\ phase[c] = "running" => now < limit[c] + Lag
    /\ \E c \in Cycles : phase[c] # "done"
    /\ now' = now + 1
    /\ UNCHANGED <<cronVars, phase, limit, taskVars, chainVars, crashVars>>

\* The schedule fires: the cycle's goroutine is created, and the entry gets
\* its next activation at once.
Fire ==
    /\ now = nextRun /\ fired < MaxCycles
    /\ fired' = fired + 1
    /\ phase' = [phase EXCEPT ![fired + 1] = "fired"]
    /\ limit' = [limit EXCEPT ![fired + 1] = now + Skew]
    /\ \E gap \in Gaps : nextRun' = now + gap
    /\ UNCHANGED <<now, taskVars, chainVars, crashVars>>

(***************************************************************************)
(* A cycle.                                                                *)
(***************************************************************************)
\* An "@every" schedule has its own period, whatever cron makes of that; for
\* another one it is the time to the next activation, when that is in the future.
scheduleInterval ==
    IF Every THEN Period
    ELSE IF nextRun > now THEN nextRun - now ELSE 0

\* executeRefundCheck up to the start of the workers.
StartCycle(c) ==
    /\ phase[c] = "fired"
    /\ phase' = [phase EXCEPT ![c] = "running"]
    /\ limit' = [limit EXCEPT ![c] = now +
            CycleTimeout(MinimumTimeout, ConfigTimeout, scheduleInterval,
                         CYCLE_SAFETY_MARGIN)]
    /\ UNCHANGED <<now, cronVars, taskVars, chainVars, crashVars>>

Goto(c, a, place) == step' = [step EXCEPT ![c][a] = place]

\* flowmatic.Each hands the account to a worker.
PickUp(c, a) ==
    /\ phase[c] = "running"
    /\ step[c][a] = "queued"
    /\ Cardinality({b \in Accounts : step[c][b] \in Working})
         < MAX_WORKER_GOROUTINES
    /\ Goto(c, a, "collecting")
    /\ UNCHANGED <<now, cronVars, phase, limit, amount, told, payout, events,
                   chainVars, crashVars>>

\* The balance cannot be read, the account is unhealthy, or a unit is missing.
CollectFails(c, a) ==
    /\ step[c][a] = "collecting"
    /\ Goto(c, a, "reporting")
    /\ UNCHANGED <<now, cronVars, phase, limit, amount, told, payout, events,
                   chainVars, crashVars>>

\* Mutant: the account is always refunded by the full target.
ExamineFullTarget(c, a) ==
    LET current == balance[AddressOf[a]]
    IN  /\ step[c][a] = "collecting"
        /\ now <= limit[c]
        /\ \/ /\ current >= Threshold[a]
              /\ Goto(c, a, "done")
              /\ UNCHANGED amount
           \/ /\ current < Threshold[a]
              /\ Goto(c, a, "funding")
              /\ amount' = [amount EXCEPT ![c][a] = Target[a]]
        /\ UNCHANGED <<now, cronVars, phase, limit, told, payout, events,
                       chainVars, crashVars>>

\* Mutant: nothing is checked of the refund amount.
ExamineUnchecked(c, a) ==
    LET current == balance[AddressOf[a]]
    IN  /\ step[c][a] = "collecting"
        /\ now <= limit[c]
        /\ \/ /\ current >= Threshold[a]
              /\ Goto(c, a, "done")
              /\ UNCHANGED amount
           \/ /\ current < Threshold[a]
              /\ Goto(c, a, "funding")
              /\ amount' = [amount EXCEPT ![c][a] = Target[a] - current]
        /\ UNCHANGED <<now, cronVars, phase, limit, told, payout, events,
                       chainVars, crashVars>>

\* processAccount from a successful read of the balance to the call of the
\* faucet.  The balance may move before the faucet pays.
Examine(c, a) ==
    LET current == balance[AddressOf[a]]
        missing == Target[a] - current
    IN  /\ step[c][a] = "collecting"
        /\ now <= limit[c]
        /\ \/ /\ current >= Threshold[a] \/ missing <= 0
              /\ Goto(c, a, "done")
              /\ UNCHANGED amount
           \/ /\ current < Threshold[a] /\ missing > 0
              /\ Goto(c, a, "funding")
              /\ amount' = [amount EXCEPT ![c][a] = missing]
        /\ UNCHANGED <<now, cronVars, phase, limit, told, payout, events,
                       chainVars, crashVars>>

\* Mutant: a claim that is queued is reported as paid.
FundReturnsQueued(c, a) ==
    /\ step[c][a] = "funding"
    /\ \E what \in {"paid", "clean", "unknown"} :
        /\ what = "paid" => payout[c][a] \in {"committed", "paid"}
        /\ what = "clean" => payout[c][a] = "none"
        /\ told' = [told EXCEPT ![c][a] = what]
    /\ Goto(c, a, "reporting")
    /\ UNCHANGED <<now, cronVars, phase, limit, amount, payout, events,
                   chainVars, crashVars>>

\* The call returns: confirmed, or with an error that excludes a payout, or
\* with one that does not.  The scheduler asks to wait, so it is never told
\* of a claim that is merely queued.
FundReturns(c, a) ==
    /\ step[c][a] = "funding"
    /\ PromptFaucet => payout[c][a] # "committed"
    /\ \E what \in {"paid", "clean", "unknown"} :
        /\ what = "paid" => payout[c][a] = "paid"
        /\ what = "clean" => payout[c][a] = "none"
        /\ told' = [told EXCEPT ![c][a] = what]
    /\ Goto(c, a, "reporting")
    /\ UNCHANGED <<now, cronVars, phase, limit, amount, payout, events,
                   chainVars, crashVars>>

\* Mutant: the channel is sized for the workers.
ChannelCapacityWorkers == MAX_WORKER_GOROUTINES

\* eventChan is only drained once all the workers are through.
ChannelCapacity == Cardinality(Accounts)

SendEvent(c, a) ==
    /\ step[c][a] = "reporting"
    /\ events[c] < ChannelCapacity
    /\ events' = [events EXCEPT ![c] = @ + 1]
    /\ Goto(c, a, "done")
    /\ UNCHANGED <<now, cronVars, phase, limit, amount, told, payout,
                   chainVars, crashVars>>

\* flowmatic.Each returns, the events are collected and summarised.
EndCycle(c) ==
    /\ phase[c] = "running"
    /\ \A a \in Accounts : step[c][a] = "done"
    /\ phase' = [phase EXCEPT ![c] = "done"]
    /\ events' = [events EXCEPT ![c] = 0]
    /\ UNCHANGED <<now, cronVars, limit, step, amount, told, payout,
                   chainVars, crashVars>>

CycleStep(c) ==
    \/ StartCycle(c) \/ EndCycle(c)
    \/ \E a \in Accounts : \/ PickUp(c, a) \/ CollectFails(c, a) \/ Examine(c, a)
                           \/ FundReturns(c, a) \/ SendEvent(c, a)

(***************************************************************************)
(* A crash and the restart after it.                                       *)
(***************************************************************************)
\* The next activation is computed anew: a period from now, or the next time
\* that matches the expression.
Reschedule ==
    \/ \E gap \in Gaps : (Every \/ now = nextRun) /\ nextRun' = now + gap
    \/ ~Every /\ now < nextRun /\ UNCHANGED nextRun

Alive == {c \in Cycles : phase[c] \in {"fired", "running"}}
Unsettled(c, a) == payout[c][a] \in {"none", "committed"}

\* Nothing is persisted, so that the only trace of a cycle is at the faucet.
Crash ==
    /\ crashes < MaxCrashes
    /\ crashes' = crashes + 1
    /\ phase' = [c \in Cycles |-> IF c \in Alive THEN "done" ELSE phase[c]]
    /\ lost' = lost \union
            {call \in Cycles \X Accounts : /\ step[call[1]][call[2]] = "funding"
                                           /\ Unsettled(call[1], call[2])}
    /\ told' = [c \in Cycles |-> [a \in Accounts |->
            IF step[c][a] = "funding" THEN "unknown" ELSE told[c][a]]]
    /\ step' = [c \in Cycles |-> [a \in Accounts |->
            IF c \in Alive THEN "done" ELSE step[c][a]]]
    /\ events' = [c \in Cycles |-> 0]
    /\ Reschedule
    /\ UNCHANGED <<now, fired, limit, amount, payout, chainVars>>

(***************************************************************************)
(* The faucet and the chain.                                               *)
(***************************************************************************)
\* The faucet accepts the claim of a call: while the call is in progress, after
\* a crash has cut it short, or after it gave up, unless the faucet is prompt.
Commit(c, a) ==
    /\ payout[c][a] = "none"
    /\ \/ step[c][a] = "funding"
       \/ told[c][a] = "unknown" /\ (<<c, a>> \in lost \/ ~PromptFaucet)
    /\ payout' = [payout EXCEPT ![c][a] = "committed"]
    /\ UNCHANGED <<now, cronVars, phase, limit, step, amount, told, events,
                   chainVars, crashVars>>

Settle(c, a) ==
    /\ payout[c][a] = "committed"
    /\ \/ /\ payout' = [payout EXCEPT ![c][a] = "paid"]
          /\ balance' = [balance EXCEPT ![AddressOf[a]] = @ + amount[c][a]]
       \/ /\ payout' = [payout EXCEPT ![c][a] = "refused"]
          /\ UNCHANGED balance
    /\ UNCHANGED <<now, cronVars, phase, limit, step, amount, told, events,
                   withdrawals, crashVars>>

Withdraw(addr) ==
    /\ withdrawals < MaxWithdrawals
    /\ withdrawals' = withdrawals + 1
    /\ balance[addr] > 0
    /\ balance' = [balance EXCEPT ![addr] = @ - 1]
    /\ UNCHANGED <<now, cronVars, phase, limit, taskVars, crashVars>>

Faucet == \E c \in Cycles, a \in Accounts : Commit(c, a) \/ Settle(c, a)

Next == \/ TimePasses \/ Fire \/ Crash
        \/ \E c \in Cycles : CycleStep(c)
        \/ Faucet
        \/ \E addr \in Addresses : Withdraw(addr)

\* A started goroutine keeps running, and a prompt faucet settles its claims.
Fairness == /\ \A c \in Cycles : WF_vars(CycleStep(c))
            /\ PromptFaucet => WF_vars(\E c \in Cycles, a \in Accounts : Settle(c, a))

Spec == Init /\ [][Next]_vars /\ Fairness

(***************************************************************************)
(* Properties.                                                             *)
(***************************************************************************)
TypeOK == /\ now \in Nat /\ nextRun \in Nat /\ fired \in 0 .. MaxCycles
          /\ phase \in [Cycles -> {"unfired", "fired", "running", "done"}]
          /\ limit \in [Cycles -> Nat]
          /\ step \in [Cycles -> [Accounts -> Steps]]
          /\ amount \in [Cycles -> [Accounts -> Nat]]
          /\ told \in [Cycles -> [Accounts -> {"pending", "paid", "clean", "unknown"}]]
          /\ payout \in [Cycles -> [Accounts -> {"none", "committed", "paid", "refused"}]]
          /\ events \in [Cycles -> 0 .. Cardinality(Accounts)]
          /\ balance \in [Addresses -> Nat]
          /\ withdrawals \in 0 .. MaxWithdrawals
          /\ crashes \in 0 .. MaxCrashes
          /\ lost \subseteq Cycles \X Accounts

\* Two cycles of a node never run at the same time, although nothing but the
\* timeout of the earlier one keeps cron from starting the later one.  The cap on
\* that timeout is not applied to an interval within the margin, although it is
\* there "to prevent overlap": such schedules are outside RoomForMargin.
NoOverlap ==
    \A c, d \in Cycles : phase[c] = "running" /\ phase[d] = "running" => c = d

\* What NoOverlap needs of the environment: the margin covers the delays of
\* the start and of the end of a cycle, and what cron drops of a period; and
\* the schedule has room for the margin.
RoomForMargin ==
    \A g \in Gaps :
        IF Every THEN /\ Period > CYCLE_SAFETY_MARGIN
                      /\ Skew + Lag + Period < CYCLE_SAFETY_MARGIN + g
        ELSE /\ g > CYCLE_SAFETY_MARGIN + Skew
             /\ Skew + Lag < CYCLE_SAFETY_MARGIN

\* The sum of what the cycles weigh.
SumOfCycles(weight) ==
    LET upTo[c \in 0 .. MaxCycles] ==
            IF c = 0 THEN 0 ELSE upTo[c - 1] + weight[c]
    IN  upTo[MaxCycles]

\* What calls that were cut short have paid to an account since.
LatePayouts(a) ==
    SumOfCycles([c \in Cycles |->
        IF <<c, a>> \in lost /\ payout[c][a] = "paid" THEN amount[c][a] ELSE 0])

\* No payout takes an account past its target, although the balance that its
\* amount was computed from may be out of date by the time the faucet pays:
\* the payouts of different cycles must not add up.  A crash, after which the
\* next cycle asks again, costs no more than the claims it left behind, and
\* of these only the ones that are paid.
NeverOverTarget ==
    [][ \A a \in Accounts :
            balance'[AddressOf[a]] > balance[AddressOf[a]]
              => balance'[AddressOf[a]] <= Target[a] + LatePayouts(a)' ]_vars

\* Every cycle that starts comes to an end: the workers are never blocked on
\* an event channel that nobody reads until they are through.
CycleEnds == \A c \in Cycles : phase[c] = "running" ~> phase[c] = "done"

Call(c, a) == INSTANCE FundingCall
                WITH outcome <- told[c][a], payout <- payout[c][a]

\* What this model lets a call of the faucet client do is what FundingCall
\* allows, and so is covered by what FaucetClient is shown to implement.
CallsFollowContract ==
    [][ \A c \in Cycles, a \in Accounts :
            Call(c, a)!Next \/ UNCHANGED <<told[c][a], payout[c][a]>> ]_vars
=============================================================================
