------------------------- MODULE RefundCycleProofs -------------------------
(***************************************************************************)
(* Why the safety margin keeps refund cycles apart, for any number of      *)
(* accounts, workers and cycles, any timeouts, and any schedule that has   *)
(* room for the margin.                                                    *)
(***************************************************************************)
EXTENDS RefundCycle, FiniteSetTheorems, TLAPS

(***************************************************************************)
(* cycleTimeout.                                                           *)
(***************************************************************************)
LEMMA TimeoutInNat ==
    ASSUME NEW m \in Nat, NEW t \in Nat, NEW i \in Int, NEW g \in Nat
    PROVE  CycleTimeout(m, t, i, g) \in Nat
  BY DEF CycleTimeout, Larger, Smaller

\* Whatever is configured, a known interval with room for the margin keeps it.
LEMMA TimeoutLeavesMargin ==
    ASSUME NEW m \in Nat, NEW t \in Nat, NEW i \in Int, NEW g \in Nat, i > g
    PROVE  CycleTimeout(m, t, i, g) <= i - g
  BY DEF CycleTimeout, Larger, Smaller

(***************************************************************************)
(* The inductive invariant: only the cycle that was fired last is alive,   *)
(* and it will be over strictly before the schedule fires again.           *)
(***************************************************************************)
Clocks == /\ now \in Nat /\ nextRun \in Nat
          /\ fired \in 0 .. MaxCycles
          /\ phase \in [Cycles -> {"unfired", "fired", "running", "done"}]
          /\ limit \in [Cycles -> Nat]

OnlyLastAlive ==
    \A c \in Cycles : /\ c > fired => phase[c] = "unfired"
                      /\ phase[c] \in {"fired", "running"} => c = fired

StartsInTime ==
    \A c \in Cycles : phase[c] = "fired" =>
        /\ now <= limit[c]
        /\ \E g \in Gaps : limit[c] + g = nextRun + Skew

EndsInTime ==
    \A c \in Cycles : phase[c] = "running" =>
        /\ now <= limit[c] + Lag
        /\ limit[c] + Lag < nextRun

TInv == Clocks /\ OnlyLastAlive /\ StartsInTime /\ EndsInTime

LEMMA TInvInit == Init => TInv
  BY BoundsAssumption
     DEF Init, TInv, Clocks, OnlyLastAlive, StartsInTime, EndsInTime, Cycles

\* When the schedule fires, the cycle before has ended: it was to be over
\* strictly before this instant, and the clock waits for it.
LEMMA FireKeepsTInv ==
    ASSUME RoomForMargin, TInv, Fire
    PROVE  TInv'
  <1>1. \A c \in Cycles : phase[c] \notin {"fired", "running"}
    <2>1. \A c \in Cycles : phase[c] # "fired"
      <3> SUFFICES ASSUME NEW c \in Cycles, phase[c] = "fired" PROVE FALSE
        OBVIOUS
      <3>1. PICK g \in Gaps : limit[c] + g = nextRun + Skew
        BY DEF TInv, StartsInTime
      <3>2. now <= limit[c] /\ now = nextRun
        BY DEF TInv, StartsInTime, Fire
      <3>3. g \in Nat /\ g > Skew
        <4>1. g \in Nat /\ {Skew, Lag, Period, CYCLE_SAFETY_MARGIN} \subseteq Nat
          BY TimingAssumption
        <4> QED
          BY <4>1 DEF RoomForMargin
      <3> QED
        BY <3>1, <3>2, <3>3, TimingAssumption DEF TInv, Clocks
    <2>2. \A c \in Cycles : phase[c] # "running"
      BY TimingAssumption DEF TInv, EndsInTime, Clocks, Fire
    <2> QED
      BY <2>1, <2>2
  <1>2. PICK gap \in Gaps : nextRun' = now + gap
    BY DEF Fire
  <1>3. /\ fired + 1 \in Cycles
        /\ fired' = fired + 1
        /\ phase' = [phase EXCEPT ![fired + 1] = "fired"]
        /\ limit' = [limit EXCEPT ![fired + 1] = now + Skew]
        /\ now' = now
    BY BoundsAssumption DEF Fire, TInv, Clocks, Cycles
  <1>4. Clocks'
    BY <1>2, <1>3, TimingAssumption, BoundsAssumption DEF TInv, Clocks, Cycles
  <1>5. OnlyLastAlive'
    BY <1>1, <1>3 DEF TInv, Clocks, OnlyLastAlive, Cycles
  <1>6. StartsInTime'
    <2> SUFFICES ASSUME NEW c \in Cycles, phase'[c] = "fired"
                 PROVE  /\ now' <= limit'[c]
                        /\ \E g \in Gaps : limit'[c] + g = nextRun' + Skew
      BY DEF StartsInTime
    <2>1. c = fired + 1 /\ limit'[c] = now + Skew
      BY <1>1, <1>3 DEF TInv, Clocks
    <2>2. limit'[c] + gap = nextRun' + Skew
      BY <1>2, <2>1, TimingAssumption DEF TInv, Clocks
    <2> QED
      BY <1>3, <2>1, <2>2, TimingAssumption DEF TInv, Clocks
  <1>7. EndsInTime'
    BY <1>1, <1>3 DEF TInv, Clocks, EndsInTime
  <1> QED
    BY <1>4, <1>5, <1>6, <1>7 DEF TInv

\* A cycle that starts takes a deadline a margin before the next activation,
\* less its own delay.
LEMMA StartKeepsTInv ==
    ASSUME RoomForMargin, TInv, NEW c \in Cycles, StartCycle(c)
    PROVE  TInv'
  <1> DEFINE timeout == CycleTimeout(MinimumTimeout, ConfigTimeout,
                                     scheduleInterval, CYCLE_SAFETY_MARGIN)
  <1>1. /\ phase[c] = "fired" /\ c = fired
        /\ phase' = [phase EXCEPT ![c] = "running"]
        /\ limit' = [limit EXCEPT ![c] = now + timeout]
        /\ UNCHANGED <<now, nextRun, fired>>
    BY DEF StartCycle, cronVars, TInv, OnlyLastAlive
  <1>2. PICK g \in Gaps : limit[c] + g = nextRun + Skew
    BY <1>1 DEF TInv, StartsInTime
  <1>3. now <= limit[c]
    BY <1>1 DEF TInv, StartsInTime
  <1>4. /\ g \in Nat /\ Skew \in Nat /\ Lag \in Nat
        /\ CYCLE_SAFETY_MARGIN \in Nat
        /\ now \in Nat /\ nextRun \in Nat /\ limit[c] \in Nat
        /\ Period \in Nat
    BY TimingAssumption DEF TInv, Clocks
  <1>5. /\ scheduleInterval \in Int
        /\ scheduleInterval > CYCLE_SAFETY_MARGIN
        /\ now + scheduleInterval - CYCLE_SAFETY_MARGIN + Lag < nextRun
    <2>1. CASE Every
      <3>1. scheduleInterval = Period
        BY <2>1 DEF scheduleInterval
      <3>2. /\ Period > CYCLE_SAFETY_MARGIN
            /\ Skew + Lag + Period < CYCLE_SAFETY_MARGIN + g
        BY <2>1 DEF RoomForMargin
      <3> QED
        BY <1>2, <1>3, <1>4, <3>1, <3>2
    <2>2. CASE ~Every
      <3>1. g > CYCLE_SAFETY_MARGIN + Skew /\ Skew + Lag < CYCLE_SAFETY_MARGIN
        BY <2>2 DEF RoomForMargin
      <3>2. nextRun - now > CYCLE_SAFETY_MARGIN
        BY <1>2, <1>3, <1>4, <3>1
      <3>3. scheduleInterval = nextRun - now
        BY <1>4, <2>2, <3>2 DEF scheduleInterval
      <3> QED
        BY <1>4, <3>1, <3>2, <3>3
    <2> QED
      BY <2>1, <2>2
  <1>6. timeout \in Nat /\ timeout <= scheduleInterval - CYCLE_SAFETY_MARGIN
    BY <1>4, <1>5, TimeoutInNat, TimeoutLeavesMargin, TimingAssumption
  <1>7. now + timeout + Lag < nextRun
    BY <1>4, <1>5, <1>6
  <1> HIDE DEF timeout
  <1>8. Clocks'
    BY <1>1, <1>4, <1>6 DEF TInv, Clocks
  <1>9. OnlyLastAlive' /\ StartsInTime'
    BY <1>1 DEF TInv, Clocks, OnlyLastAlive, StartsInTime, Cycles
  <1>10. EndsInTime'
    BY <1>1, <1>4, <1>6, <1>7 DEF TInv, Clocks, EndsInTime, OnlyLastAlive
  <1> QED
    BY <1>8, <1>9, <1>10 DEF TInv

LEMMA TimeKeepsTInv ==
    ASSUME TInv, TimePasses
    PROVE  TInv'
  <1>1. /\ now' = now + 1
        /\ UNCHANGED <<nextRun, fired, phase, limit>>
        /\ \A c \in Cycles :
            /\ phase[c] = "fired" => now < limit[c]
            /\ phase[c] = "running" => now < limit[c] + Lag
    BY DEF TimePasses, cronVars
  <1> QED
    BY <1>1, TimingAssumption
       DEF TInv, Clocks, OnlyLastAlive, StartsInTime, EndsInTime

\* Ending a cycle only takes one away from those alive; all the other steps
\* leave the clock, the schedule and the phases alone.
LEMMA OthersKeepTInv ==
    ASSUME TInv, UNCHANGED <<now, nextRun, fired, limit>>,
           \/ UNCHANGED phase
           \/ \E c \in Cycles : phase' = [phase EXCEPT ![c] = "done"] /\ c <= fired
    PROVE  TInv'
  <1>1. /\ phase' \in [Cycles -> {"unfired", "fired", "running", "done"}]
        /\ \A c \in Cycles :
            phase'[c] = phase[c] \/ (phase'[c] = "done" /\ c <= fired)
    <2>1. CASE UNCHANGED phase
      BY <2>1 DEF TInv, Clocks
    <2>2. ASSUME NEW c \in Cycles,
                 phase' = [phase EXCEPT ![c] = "done"], c <= fired
          PROVE  /\ phase' \in [Cycles -> {"unfired", "fired", "running", "done"}]
                 /\ \A d \in Cycles :
                     phase'[d] = phase[d] \/ (phase'[d] = "done" /\ d <= fired)
      BY <2>2 DEF TInv, Clocks
    <2> QED
      BY <2>1, <2>2
  <1>2. Clocks'
    BY <1>1 DEF TInv, Clocks
  <1>3. OnlyLastAlive'
    BY <1>1 DEF TInv, Clocks, OnlyLastAlive, Cycles
  <1>4. StartsInTime' /\ EndsInTime'
    BY <1>1 DEF TInv, StartsInTime, EndsInTime
  <1> QED
    BY <1>2, <1>3, <1>4 DEF TInv

\* After a crash no cycle is alive, and a new process fires none before the
\* schedule says so.
LEMMA CrashKeepsTInv ==
    ASSUME TInv, Crash
    PROVE  TInv'
  <1>1. /\ phase' \in [Cycles -> {"unfired", "fired", "running", "done"}]
        /\ \A c \in Cycles : /\ phase'[c] \notin {"fired", "running"}
                             /\ phase'[c] = "unfired" <=> phase[c] = "unfired"
    BY DEF Crash, Alive, TInv, Clocks
  <1>2. UNCHANGED <<now, fired, limit>>
    BY DEF Crash
  <1>3. nextRun' \in Nat
    <2>1. CASE UNCHANGED nextRun
      BY <2>1 DEF TInv, Clocks
    <2>2. ASSUME NEW gap \in Gaps, nextRun' = now + gap
          PROVE  nextRun' \in Nat
      BY <2>2, TimingAssumption DEF TInv, Clocks
    <2> QED
      BY <2>1, <2>2 DEF Crash, Reschedule
  <1>4. Clocks'
    BY <1>1, <1>2, <1>3 DEF TInv, Clocks
  <1> QED
    BY <1>1, <1>2, <1>4
       DEF TInv, Clocks, OnlyLastAlive, StartsInTime, EndsInTime

LEMMA TInvNext == RoomForMargin /\ TInv /\ [Next]_vars => TInv'
  <1> SUFFICES ASSUME RoomForMargin, TInv, [Next]_vars PROVE TInv'
    OBVIOUS
  <1>1. CASE TimePasses
    BY <1>1, TimeKeepsTInv
  <1>2. CASE Fire
    BY <1>2, FireKeepsTInv
  <1>3. ASSUME NEW c \in Cycles, StartCycle(c) PROVE TInv'
    BY <1>3, StartKeepsTInv
  <1>4. ASSUME NEW c \in Cycles, EndCycle(c) PROVE TInv'
    <2>1. phase' = [phase EXCEPT ![c] = "done"] /\ c <= fired
      BY <1>4 DEF EndCycle, TInv, Clocks, OnlyLastAlive, Cycles
    <2>2. UNCHANGED <<now, nextRun, fired, limit>>
      BY <1>4 DEF EndCycle, cronVars
    <2> QED
      BY <2>1, <2>2, OthersKeepTInv
  <1>5. ASSUME NEW c \in Cycles, NEW a \in Accounts,
               \/ PickUp(c, a) \/ CollectFails(c, a) \/ Examine(c, a)
               \/ FundReturns(c, a) \/ SendEvent(c, a)
               \/ Commit(c, a) \/ Settle(c, a)
        PROVE  TInv'
    <2>1. UNCHANGED <<now, nextRun, fired, limit, phase>>
      BY <1>5 DEF PickUp, CollectFails, Examine, FundReturns, SendEvent, Commit,
                  Settle, cronVars
    <2> QED
      BY <2>1, OthersKeepTInv
  <1>6. ASSUME NEW x \in Addresses, Withdraw(x) PROVE TInv'
    <2>1. UNCHANGED <<now, nextRun, fired, limit, phase>>
      BY <1>6 DEF Withdraw, cronVars
    <2> QED
      BY <2>1, OthersKeepTInv
  <1>7. CASE Crash
    BY <1>7, CrashKeepsTInv
  <1>8. CASE UNCHANGED vars
    <2>1. UNCHANGED <<now, nextRun, fired, limit, phase>>
      BY <1>8 DEF vars, cronVars
    <2> QED
      BY <2>1, OthersKeepTInv
  <1> QED
    BY <1>1, <1>2, <1>3, <1>4, <1>5, <1>6, <1>7, <1>8 DEF Next, CycleStep, Faucet

\* CYCLE_SAFETY_MARGIN does what its comment says, "prevent cycle overlap",
\* when goroutines start and stop within it and the schedule is coarser.
THEOREM CyclesDoNotOverlap ==
    ASSUME RoomForMargin
    PROVE  Spec => []NoOverlap
  <1>1. TInv => NoOverlap
    BY DEF TInv, OnlyLastAlive, NoOverlap
  <1>2. TInv /\ [Next]_vars => TInv'
    BY TInvNext
  <1> QED
    BY TInvInit, <1>1, <1>2, PTL DEF Spec

(***************************************************************************)
(* Types, and the calls of the faucet.                                     *)
(***************************************************************************)
LEMMA Sizes == Cardinality(Accounts) \in Nat
  BY AccountsAssumption, FS_CardinalityType

LEMMA TypeInit == Init => TypeOK
  <1> SUFFICES ASSUME Init PROVE TypeOK
    OBVIOUS
  <1>1. 0 \in 0 .. MaxCycles /\ 0 \in 0 .. MaxWithdrawals /\ 0 \in 0 .. MaxCrashes
    BY BoundsAssumption
  <1>2. 0 \in 0 .. Cardinality(Accounts)
    BY Sizes
  <1> QED
    BY <1>1, <1>2, AccountsAssumption DEF Init, TypeOK, Steps

\* The steps of the schedule and the clock.
LEMMA TypeSchedule ==
    ASSUME TypeOK, \/ TimePasses \/ Fire \/ Crash
                   \/ \E c \in Cycles : StartCycle(c) \/ EndCycle(c)
                   \/ \E x \in Addresses : Withdraw(x)
    PROVE  TypeOK'
  <1> USE DEF TypeOK
  <1>1. CASE TimePasses
    BY <1>1 DEF TimePasses, cronVars, taskVars, chainVars, crashVars
  <1>2. CASE Fire
    <2>1. nextRun' \in Nat /\ fired + 1 \in 0 .. MaxCycles /\ now + Skew \in Nat
      BY <1>2, TimingAssumption, BoundsAssumption DEF Fire
    <2> QED
      BY <1>2, <2>1 DEF Fire, taskVars, chainVars, crashVars
  <1>3. CASE Crash
    <2>1. nextRun' \in Nat
      BY <1>3, TimingAssumption DEF Crash, Reschedule
    <2>2. crashes' \in 0 .. MaxCrashes /\ lost' \subseteq Cycles \X Accounts
      BY <1>3, BoundsAssumption DEF Crash
    <2>3. events' \in [Cycles -> 0 .. Cardinality(Accounts)]
      BY <1>3, Sizes DEF Crash
    <2>4. phase' \in [Cycles -> {"unfired", "fired", "running", "done"}]
          /\ step' \in [Cycles -> [Accounts -> Steps]]
          /\ told' \in [Cycles -> [Accounts -> {"pending", "paid", "clean", "unknown"}]]
      BY <1>3 DEF Crash, Steps
    <2> QED
      BY <1>3, <2>1, <2>2, <2>3, <2>4 DEF Crash, chainVars
  <1>4. ASSUME NEW c \in Cycles, StartCycle(c) PROVE TypeOK'
    <2>1. scheduleInterval \in Int
      <3>1. CASE ~Every
        BY <3>1 DEF scheduleInterval
      <3>2. CASE Every
        BY <3>2, TimingAssumption DEF scheduleInterval
      <3> QED
        BY <3>1, <3>2
    <2>2. CycleTimeout(MinimumTimeout, ConfigTimeout, scheduleInterval,
                       CYCLE_SAFETY_MARGIN) \in Nat
      BY <2>1, TimeoutInNat, TimingAssumption
    <2>3. limit' \in [Cycles -> Nat]
      BY <1>4, <2>2 DEF StartCycle
    <2> QED
      BY <1>4, <2>3 DEF StartCycle, cronVars, taskVars, chainVars, crashVars
  <1>5. ASSUME NEW c \in Cycles, EndCycle(c) PROVE TypeOK'
    BY <1>5, Sizes DEF EndCycle, cronVars, chainVars, crashVars
  <1>6. ASSUME NEW x \in Addresses, Withdraw(x) PROVE TypeOK'
    BY <1>6, BoundsAssumption
       DEF Withdraw, cronVars, taskVars, crashVars
  <1> QED
    BY <1>1, <1>2, <1>3, <1>4, <1>5, <1>6

\* A table of the calls with one entry changed is such a table.
LEMMA OneEntry ==
    ASSUME NEW S, NEW f \in [Cycles -> [Accounts -> S]],
           NEW c \in Cycles, NEW a \in Accounts, NEW v \in S
    PROVE  [f EXCEPT ![c][a] = v] \in [Cycles -> [Accounts -> S]]
  OBVIOUS

\* The steps of a call, of the faucet and of the chain.
LEMMA TypeTask ==
    ASSUME TypeOK, NEW c \in Cycles, NEW a \in Accounts,
           \/ PickUp(c, a) \/ CollectFails(c, a) \/ Examine(c, a)
           \/ FundReturns(c, a) \/ SendEvent(c, a)
           \/ Commit(c, a) \/ Settle(c, a)
    PROVE  TypeOK'
  <1> USE DEF TypeOK
  <1>1. CASE PickUp(c, a) \/ CollectFails(c, a)
    <2>1. step' \in [Cycles -> [Accounts -> Steps]]
      <3>1. PICK place \in Steps : step' = [step EXCEPT ![c][a] = place]
        BY <1>1 DEF PickUp, CollectFails, Goto, Steps
      <3> QED
        BY <3>1, OneEntry
    <2> QED
      BY <1>1, <2>1 DEF PickUp, CollectFails, cronVars, chainVars, crashVars
  <1>2. CASE Examine(c, a)
    <2>1. step' \in [Cycles -> [Accounts -> Steps]]
      <3>1. PICK place \in Steps : step' = [step EXCEPT ![c][a] = place]
        BY <1>2 DEF Examine, Goto, Steps
      <3> QED
        BY <3>1, OneEntry
    <2>2. amount' \in [Cycles -> [Accounts -> Nat]]
      <3> DEFINE missing == Target[a] - balance[AddressOf[a]]
      <3>1. \/ UNCHANGED amount
            \/ missing > 0 /\ amount' = [amount EXCEPT ![c][a] = missing]
        BY <1>2 DEF Examine
      <3>2. missing \in Int
        BY AccountsAssumption
      <3>3. missing > 0 => missing \in Nat
        BY <3>2
      <3> HIDE DEF missing
      <3>4. CASE UNCHANGED amount
        BY <3>4
      <3>5. CASE missing \in Nat /\ amount' = [amount EXCEPT ![c][a] = missing]
        BY <3>5, OneEntry
      <3> QED
        BY <3>1, <3>3, <3>4, <3>5
    <2> QED
      BY <1>2, <2>1, <2>2 DEF Examine, cronVars, chainVars, crashVars
  <1>3. CASE SendEvent(c, a)
    <2>1. events[c] + 1 \in 0 .. Cardinality(Accounts)
      BY <1>3, Sizes DEF SendEvent, ChannelCapacity
    <2>2. step' \in [Cycles -> [Accounts -> Steps]]
      BY <1>3, OneEntry DEF SendEvent, Goto, Steps
    <2> QED
      BY <1>3, <2>1, <2>2 DEF SendEvent, cronVars, chainVars, crashVars
  <1> DEFINE Fates == {"none", "committed", "paid", "refused"}
  <1>4. CASE Commit(c, a)
    <2>1. payout' \in [Cycles -> [Accounts -> Fates]]
      BY <1>4, OneEntry DEF Commit
    <2> QED
      BY <1>4, <2>1 DEF Commit, cronVars, chainVars, crashVars
  <1>5. CASE Settle(c, a)
    <2>1. balance[AddressOf[a]] + amount[c][a] \in Nat /\ AddressOf[a] \in Addresses
      BY AccountsAssumption
    <2>2. balance' \in [Addresses -> Nat]
      BY <1>5, <2>1 DEF Settle
    <2>3. payout' \in [Cycles -> [Accounts -> Fates]]
      <3>1. PICK fate \in Fates : payout' = [payout EXCEPT ![c][a] = fate]
        BY <1>5 DEF Settle
      <3> QED
        BY <3>1, OneEntry
    <2> QED
      BY <1>5, <2>2, <2>3 DEF Settle, cronVars, crashVars
  <1>6. CASE FundReturns(c, a)
    <2>1. step' \in [Cycles -> [Accounts -> Steps]]
      BY <1>6, OneEntry DEF FundReturns, Goto, Steps
    <2>2. told' \in [Cycles -> [Accounts -> {"pending", "paid", "clean", "unknown"}]]
      BY <1>6, OneEntry DEF FundReturns
    <2> QED
      BY <1>6, <2>1, <2>2 DEF FundReturns, cronVars, chainVars, crashVars
  <1> QED
    BY <1>1, <1>2, <1>3, <1>4, <1>5, <1>6

LEMMA TypeNext == TypeOK /\ [Next]_vars => TypeOK'
  <1> SUFFICES ASSUME TypeOK, [Next]_vars PROVE TypeOK'
    OBVIOUS
  <1>1. CASE UNCHANGED vars
    BY <1>1 DEF TypeOK, vars, cronVars, taskVars, chainVars, crashVars
  <1> QED
    BY <1>1, TypeSchedule, TypeTask DEF Next, CycleStep, Faucet

\* A cycle has the values its fields are meant for, whatever the schedule, the
\* faucet and crashes do; in particular, no more events than eventChan holds.
THEOREM TypeCorrect == Spec => []TypeOK
  BY TypeInit, TypeNext, PTL DEF Spec

\* A call is made by a cycle that runs, and tells nothing until it returns.
Unanswered ==
    \A c \in Cycles :
        /\ c > fired => phase[c] = "unfired"
        /\ \A a \in Accounts :
            /\ step[c][a] \in {"collecting", "funding"} => phase[c] = "running"
            /\ step[c][a] \in {"queued", "collecting", "funding"} =>
                  told[c][a] = "pending"

\* What a step may do to one call.
CallOrNone(c, a) == Call(c, a)!Next \/ UNCHANGED <<told[c][a], payout[c][a]>>

LEMMA UnansweredInit == Init => Unanswered
  BY DEF Init, Unanswered

\* The steps that leave the calls alone.
LEMMA CallsUntouched ==
    ASSUME TypeOK, Unanswered, UNCHANGED <<step, told, payout>>,
           \/ UNCHANGED <<fired, phase>> \/ Fire
           \/ \E c \in Cycles : StartCycle(c) \/ EndCycle(c)
    PROVE  Unanswered' /\ \A c \in Cycles, a \in Accounts : CallOrNone(c, a)
  <1> USE DEF TypeOK
  <1>1. \A c \in Cycles, a \in Accounts : CallOrNone(c, a)
    BY DEF CallOrNone
  <1>2. CASE UNCHANGED <<fired, phase>>
    BY <1>1, <1>2 DEF Unanswered
  <1>3. CASE Fire
    <2>1. fired' = fired + 1 /\ phase' = [phase EXCEPT ![fired + 1] = "fired"]
          /\ \A c \in Cycles : c > fired + 1 => c > fired /\ c # fired + 1
          /\ fired + 1 \in Cycles /\ fired + 1 > fired
      BY <1>3, BoundsAssumption DEF Fire, Cycles
    <2> QED
      BY <1>1, <2>1 DEF Unanswered
  <1>4. ASSUME NEW c \in Cycles, StartCycle(c) PROVE Unanswered'
    <2>1. phase[c] = "fired" /\ phase' = [phase EXCEPT ![c] = "running"]
          /\ fired' = fired
      BY <1>4 DEF StartCycle, cronVars
    <2> QED
      BY <2>1 DEF Unanswered
  <1>5. ASSUME NEW c \in Cycles, EndCycle(c) PROVE Unanswered'
    <2>1. phase[c] = "running" /\ phase' = [phase EXCEPT ![c] = "done"]
          /\ fired' = fired /\ \A a \in Accounts : step[c][a] = "done"
      BY <1>5 DEF EndCycle, cronVars
    <2> QED
      BY <2>1 DEF Unanswered
  <1> QED
    BY <1>1, <1>2, <1>3, <1>4, <1>5

\* The steps of an account in a cycle, up to the call and after it.
LEMMA AccountSteps ==
    ASSUME TypeOK, Unanswered, NEW c \in Cycles, NEW a \in Accounts,
           PickUp(c, a) \/ CollectFails(c, a) \/ Examine(c, a) \/ SendEvent(c, a)
    PROVE  Unanswered' /\ \A d \in Cycles, b \in Accounts : CallOrNone(d, b)
  <1> USE DEF TypeOK
  <1>1. /\ UNCHANGED <<fired, phase, told, payout>>
        /\ \E place \in Steps :
             /\ step' = [step EXCEPT ![c][a] = place]
             /\ \/ place \in {"reporting", "done"}
                \/ place = "collecting" /\ step[c][a] = "queued" /\ phase[c] = "running"
                \/ place = "funding" /\ step[c][a] = "collecting"
    BY DEF PickUp, CollectFails, Examine, SendEvent, Goto, Steps, cronVars
  <1>2. \A d \in Cycles, b \in Accounts : CallOrNone(d, b)
    BY <1>1 DEF CallOrNone
  <1> QED
    BY <1>1, <1>2 DEF Unanswered

LEMMA CallReturnsAllowed ==
    ASSUME TypeOK, Unanswered, NEW c \in Cycles, NEW a \in Accounts, FundReturns(c, a)
    PROVE  Unanswered' /\ \A d \in Cycles, b \in Accounts : CallOrNone(d, b)
  <1> USE DEF TypeOK
  <1>1. PICK what \in {"paid", "clean", "unknown"} :
           /\ what = "paid" => payout[c][a] = "paid"
           /\ what = "clean" => payout[c][a] = "none"
           /\ told' = [told EXCEPT ![c][a] = what]
    BY DEF FundReturns
  <1>2. /\ step' = [step EXCEPT ![c][a] = "reporting"] /\ told[c][a] = "pending"
        /\ UNCHANGED <<fired, phase, payout>>
    BY DEF FundReturns, Goto, Unanswered, cronVars
  <1>3. \A d \in Cycles, b \in Accounts : CallOrNone(d, b)
    BY <1>1, <1>2 DEF CallOrNone, Call!Next, Call!Return
  <1> QED
    BY <1>1, <1>2, <1>3 DEF Unanswered

LEMMA FaucetAllowed ==
    ASSUME TypeOK, Unanswered, NEW c \in Cycles, NEW a \in Accounts,
           Commit(c, a) \/ Settle(c, a)
    PROVE  Unanswered' /\ \A d \in Cycles, b \in Accounts : CallOrNone(d, b)
  <1> USE DEF TypeOK
  <1>1. PICK how \in {"committed", "paid", "refused"} :
           /\ payout' = [payout EXCEPT ![c][a] = how]
           /\ \/ payout[c][a] = "none" /\ told[c][a] \in {"pending", "unknown"}
              \/ payout[c][a] = "committed" /\ how \in {"paid", "refused"}
    BY DEF Commit, Settle, Unanswered
  <1>2. UNCHANGED <<fired, phase, step, told>>
    BY DEF Commit, Settle, cronVars
  <1>3. \A d \in Cycles, b \in Accounts : CallOrNone(d, b)
    BY <1>1, <1>2 DEF CallOrNone, Call!Next, Call!Commit, Call!Settle
  <1> QED
    BY <1>2, <1>3 DEF Unanswered

LEMMA CrashAllowed ==
    ASSUME TypeOK, Unanswered, Crash
    PROVE  Unanswered' /\ \A c \in Cycles, a \in Accounts : CallOrNone(c, a)
  <1> USE DEF TypeOK
  <1>1. UNCHANGED <<fired, payout>>
    BY DEF Crash
  <1>2. ASSUME NEW c \in Cycles
        PROVE  phase'[c] = IF c \in Alive THEN "done" ELSE phase[c]
    BY DEF Crash
  <1>3. ASSUME NEW c \in Cycles, NEW a \in Accounts
        PROVE  /\ told'[c][a] = IF step[c][a] = "funding" THEN "unknown" ELSE told[c][a]
               /\ step'[c][a] = IF c \in Alive THEN "done" ELSE step[c][a]
    BY DEF Crash
  <1>4. \A c \in Cycles, a \in Accounts : CallOrNone(c, a)
    BY <1>1, <1>3 DEF CallOrNone, Call!Next, Call!Return, Unanswered
  <1>5. Unanswered'
    <2> SUFFICES ASSUME NEW c \in Cycles
                 PROVE  /\ c > fired => phase'[c] = "unfired"
                        /\ \A a \in Accounts :
                            /\ step'[c][a] \in {"collecting", "funding"} =>
                                  phase'[c] = "running"
                            /\ step'[c][a] \in {"queued", "collecting", "funding"} =>
                                  told'[c][a] = "pending"
      BY <1>1 DEF Unanswered
    <2>1. CASE c \in Alive
      <3>1. ~(c > fired)
        BY <2>1 DEF Unanswered, Alive
      <3> QED
        BY <1>3, <2>1, <3>1
    <2>2. CASE c \notin Alive
      <3>1. \A a \in Accounts : step[c][a] # "funding"
        BY <2>2 DEF Unanswered, Alive
      <3> QED
        BY <1>2, <1>3, <2>2, <3>1 DEF Unanswered
    <2> QED
      BY <2>1, <2>2
  <1> QED
    BY <1>4, <1>5

LEMMA CallsNext ==
    TypeOK /\ Unanswered /\ [Next]_vars =>
        Unanswered' /\ \A c \in Cycles, a \in Accounts : CallOrNone(c, a)
  <1> SUFFICES ASSUME TypeOK, Unanswered, [Next]_vars
               PROVE  Unanswered' /\ \A c \in Cycles, a \in Accounts : CallOrNone(c, a)
    OBVIOUS
  <1>1. CASE UNCHANGED vars \/ TimePasses \/ Fire
             \/ (\E x \in Addresses : Withdraw(x))
             \/ (\E c \in Cycles : StartCycle(c) \/ EndCycle(c))
    <2>1. UNCHANGED <<step, told, payout>>
      BY <1>1 DEF vars, TimePasses, Fire, Withdraw, StartCycle, EndCycle, taskVars
    <2>2. \/ UNCHANGED <<fired, phase>> \/ Fire
          \/ \E c \in Cycles : StartCycle(c) \/ EndCycle(c)
      BY <1>1 DEF vars, TimePasses, Withdraw, cronVars
    <2> QED
      BY <2>1, <2>2, CallsUntouched
  <1> QED
    BY <1>1, AccountSteps, CallReturnsAllowed, FaucetAllowed, CrashAllowed
       DEF Next, CycleStep, Faucet

\* Every call in a cycle is an instance of FundingCall, whatever crashes cut
\* short: what FaucetClient is shown to implement is what the cycles rely on.
THEOREM CallsAreFundingCalls == Spec => CallsFollowContract
  <1>1. TypeOK /\ Unanswered /\ [Next]_vars =>
           Unanswered' /\ [\A c \in Cycles, a \in Accounts : CallOrNone(c, a)]_vars
    BY CallsNext
  <1>2. Spec => [][\A c \in Cycles, a \in Accounts : CallOrNone(c, a)]_vars
    BY UnansweredInit, TypeCorrect, <1>1, PTL DEF Spec
  <1> QED
    BY <1>2 DEF CallsFollowContract, CallOrNone
=============================================================================
