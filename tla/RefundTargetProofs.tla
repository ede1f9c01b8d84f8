------------------------ MODULE RefundTargetProofs -------------------------
(***************************************************************************)
(* Why no refund takes an account past its target, for any number of       *)
(* accounts, cycles, workers and crashes: the cycles do not overlap, so    *)
(* that of an account one call at a time is in progress, and the faucet    *)
(* settles its claims before the call returns.                             *)
(***************************************************************************)
EXTENDS RefundCycleProofs, WellFoundedInduction

(***************************************************************************)
(* Sums over the cycles.                                                   *)
(***************************************************************************)
\* Induction over the naturals, for what holds of the members of a set.
LEMMA Induction ==
    ASSUME NEW T \in SUBSET Nat, 0 \in T, \A n \in T : n + 1 \in T
    PROVE  T = Nat
<1> DEFINE R == {pair \in Nat \X Nat : pair[1] < pair[2]}
           Missing == Nat \ T
<1>1. IsWellFoundedOn(R, Nat)
  BY NatLessThanWellFounded DEF OpToRel
<1>2. ASSUME Missing # {} PROVE FALSE
  <2>1. PICK x \in Missing : \A y \in Missing : ~ (<<y, x>> \in R)
    <3> HIDE DEF R
    <3> QED
      BY <1>1, <1>2, WFMin
  <2>2. x # 0 /\ x \in Nat /\ x - 1 \in Nat /\ (x - 1) + 1 = x /\ x - 1 < x
    OBVIOUS
  <2>3. <<x - 1, x>> \in R
    BY <2>2
  <2>4. x - 1 \notin Missing
    BY <2>1, <2>3
  <2> QED
    BY <2>2, <2>4
<1> QED
  BY <1>2

\* What the partial sums of a weight are.
Sums(f, weight) ==
    f = [c \in 0 .. MaxCycles |-> IF c = 0 THEN 0 ELSE f[c - 1] + weight[c]]

LEMMA SumsExist ==
    ASSUME NEW weight
    PROVE  \E f : Sums(f, weight)
<1> DEFINE Upto(n, f) == f = [c \in 0 .. n |-> IF c = 0 THEN 0 ELSE f[c - 1] + weight[c]]
           T == {n \in Nat : \E f : Upto(n, f)}
<1>1. 0 \in T
  <2>1. Upto(0, [c \in 0 .. 0 |-> 0])
    OBVIOUS
  <2> QED
    BY <2>1
<1>2. ASSUME NEW n \in T PROVE n + 1 \in T
  <2>1. PICK f : Upto(n, f)
    OBVIOUS
  <2> DEFINE g == [c \in 0 .. n + 1 |-> IF c = n + 1 THEN f[n] + weight[c] ELSE f[c]]
  <2>2. ASSUME NEW c \in 0 .. n + 1
        PROVE  g[c] = IF c = 0 THEN 0 ELSE g[c - 1] + weight[c]
    <3>1. CASE c = 0
      BY <2>1, <3>1
    <3>2. CASE c = n + 1
      BY <3>2
    <3>3. CASE c \in 1 .. n
      <4>1. f[c] = f[c - 1] + weight[c]
        BY <2>1, <3>3
      <4>2. g[c] = f[c] /\ g[c - 1] = f[c - 1] /\ c # 0
        BY <3>3
      <4> QED
        BY <4>1, <4>2
    <3> QED
      BY <3>1, <3>2, <3>3
  <2>3. Upto(n + 1, g)
    <3> DEFINE h == [c \in 0 .. n + 1 |-> IF c = 0 THEN 0 ELSE g[c - 1] + weight[c]]
    <3>1. \A c \in 0 .. n + 1 : g[c] = h[c]
      BY <2>2
    <3>2. DOMAIN g = 0 .. n + 1 /\ DOMAIN h = 0 .. n + 1
      OBVIOUS
    <3> QED
      BY <3>1, <3>2
  <2> HIDE DEF g
  <2>4. \E h : Upto(n + 1, h)
    BY <2>3
  <2> QED
    BY <2>4
<1>3. MaxCycles \in T
  <2> HIDE DEF T
  <2>1. T \in SUBSET Nat
    BY DEF T
  <2> QED
    BY <1>1, <1>2, <2>1, Induction, BoundsAssumption
<1> QED
  BY <1>3 DEF Sums

\* The partial sums of weights that are naturals, and which of them is the sum.
LEMMA SumsOf ==
    ASSUME NEW weight \in [Cycles -> Nat]
    PROVE  \E f \in [0 .. MaxCycles -> Nat] :
              /\ SumOfCycles(weight) = f[MaxCycles]
              /\ f[0] = 0
              /\ \A c \in Cycles : f[c] = f[c - 1] + weight[c]
<1> DEFINE f == CHOOSE g : Sums(g, weight)
           T == {n \in Nat : n <= MaxCycles => f[n] \in Nat}
<1>1. SumOfCycles(weight) = f[MaxCycles]
  BY DEF SumOfCycles, Sums
<1>2. Sums(f, weight)
  BY SumsExist
<1> HIDE DEF f
<1>3. /\ DOMAIN f = 0 .. MaxCycles
      /\ \A c \in 0 .. MaxCycles : f[c] = IF c = 0 THEN 0 ELSE f[c - 1] + weight[c]
  BY <1>2 DEF Sums
<1>4. f[0] = 0 /\ \A c \in Cycles : f[c] = f[c - 1] + weight[c]
  BY <1>3, BoundsAssumption DEF Cycles
<1>5. 0 \in T
  BY <1>4
<1>6. ASSUME NEW n \in T PROVE n + 1 \in T
  <2> SUFFICES ASSUME n + 1 <= MaxCycles PROVE f[n + 1] \in Nat
    OBVIOUS
  <2>1. n + 1 \in Cycles /\ f[n] \in Nat /\ (n + 1) - 1 = n
    BY BoundsAssumption DEF Cycles
  <2> QED
    BY <1>4, <2>1
<1>7. T = Nat
  <2> HIDE DEF T
  <2>1. T \in SUBSET Nat
    BY DEF T
  <2> QED
    BY <1>5, <1>6, <2>1, Induction
<1>8. f \in [0 .. MaxCycles -> Nat]
  <2>1. f = [c \in 0 .. MaxCycles |-> f[c]]
    BY <1>2, <1>3 DEF Sums
  <2>2. ASSUME NEW c \in 0 .. MaxCycles PROVE f[c] \in Nat
    <3>1. c \in T
      <4> HIDE DEF T
      <4> QED
        BY <1>7
    <3> QED
      BY <3>1, BoundsAssumption
  <2> QED
    BY <2>1, <2>2
<1> QED
  BY <1>1, <1>4, <1>8

LEMMA SumIsNatural ==
    ASSUME NEW weight \in [Cycles -> Nat]
    PROVE  SumOfCycles(weight) \in Nat
<1>1. PICK f \in [0 .. MaxCycles -> Nat] : SumOfCycles(weight) = f[MaxCycles]
  BY SumsOf
<1> QED
  BY <1>1, BoundsAssumption

\* A sum grows by what one of its terms does.
LEMMA SumGrows ==
    ASSUME NEW weight \in [Cycles -> Nat], NEW d \in Cycles, NEW more \in Nat,
           weight[d] = 0
    PROVE  SumOfCycles([weight EXCEPT ![d] = more]) = SumOfCycles(weight) + more
<1> DEFINE heavier == [weight EXCEPT ![d] = more]
<1>1. heavier \in [Cycles -> Nat]
  OBVIOUS
<1>2. PICK f \in [0 .. MaxCycles -> Nat] :
         /\ SumOfCycles(weight) = f[MaxCycles] /\ f[0] = 0
         /\ \A c \in Cycles : f[c] = f[c - 1] + weight[c]
  BY SumsOf
<1>3. PICK g \in [0 .. MaxCycles -> Nat] :
         /\ SumOfCycles(heavier) = g[MaxCycles] /\ g[0] = 0
         /\ \A c \in Cycles : g[c] = g[c - 1] + heavier[c]
  <2> HIDE DEF heavier
  <2> QED
    BY <1>1, SumsOf
<1> DEFINE T == {n \in Nat : n <= MaxCycles =>
                    g[n] = IF n < d THEN f[n] ELSE f[n] + more}
<1>4. 0 \in T
  BY <1>2, <1>3 DEF Cycles
<1>5. ASSUME NEW n \in T PROVE n + 1 \in T
  <2> SUFFICES ASSUME n + 1 <= MaxCycles
               PROVE  g[n + 1] = IF n + 1 < d THEN f[n + 1] ELSE f[n + 1] + more
    OBVIOUS
  <2>1. /\ n + 1 \in Cycles /\ (n + 1) - 1 = n /\ n \in 0 .. MaxCycles
        /\ g[n] = IF n < d THEN f[n] ELSE f[n] + more
    BY BoundsAssumption DEF Cycles
  <2>2. f[n + 1] = f[n] + weight[n + 1] /\ g[n + 1] = g[n] + heavier[n + 1]
    BY <1>2, <1>3, <2>1
  <2>3. f[n] \in Nat /\ weight[n + 1] \in Nat /\ d \in Nat
    BY <2>1 DEF Cycles
  <2>4. heavier[n + 1] = IF n + 1 = d THEN more ELSE weight[n + 1]
    BY <2>1
  <2> HIDE DEF heavier
  <2>5. CASE n + 1 = d
    BY <2>1, <2>2, <2>3, <2>4, <2>5
  <2>6. CASE n + 1 # d
    BY <2>1, <2>2, <2>3, <2>4, <2>6
  <2> QED
    BY <2>5, <2>6
<1>6. T = Nat
  <2> HIDE DEF T
  <2>1. T \in SUBSET Nat
    BY DEF T
  <2> QED
    BY <1>4, <1>5, <2>1, Induction
<1>7. MaxCycles \in T
  <2> HIDE DEF T
  <2> QED
    BY <1>6, BoundsAssumption
<1>8. MaxCycles \in Nat /\ ~(MaxCycles < d)
  BY BoundsAssumption DEF Cycles
<1> QED
  BY <1>2, <1>3, <1>7, <1>8

(***************************************************************************)
(* The inductive invariant.                                                *)
(***************************************************************************)
\* Two accounts with one address would be refunded for the same shortfall.
OwnAddresses == \A a, b \in Accounts : AddressOf[a] = AddressOf[b] => a = b

\* A claim the faucet has yet to settle belongs to a call in progress, or to
\* one that a crash has cut short; such a call does nothing more.
Claimed ==
    \A c \in Cycles, a \in Accounts :
        /\ <<c, a>> \in lost => step[c][a] = "done"
        /\ payout[c][a] = "committed" => step[c][a] = "funding" \/ <<c, a>> \in lost

\* What may still be paid fits under the target: for a call in progress its
\* amount, for one that was cut short nothing but what is late.
Within ==
    \A c \in Cycles, a \in Accounts : Unsettled(c, a) =>
        /\ step[c][a] = "funding" =>
              balance[AddressOf[a]] + amount[c][a] <= Target[a] + LatePayouts(a)
        /\ <<c, a>> \in lost => balance[AddressOf[a]] <= Target[a] + LatePayouts(a)

BInv == TypeOK /\ TInv /\ Unanswered /\ Claimed /\ Within

\* No payout goes over the target, for a step.
OnTarget ==
    \A a \in Accounts :
        balance'[AddressOf[a]] > balance[AddressOf[a]]
          => balance'[AddressOf[a]] <= Target[a] + LatePayouts(a)'

LEMMA BInvInit == Init => Claimed /\ Within
  BY DEF Init, Claimed, Within

\* Which payouts are late, and how much each of them is.
Late(a) == [c \in Cycles |->
    IF <<c, a>> \in lost /\ payout[c][a] = "paid" THEN amount[c][a] ELSE 0]

LEMMA LateTypes ==
    ASSUME TypeOK, NEW a \in Accounts
    PROVE  /\ Late(a) \in [Cycles -> Nat]
           /\ LatePayouts(a) = SumOfCycles(Late(a)) /\ LatePayouts(a) \in Nat
           /\ AddressOf[a] \in Addresses /\ balance[AddressOf[a]] \in Nat
           /\ Target[a] \in Nat
<1>1. Late(a) \in [Cycles -> Nat]
  BY DEF TypeOK, Late
<1>2. LatePayouts(a) = SumOfCycles(Late(a))
  BY DEF LatePayouts, Late
<1>3. LatePayouts(a) \in Nat
  BY <1>1, <1>2, SumIsNatural
<1> QED
  BY <1>1, <1>2, <1>3, AccountsAssumption DEF TypeOK

\* A step that neither pays a lost claim nor changes its amount.
LEMMA LateStays ==
    ASSUME NEW a \in Accounts,
           \A c \in Cycles :
              /\ (<<c, a>> \in lost' /\ payout'[c][a] = "paid")
                    <=> (<<c, a>> \in lost /\ payout[c][a] = "paid")
              /\ <<c, a>> \in lost => amount'[c][a] = amount[c][a]
    PROVE  LatePayouts(a)' = LatePayouts(a)
<1>1. Late(a)' = Late(a)
  BY DEF Late
<1>2. LatePayouts(a) = SumOfCycles(Late(a))
  BY DEF LatePayouts, Late
<1>3. LatePayouts(a)' = SumOfCycles(Late(a)')
  BY DEF LatePayouts, Late, SumOfCycles
<1> QED
  BY <1>1, <1>2, <1>3

\* The calls in progress of an account are of one cycle.
LEMMA OneCallPerAccount ==
    ASSUME BInv, NEW c \in Cycles, NEW d \in Cycles, NEW a \in Accounts,
           NEW b \in Accounts,
           step[c][a] \in {"collecting", "funding"},
           step[d][b] \in {"collecting", "funding"}
    PROVE  c = d
  BY DEF BInv, Unanswered, TInv, OnlyLastAlive

(***************************************************************************)
(* The steps.                                                              *)
(***************************************************************************)
\* What a step has to do for the invariant, beside what RefundCycleProofs
\* says of it.
Keeps == Claimed' /\ Within' /\ OnTarget

\* A step that pays nothing, starts no call and cuts none short.
LEMMA QuietSteps ==
    ASSUME BInv, TypeOK', UNCHANGED <<amount, lost>>,
           \A x \in Addresses : balance'[x] <= balance[x],
           \A c \in Cycles, a \in Accounts :
              /\ step'[c][a] = "funding" => step[c][a] = "funding"
              /\ step[c][a] = "done" => step'[c][a] = "done"
              /\ \/ /\ payout'[c][a] = payout[c][a]
                    /\ payout[c][a] = "committed" /\ step[c][a] = "funding"
                         => step'[c][a] = "funding"
                 \/ /\ payout[c][a] = "none" /\ payout'[c][a] = "committed"
                    /\ step'[c][a] = "funding" \/ <<c, a>> \in lost
                 \/ payout[c][a] = "committed" /\ payout'[c][a] = "refused"
    PROVE  Keeps
<1>1. \A a \in Accounts : LatePayouts(a)' = LatePayouts(a)
  BY LateStays
<1>2. Claimed'
  <2>1. Claimed
    BY DEF BInv
  <2> SUFFICES ASSUME NEW c \in Cycles, NEW a \in Accounts
               PROVE  /\ <<c, a>> \in lost => step'[c][a] = "done"
                      /\ payout'[c][a] = "committed" =>
                            step'[c][a] = "funding" \/ <<c, a>> \in lost
    BY DEF Claimed
  <2> QED
    BY <2>1 DEF Claimed
<1>3. Within'
  <2> SUFFICES ASSUME NEW c \in Cycles, NEW a \in Accounts, Unsettled(c, a)'
               PROVE  /\ step'[c][a] = "funding" =>
                            balance'[AddressOf[a]] + amount'[c][a]
                               <= Target[a] + LatePayouts(a)'
                      /\ <<c, a>> \in lost' =>
                            balance'[AddressOf[a]] <= Target[a] + LatePayouts(a)'
    BY DEF Within
  <2>1. Unsettled(c, a)
    BY DEF Unsettled
  <2>2. balance'[AddressOf[a]] <= balance[AddressOf[a]] /\ AddressOf[a] \in Addresses
    BY AccountsAssumption
  <2>3. /\ LatePayouts(a)' = LatePayouts(a) /\ LatePayouts(a) \in Nat
        /\ balance[AddressOf[a]] \in Nat /\ balance'[AddressOf[a]] \in Nat
        /\ Target[a] \in Nat /\ amount[c][a] \in Nat /\ amount'[c][a] = amount[c][a]
    BY <1>1, <2>2, LateTypes DEF BInv, TypeOK
  <2>4. step'[c][a] = "funding" => balance[AddressOf[a]] + amount[c][a]
                                      <= Target[a] + LatePayouts(a)
    BY <2>1 DEF BInv, Within
  <2>5. <<c, a>> \in lost => balance[AddressOf[a]] <= Target[a] + LatePayouts(a)
    BY <2>1 DEF BInv, Within
  <2> QED
    BY <2>2, <2>3, <2>4, <2>5
<1>4. OnTarget
  <2> SUFFICES ASSUME NEW a \in Accounts, balance'[AddressOf[a]] > balance[AddressOf[a]]
               PROVE  FALSE
    BY DEF OnTarget
  <2>1. AddressOf[a] \in Addresses
    BY AccountsAssumption
  <2>2. balance[AddressOf[a]] \in Nat /\ balance'[AddressOf[a]] \in Nat
    BY <2>1 DEF BInv, TypeOK
  <2> QED
    BY <2>1, <2>2
<1> QED
  BY <1>2, <1>3, <1>4 DEF Keeps

\* Those that leave the calls alone.
LEMMA UntouchedKeeps ==
    ASSUME BInv, TypeOK',
           \/ UNCHANGED vars \/ TimePasses \/ Fire
           \/ \E x \in Addresses : Withdraw(x)
           \/ \E c \in Cycles : StartCycle(c) \/ EndCycle(c)
    PROVE  Keeps
<1>1. UNCHANGED <<step, amount, payout, lost>>
  BY DEF vars, TimePasses, Fire, Withdraw, StartCycle, EndCycle, taskVars, crashVars
<1>2. ASSUME NEW y \in Addresses PROVE balance'[y] <= balance[y]
  <2>1. balance[y] \in Nat
    BY DEF BInv, TypeOK
  <2>2. CASE UNCHANGED balance
    BY <2>1, <2>2
  <2>3. ASSUME NEW x \in Addresses, Withdraw(x) PROVE balance'[y] <= balance[y]
    BY <2>1, <2>3 DEF Withdraw, BInv, TypeOK
  <2> QED
    BY <2>2, <2>3 DEF vars, TimePasses, Fire, StartCycle, EndCycle, chainVars
<1> QED
  BY <1>1, <1>2, QuietSteps

\* Those of a call that neither start it nor pay it.
LEMMA CallStepsKeep ==
    ASSUME BInv, TypeOK', PromptFaucet, NEW c \in Cycles, NEW a \in Accounts,
           \/ PickUp(c, a) \/ CollectFails(c, a) \/ SendEvent(c, a)
           \/ FundReturns(c, a) \/ Commit(c, a)
    PROVE  Keeps
<1>1. UNCHANGED <<balance, amount, lost>>
  BY DEF PickUp, CollectFails, SendEvent, FundReturns, Commit, chainVars, crashVars
<1>2. \A x \in Addresses : balance'[x] <= balance[x]
  BY <1>1 DEF BInv, TypeOK
<1>3. CASE PickUp(c, a) \/ CollectFails(c, a) \/ SendEvent(c, a) \/ FundReturns(c, a)
  <2>1. PICK place \in {"collecting", "reporting", "done"} :
           step' = [step EXCEPT ![c][a] = place]
    BY <1>3 DEF PickUp, CollectFails, SendEvent, FundReturns, Goto
  <2>2. UNCHANGED payout /\ step[c][a] # "done"
        /\ (step[c][a] = "funding" => payout[c][a] # "committed")
    BY <1>3 DEF PickUp, CollectFails, SendEvent, FundReturns
  <2> QED
    BY <1>1, <1>2, <2>1, <2>2, QuietSteps DEF BInv, TypeOK
<1>4. CASE Commit(c, a)
  BY <1>1, <1>2, <1>4, QuietSteps DEF Commit, BInv, TypeOK
<1> QED
  BY <1>3, <1>4

\* A call starts from the balance as it is: what it asks for fits.
LEMMA ExamineKeeps ==
    ASSUME BInv, TypeOK', NEW c \in Cycles, NEW a \in Accounts, Examine(c, a)
    PROVE  Keeps
<1>1. step[c][a] = "collecting" /\ UNCHANGED <<balance, payout, lost>>
  BY DEF Examine, chainVars, crashVars
<1>2. <<c, a>> \notin lost
  BY <1>1 DEF BInv, Claimed
<1>3. CASE UNCHANGED amount /\ step' = [step EXCEPT ![c][a] = "done"]
  BY <1>1, <1>3, QuietSteps DEF BInv, TypeOK
<1>4. CASE /\ amount' = [amount EXCEPT ![c][a] = Target[a] - balance[AddressOf[a]]]
           /\ step' = [step EXCEPT ![c][a] = "funding"]
  <2>1. \A d \in Cycles, b \in Accounts :
           <<d, b>> # <<c, a>> => /\ step'[d][b] = step[d][b]
                                  /\ amount'[d][b] = amount[d][b]
    BY <1>4 DEF BInv, TypeOK
  <2>2. \A b \in Accounts : LatePayouts(b)' = LatePayouts(b)
    <3> SUFFICES ASSUME NEW b \in Accounts
                 PROVE  LatePayouts(b)' = LatePayouts(b)
      OBVIOUS
    <3>1. \A d \in Cycles : <<d, b>> \in lost => amount'[d][b] = amount[d][b]
      BY <1>2, <2>1
    <3> QED
      BY <1>1, <3>1, LateStays
  <2>3. Claimed'
    <3>1. Claimed
      BY DEF BInv
    <3> SUFFICES ASSUME NEW d \in Cycles, NEW b \in Accounts
                 PROVE  /\ <<d, b>> \in lost => step'[d][b] = "done"
                        /\ payout[d][b] = "committed" =>
                              step'[d][b] = "funding" \/ <<d, b>> \in lost
      BY <1>1 DEF Claimed
    <3> QED
      BY <1>1, <1>2, <2>1, <3>1 DEF Claimed
  <2>4. Within'
    <3> SUFFICES ASSUME NEW d \in Cycles, NEW b \in Accounts, Unsettled(d, b)
                 PROVE  /\ step'[d][b] = "funding" =>
                              balance[AddressOf[b]] + amount'[d][b]
                                 <= Target[b] + LatePayouts(b)
                        /\ <<d, b>> \in lost =>
                              balance[AddressOf[b]] <= Target[b] + LatePayouts(b)
      BY <1>1, <2>2 DEF Within, Unsettled
    <3>1. CASE <<d, b>> # <<c, a>>
      BY <2>1, <3>1 DEF BInv, Within
    <3>2. CASE d = c /\ b = a
      <4>1. amount'[c][a] = Target[a] - balance[AddressOf[a]]
        BY <1>4 DEF BInv, TypeOK
      <4>2. /\ balance[AddressOf[a]] \in Nat /\ Target[a] \in Nat
            /\ LatePayouts(a) \in Nat
        BY LateTypes DEF BInv
      <4> QED
        BY <1>2, <3>2, <4>1, <4>2
    <3> QED
      BY <3>1, <3>2
  <2>5. OnTarget
    <3> SUFFICES ASSUME NEW b \in Accounts,
                        balance'[AddressOf[b]] > balance[AddressOf[b]]
                 PROVE  FALSE
      BY DEF OnTarget
    <3>1. balance[AddressOf[b]] \in Nat
      BY LateTypes DEF BInv
    <3> QED
      BY <1>1, <3>1
  <2> QED
    BY <2>3, <2>4, <2>5 DEF Keeps
<1> QED
  BY <1>3, <1>4 DEF Examine, Goto

\* A crash makes no call late that the faucet has settled.
LEMMA CrashKeeps ==
    ASSUME BInv, TypeOK', Crash
    PROVE  Keeps
<1>1. UNCHANGED <<balance, amount, payout>>
  BY DEF Crash, chainVars
<1>2. ASSUME NEW c \in Cycles, NEW a \in Accounts
      PROVE  /\ step'[c][a] = "funding" => step[c][a] = "funding"
             /\ step[c][a] \in {"funding", "done"} => step'[c][a] = "done"
             /\ <<c, a>> \in lost' <=>
                   \/ <<c, a>> \in lost
                   \/ step[c][a] = "funding" /\ Unsettled(c, a)
  <2>1. step'[c][a] = IF c \in Alive THEN "done" ELSE step[c][a]
    BY DEF Crash
  <2>2. step[c][a] = "funding" => c \in Alive
    BY DEF BInv, Unanswered, Alive
  <2> QED
    BY <2>1, <2>2 DEF Crash
<1>3. ASSUME NEW a \in Accounts PROVE LatePayouts(a)' = LatePayouts(a)
  BY <1>1, <1>2, LateStays DEF Unsettled
<1>4. Claimed'
  BY <1>1, <1>2 DEF BInv, Claimed, Unsettled
<1>5. Within'
  <2> SUFFICES ASSUME NEW c \in Cycles, NEW a \in Accounts, Unsettled(c, a),
                      <<c, a>> \in lost'
               PROVE  balance[AddressOf[a]] <= Target[a] + LatePayouts(a)
    <3>1. \A c \in Cycles, a \in Accounts : step'[c][a] # "funding"
      BY <1>2
    <3> QED
      BY <1>1, <1>3, <3>1 DEF Within, Unsettled
  <2>1. CASE <<c, a>> \in lost
    BY <2>1 DEF BInv, Within
  <2>2. CASE step[c][a] = "funding"
    <3>1. balance[AddressOf[a]] + amount[c][a] <= Target[a] + LatePayouts(a)
      BY <2>2 DEF BInv, Within
    <3>2. /\ balance[AddressOf[a]] \in Nat /\ Target[a] \in Nat
          /\ LatePayouts(a) \in Nat /\ amount[c][a] \in Nat
      BY LateTypes DEF BInv, TypeOK
    <3> QED
      BY <3>1, <3>2
  <2> QED
    BY <1>2, <2>1, <2>2
<1>6. OnTarget
  <2> SUFFICES ASSUME NEW a \in Accounts,
                      balance'[AddressOf[a]] > balance[AddressOf[a]]
               PROVE  FALSE
    BY DEF OnTarget
  <2>1. balance[AddressOf[a]] \in Nat
    BY LateTypes DEF BInv
  <2> QED
    BY <1>1, <2>1
<1> QED
  BY <1>4, <1>5, <1>6 DEF Keeps

\* A payout makes of what a call in progress asked for a balance, or of what a
\* call that was cut short asked for a late payout: for the other calls of the
\* account there is as much room as before.
LEMMA PayoutKeeps ==
    ASSUME BInv, TypeOK', OwnAddresses, NEW c \in Cycles, NEW a \in Accounts,
           payout[c][a] = "committed", payout' = [payout EXCEPT ![c][a] = "paid"],
           balance' = [balance EXCEPT ![AddressOf[a]] = @ + amount[c][a]],
           UNCHANGED <<step, amount, lost>>
    PROVE  Keeps
<1> DEFINE room(b) == Target[b] + LatePayouts(b)
           pay == amount[c][a]
<1>1. /\ pay \in Nat /\ payout'[c][a] = "paid"
      /\ \A d \in Cycles, b \in Accounts :
            <<d, b>> # <<c, a>> => payout'[d][b] = payout[d][b]
      /\ step[c][a] = "funding" \/ <<c, a>> \in lost
      /\ <<c, a>> \in lost => step[c][a] = "done"
  BY DEF BInv, TypeOK, Claimed
<1>2. ASSUME NEW b \in Accounts
      PROVE  /\ balance[AddressOf[b]] \in Nat /\ room(b) \in Nat /\ Target[b] \in Nat
             /\ LatePayouts(b) \in Nat
             /\ balance'[AddressOf[b]] = IF b = a THEN balance[AddressOf[a]] + pay
                                         ELSE balance[AddressOf[b]]
  <2>1. /\ AddressOf[a] \in Addresses /\ AddressOf[b] \in Addresses
        /\ AddressOf[b] = AddressOf[a] <=> b = a
    BY AccountsAssumption DEF OwnAddresses
  <2>2. balance'[AddressOf[b]] = IF AddressOf[b] = AddressOf[a]
                                    THEN balance[AddressOf[a]] + pay
                                    ELSE balance[AddressOf[b]]
    BY <2>1 DEF BInv, TypeOK
  <2> QED
    BY <2>1, <2>2, LateTypes DEF BInv
<1>3. ASSUME NEW b \in Accounts, b # a \/ <<c, a>> \notin lost
      PROVE  LatePayouts(b)' = LatePayouts(b)
  <2>1. \A d \in Cycles : <<d, b>> \in lost =>
             (payout'[d][b] = "paid" <=> payout[d][b] = "paid")
    BY <1>1, <1>3
  <2> QED
    BY <2>1, LateStays
<1>4. ASSUME <<c, a>> \in lost PROVE LatePayouts(a)' = LatePayouts(a) + pay
  <2>1. Late(a) \in [Cycles -> Nat] /\ LatePayouts(a) = SumOfCycles(Late(a))
    BY LateTypes DEF BInv
  <2>2. Late(a)[c] = 0
    BY DEF Late
  <2>3. Late(a)' = [Late(a) EXCEPT ![c] = pay]
    <3>1. ASSUME NEW d \in Cycles
          PROVE  (IF <<d, a>> \in lost /\ payout'[d][a] = "paid"
                    THEN amount[d][a] ELSE 0)
                  = IF d = c THEN pay
                    ELSE IF <<d, a>> \in lost /\ payout[d][a] = "paid"
                            THEN amount[d][a] ELSE 0
      BY <1>1, <1>4
    <3> QED
      BY <3>1 DEF Late
  <2>4. SumOfCycles([Late(a) EXCEPT ![c] = pay]) = SumOfCycles(Late(a)) + pay
    BY <1>1, <2>1, <2>2, SumGrows
  <2>5. LatePayouts(a)' = SumOfCycles(Late(a)')
    BY DEF LatePayouts, Late, SumOfCycles
  <2> QED
    BY <2>1, <2>3, <2>4, <2>5
<1> DEFINE roomThen(b) == Target[b] + LatePayouts(b)'
<1>5. balance'[AddressOf[a]] <= roomThen(a)
  <2>1. CASE step[c][a] = "funding"
    <3>1. balance[AddressOf[a]] + pay <= room(a)
      BY <2>1 DEF BInv, Within, Unsettled
    <3>2. roomThen(a) = room(a)
      BY <1>1, <1>3, <2>1
    <3> QED
      BY <1>2, <3>1, <3>2
  <2>2. CASE <<c, a>> \in lost
    <3>1. balance[AddressOf[a]] <= room(a)
      BY <2>2 DEF BInv, Within, Unsettled
    <3> QED
      BY <1>1, <1>2, <1>4, <2>2, <3>1
  <2> QED
    BY <1>1, <2>1, <2>2
<1>6. ASSUME NEW d \in Cycles, NEW b \in Accounts, <<d, b>> # <<c, a>>, Unsettled(d, b)
      PROVE  /\ step[d][b] = "funding" =>
                   balance'[AddressOf[b]] + amount[d][b] <= roomThen(b)
             /\ <<d, b>> \in lost => balance'[AddressOf[b]] <= roomThen(b)
  <2>1. /\ step[d][b] = "funding" => balance[AddressOf[b]] + amount[d][b] <= room(b)
        /\ <<d, b>> \in lost => balance[AddressOf[b]] <= room(b)
    BY <1>6 DEF BInv, Within
  <2>2. CASE b # a
    BY <1>2, <1>3, <2>1, <2>2
  <2>3. CASE b = a /\ step[d][b] = "funding"
    <3>1. <<c, a>> \in lost
      BY <1>1, <1>6, <2>3, OneCallPerAccount
    <3>2. amount[d][a] \in Nat
      BY DEF BInv, TypeOK
    <3>3. <<d, b>> \notin lost
      BY <2>3 DEF BInv, Claimed
    <3> QED
      BY <1>1, <1>2, <1>4, <2>1, <2>3, <3>1, <3>2, <3>3
  <2> QED
    BY <1>5, <2>2, <2>3
<1>7. Claimed'
  <2>1. Claimed
    BY DEF BInv
  <2> SUFFICES ASSUME NEW d \in Cycles, NEW b \in Accounts
               PROVE  /\ <<d, b>> \in lost => step[d][b] = "done"
                      /\ payout'[d][b] = "committed" =>
                            step[d][b] = "funding" \/ <<d, b>> \in lost
    BY DEF Claimed
  <2> QED
    BY <1>1, <2>1 DEF Claimed
<1>8. Within'
  <2> SUFFICES ASSUME NEW d \in Cycles, NEW b \in Accounts, Unsettled(d, b)'
               PROVE  /\ step[d][b] = "funding" =>
                            balance'[AddressOf[b]] + amount[d][b] <= roomThen(b)
                      /\ <<d, b>> \in lost => balance'[AddressOf[b]] <= roomThen(b)
    BY DEF Within
  <2>1. <<d, b>> # <<c, a>> /\ Unsettled(d, b)
    BY <1>1 DEF Unsettled
  <2> QED
    BY <1>6, <2>1
<1>9. OnTarget
  <2> SUFFICES ASSUME NEW b \in Accounts,
                      balance'[AddressOf[b]] > balance[AddressOf[b]]
               PROVE  b = a
    BY <1>5 DEF OnTarget
  <2> QED
    BY <1>2
<1> QED
  BY <1>7, <1>8, <1>9 DEF Keeps

LEMMA SettleKeeps ==
    ASSUME BInv, TypeOK', OwnAddresses, NEW c \in Cycles, NEW a \in Accounts,
           Settle(c, a)
    PROVE  Keeps
<1>1. payout[c][a] = "committed" /\ UNCHANGED <<step, amount, lost>>
  BY DEF Settle, crashVars
<1>2. CASE /\ payout' = [payout EXCEPT ![c][a] = "paid"]
           /\ balance' = [balance EXCEPT ![AddressOf[a]] = @ + amount[c][a]]
  BY <1>1, <1>2, PayoutKeeps
<1>3. CASE payout' = [payout EXCEPT ![c][a] = "refused"] /\ UNCHANGED balance
  <2>1. \A x \in Addresses : balance'[x] <= balance[x]
    BY <1>3 DEF BInv, TypeOK
  <2> QED
    BY <1>1, <1>3, <2>1, QuietSteps DEF BInv, TypeOK
<1> QED
  BY <1>2, <1>3 DEF Settle

LEMMA BInvNext ==
    RoomForMargin /\ PromptFaucet /\ OwnAddresses /\ BInv /\ [Next]_vars
        => BInv' /\ OnTarget
<1> SUFFICES ASSUME RoomForMargin, PromptFaucet, OwnAddresses, BInv, [Next]_vars
             PROVE  BInv' /\ OnTarget
  OBVIOUS
<1>1. TypeOK' /\ TInv' /\ Unanswered'
  BY TypeNext, TInvNext, CallsNext DEF BInv
<1>2. Keeps
  BY <1>1, UntouchedKeeps, CallStepsKeep, ExamineKeeps, CrashKeeps, SettleKeeps
     DEF Next, CycleStep, Faucet
<1> QED
  BY <1>1, <1>2 DEF Keeps, BInv

\* A refund takes no account past its target, beyond what claims of calls that
\* crashes cut short have paid it since, although each cycle computes its
\* amounts from balances that move: if the schedule has room for the margin
\* that keeps cycles apart, the faucet is done with a claim when the call
\* returns, and no two accounts of the node have one address.
THEOREM RefundsStayWithinTarget ==
    ASSUME RoomForMargin, PromptFaucet, OwnAddresses
    PROVE  Spec => NeverOverTarget
<1>1. Init => BInv
  BY TypeInit, TInvInit, UnansweredInit, BInvInit DEF BInv
<1>2. BInv /\ [Next]_vars => BInv' /\ [OnTarget]_vars
  BY BInvNext
<1>3. Spec => [][OnTarget]_vars
  BY <1>1, <1>2, PTL DEF Spec
<1> QED
  BY <1>3 DEF NeverOverTarget, OnTarget
=============================================================================
