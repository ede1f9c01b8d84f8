-------------------------- MODULE CollectorProofs --------------------------
(***************************************************************************)
(* The counter of failed scrapes and what a scrape reports, for any number *)
(* of accounts, workers and concurrent scrapes.                            *)
(***************************************************************************)
EXTENDS Collector, FiniteSetTheorems, TLAPS

\* Half of the accounts, rounded up, is half of them or more.
LEMMA HalfRoundedUp ==
    ASSUME NEW failed \in Nat, NEW accounts \in Nat
    PROVE  failed >= (accounts + 1) \div 2 <=> 2 * failed >= accounts
  OBVIOUS

LEMMA AccountsCounted == Cardinality(Accounts) \in Nat
  BY CollectorAssumption, FS_CardinalityType

Reading == [account : Accounts, healthy : BOOLEAN]

\* What the counter depends on.
Counted == /\ pc \in [Scrapers -> Places]
           /\ results \in [Scrapers -> Seq(Reading)]
           /\ scrapesFailed \in Nat

LEMMA FailuresAreCounted ==
    ASSUME Counted, NEW s \in Scrapers
    PROVE  Failed(s) \in Nat
  <1>1. IsFiniteSet(DOMAIN results[s])
    <2>1. results[s] \in Seq(Reading)
      BY DEF Counted
    <2>2. Len(results[s]) \in Nat /\ DOMAIN results[s] = 1 .. Len(results[s])
      BY <2>1
    <2>3. IsFiniteSet(1 .. Len(results[s]))
      BY <2>2, FS_Interval
    <2> QED
      BY <2>2, <2>3
  <1>2. IsFiniteSet({i \in DOMAIN results[s] : ~results[s][i].healthy})
    BY <1>1, FS_Subset
  <1> QED
    BY <1>2, FS_CardinalityType DEF Failed

LEMMA CountedInit == Init => Counted
  BY DEF Init, Counted, Places

\* A step of one scrape leaves the others where they are, and only
\* CountFailures leaves "count" and touches the counter.
LEMMA StepCounts ==
    ASSUME Counted, NEW s \in Scrapers, BeginScrape(s) \/ ScrapeStep(s)
    PROVE  /\ Counted'
           /\ \A t \in Scrapers : pc[t] = "count" /\ pc'[t] # "count" =>
                 t = s /\ CountFailures(s)
  <1> DEFINE Moves == \E place \in Places : pc' = [pc EXCEPT ![s] = place]
  <1> DEFINE Others == \A t \in Scrapers : pc[t] = "count" /\ pc'[t] # "count" =>
                           t = s /\ CountFailures(s)
  <1>1. CASE BeginScrape(s)
    <2>1. pc' = [pc EXCEPT ![s] = "lock"] /\ pc[s] = "idle"
          /\ results' = [results EXCEPT ![s] = <<>>] /\ UNCHANGED scrapesFailed
      BY <1>1 DEF BeginScrape, Goto
    <2>2. results' \in [Scrapers -> Seq(Reading)]
      <3>1. <<>> \in Seq(Reading)
        OBVIOUS
      <3> QED
        BY <2>1, <3>1 DEF Counted
    <2>3. pc' \in [Scrapers -> Places] /\ Others
      BY <2>1 DEF Counted, Places
    <2> QED
      BY <2>1, <2>2, <2>3 DEF Counted
  <1>2. CASE CountFailures(s)
    <2>1. pc' = [pc EXCEPT ![s] = "setHealth"] /\ UNCHANGED results
          /\ scrapesFailed' \in {scrapesFailed, scrapesFailed + 1}
      BY <1>2 DEF CountFailures, Goto
    <2>2. pc' \in [Scrapers -> Places] /\ Others
      BY <1>2, <2>1 DEF Counted, Places
    <2>3. scrapesFailed' \in Nat
      BY <2>1 DEF Counted
    <2> QED
      BY <2>1, <2>2, <2>3 DEF Counted
  <1>3. ASSUME NEW a \in Accounts, PickUp(s, a) \/ SendResult(s, a)
        PROVE  Counted' /\ UNCHANGED pc
    <2>1. UNCHANGED <<pc, scrapesFailed>>
          /\ \/ UNCHANGED results
             \/ \E healthy \in BOOLEAN :
                   results' = [results EXCEPT ![s] = Append(@, Result(a, healthy))]
      BY <1>3 DEF PickUp, SendResult
    <2>2. \A healthy \in BOOLEAN :
             Append(results[s], Result(a, healthy)) \in Seq(Reading)
      <3>1. \A healthy \in BOOLEAN : Result(a, healthy) \in Reading
        BY DEF Result, Reading
      <3>2. results[s] \in Seq(Reading)
        BY DEF Counted
      <3> QED
        BY <3>1, <3>2
    <2>3. results' \in [Scrapers -> Seq(Reading)]
      BY <2>1, <2>2 DEF Counted
    <2> QED
      BY <2>1, <2>3 DEF Counted
  <1>4. CASE \/ Lock(s) \/ Drain(s)
             \/ SetHealth(s) \/ SendHealth(s) \/ ResetHealth(s)
             \/ SetBalance(s) \/ SendBalance(s) \/ ResetBalance(s)
             \/ EndScrape(s)
    <2>1. UNCHANGED <<results, scrapesFailed>> /\ pc[s] # "count" /\ Moves
      BY <1>4 DEF Lock, Drain, SetHealth, SendHealth, ResetHealth, SetBalance,
                  SendBalance, ResetBalance, EndScrape, NextResult, Goto, Places,
                  loopVars
    <2> QED
      BY <2>1 DEF Counted
  <1> QED
    BY <1>1, <1>2, <1>3, <1>4 DEF ScrapeStep

\* The counter of failed scrapes counts those of which at least half of the
\* accounts failed, and no others, for odd numbers of accounts as well.
THEOREM HalfIsCounted == Spec => CounterCountsHalf
  <1> DEFINE Exact == \A s \in Scrapers : pc[s] = "count" /\ pc'[s] # "count" =>
                (scrapesFailed' = scrapesFailed + 1
                   <=> 2 * Failed(s) >= Cardinality(Accounts))
  <1>1. ASSUME Counted, [Next]_vars PROVE Counted' /\ [Exact]_vars
    <2>1. CASE UNCHANGED vars
      BY <1>1, <2>1 DEF vars, Counted
    <2>2. ASSUME NEW s \in Scrapers, BeginScrape(s) \/ ScrapeStep(s)
          PROVE  Counted' /\ Exact
      <3>1. Counted' /\ \A t \in Scrapers : pc[t] = "count" /\ pc'[t] # "count" =>
                           t = s /\ CountFailures(s)
        BY <1>1, <2>2, StepCounts
      <3>2. ASSUME CountFailures(s)
            PROVE  scrapesFailed' = scrapesFailed + 1
                     <=> 2 * Failed(s) >= Cardinality(Accounts)
        <4>1. Failed(s) \in Nat /\ scrapesFailed \in Nat
          BY <1>1, FailuresAreCounted DEF Counted
        <4>2. Failed(s) >= FailureThreshold <=> 2 * Failed(s) >= Cardinality(Accounts)
          BY <4>1, AccountsCounted, HalfRoundedUp DEF FailureThreshold
        <4>3. scrapesFailed' = IF Failed(s) >= FailureThreshold
                               THEN scrapesFailed + 1 ELSE scrapesFailed
          BY <3>2 DEF CountFailures
        <4> QED
          BY <4>1, <4>2, <4>3
      <3> QED
        BY <3>1, <3>2
    <2> QED
      BY <1>1, <2>1, <2>2 DEF Next
  <1> QED
    BY <1>1, CountedInit, PTL DEF Spec, CounterCountsHalf

(***************************************************************************)
(* The inductive invariant of a scrape.  All but the vectors and the mutex *)
(* is about the rows of one scraper, which the others leave alone.         *)
(***************************************************************************)
Inside == Places \ {"idle", "lock"}
Waiting == {"lock", "collect", "count"}
OneResult == {"sendHealth", "resetHealth", "setBalance", "sendBalance", "resetBalance"}

Shapes == /\ Counted
          /\ number \in [Scrapers -> 0 .. MaxScrapes]
          /\ scrapes \in 0 .. MaxScrapes
          /\ holder \in 0 .. MaxScrapes
          /\ work \in [Scrapers -> [Accounts -> {"queued", "busy", "sent"}]]
          /\ next \in [Scrapers -> Nat \ {0}]
          /\ DOMAIN sent = Scrapers
          /\ health \subseteq [account : Accounts, value : {0, 1}]
          /\ metrics \subseteq [account : Accounts, value : 1 .. MaxScrapes]

\* The number of a scrape is its own.
Begun(s) == number[s] <= scrapes /\ (number[s] = 0 => pc[s] = "idle")
Numbered ==
    /\ \A s \in Scrapers : Begun(s)
    /\ \A s, t \in Scrapers : number[s] = number[t] /\ number[s] # 0 => s = t

\* collectMutex.
Mutex == /\ holder <= scrapes
         /\ \A s \in Scrapers :
                pc[s] \in Inside <=> holder # 0 /\ holder = number[s]

\* The results are one of each account that has sent its own.
Answered(s) ==
    LET answers == 1 .. Len(results[s]) IN
    /\ Len(results[s]) <= Cardinality(Accounts)
    /\ \A i \in answers : work[s][results[s][i].account] = "sent"
    /\ \A i, j \in answers :
          results[s][i].account = results[s][j].account => i = j
    /\ \A a \in Accounts :
          work[s][a] = "sent" => \E i \in answers : results[s][i].account = a

\* Where the loop over the results is.
InLoop(s) ==
    /\ next[s] <= Len(results[s]) + 1
    /\ pc[s] \in Waiting \/ number[s] = 0 => next[s] = 1
    /\ pc[s] \notin {"lock", "collect"} /\ number[s] # 0 =>
          \A a \in Accounts : work[s][a] = "sent"
    /\ pc[s] \in OneResult => AtResult(s)
    /\ pc[s] \in {"setBalance", "sendBalance", "resetBalance"} => current(s).healthy
    /\ pc[s] = "idle" /\ number[s] # 0 => next[s] = Len(results[s]) + 1

\* The results that are behind the loop, the one in hand included from the
\* places on that are named.
Behind(s, places) == IF pc[s] \in places THEN 1 .. next[s] ELSE 1 .. next[s] - 1
WithHealth(s) == Behind(s, OneResult \ {"sendHealth"})
WithBalance(s) == {i \in Behind(s, {"resetBalance"}) : results[s][i].healthy}

HealthMetric(s, i) == Metric("health", HealthGauge(results[s][i]))
BalanceMetric(s, i) == Metric("balance", BalanceGauge(s, results[s][i]))

\* What has been sent is one metric of each kind for these.
Reported(s) ==
    sent[s] = SetToBag({HealthMetric(s, i) : i \in WithHealth(s)}
                       \union {BalanceMetric(s, i) : i \in WithBalance(s)})

\* The vectors hold the gauge of the result in hand, and are else empty.
Vectors ==
    /\ \A s \in Scrapers : pc[s] \in {"sendHealth", "resetHealth"} =>
          health = {HealthGauge(current(s))}
    /\ (\A s \in Scrapers : pc[s] \notin {"sendHealth", "resetHealth"}) => health = {}
    /\ \A s \in Scrapers : pc[s] \in {"sendBalance", "resetBalance"} =>
          metrics = {BalanceGauge(s, current(s))}
    /\ (\A s \in Scrapers : pc[s] \notin {"sendBalance", "resetBalance"}) => metrics = {}

\* A scrape that has yet to be counted has not failed so far.
Uncounted == {number[s] : s \in {t \in Scrapers : pc[t] \in Waiting}}
FailedOnce == scrapesFailed + Cardinality(Uncounted) <= scrapes

OfScrape(s) == Answered(s) /\ InLoop(s) /\ Reported(s)

SInv == /\ Shapes /\ Numbered /\ Mutex /\ Vectors /\ FailedOnce
        /\ \A s \in Scrapers : OfScrape(s)

(***************************************************************************)
(* Bags that are sets.                                                     *)
(***************************************************************************)
LEMMA DisjointBags ==
    ASSUME NEW S, NEW T, S \cap T = {}
    PROVE  SetToBag(S) (+) SetToBag(T) = SetToBag(S \union T)
<1>1. SetToBag(S \union T) = [e \in S \union T |-> 1]
  BY DEF SetToBag
<1>2. DOMAIN SetToBag(S) = S /\ DOMAIN SetToBag(T) = T
  BY DEF SetToBag
<1>3. ASSUME NEW e \in S \union T
      PROVE  (IF e \in S THEN SetToBag(S)[e] ELSE 0)
             + (IF e \in T THEN SetToBag(T)[e] ELSE 0) = 1
  BY DEF SetToBag
<1> QED
  BY <1>1, <1>2, <1>3 DEF (+)

LEMMA NothingSent == EmptyBag = SetToBag({})
  BY DEF EmptyBag

(***************************************************************************)
(* The steps of a scrape, for what is its own.                             *)
(***************************************************************************)
LEMMA RowTypes ==
    ASSUME Shapes, NEW s \in Scrapers
    PROVE  /\ pc[s] \in Places /\ number[s] \in 0 .. MaxScrapes
           /\ results[s] \in Seq(Reading) /\ Len(results[s]) \in Nat
           /\ DOMAIN results[s] = 1 .. Len(results[s])
           /\ \A i \in 1 .. Len(results[s]) : results[s][i] \in Reading
           /\ work[s] \in [Accounts -> {"queued", "busy", "sent"}]
           /\ next[s] \in Nat /\ next[s] > 0
<1>1. results[s] \in Seq(Reading)
  BY DEF Shapes, Counted
<1> QED
  BY <1>1 DEF Shapes, Counted

LEMMA OtherScrape ==
    ASSUME NEW t \in Scrapers, OfScrape(t),
           UNCHANGED <<pc[t], number[t], work[t], results[t], next[t], sent[t]>>
    PROVE  OfScrape(t)'
<1>1. Answered(t)'
  BY DEF OfScrape, Answered
<1>2. InLoop(t)'
  BY DEF OfScrape, InLoop, AtResult, current
<1>3. Reported(t)'
  BY DEF OfScrape, Reported, WithHealth, WithBalance, Behind, HealthMetric,
         BalanceMetric, BalanceGauge
<1> QED
  BY <1>1, <1>2, <1>3 DEF OfScrape

\* A step after which the same results have been reported.
LEMMA SameReport ==
    ASSUME NEW s \in Scrapers, Reported(s),
           UNCHANGED <<results[s], number[s], sent[s]>>,
           WithHealth(s)' = WithHealth(s), WithBalance(s)' = WithBalance(s)
    PROVE  Reported(s)'
  BY DEF Reported, HealthMetric, BalanceMetric, BalanceGauge

LEMMA BeginScrapeOwn ==
    ASSUME Shapes, NEW s \in Scrapers, BeginScrape(s)
    PROVE  OfScrape(s)'
<1>1. /\ pc'[s] = "lock" /\ number'[s] = scrapes + 1 /\ sent'[s] = EmptyBag
      /\ results'[s] = <<>> /\ work'[s] = Nothing /\ next'[s] = 1
  BY DEF BeginScrape, Goto, Shapes, Counted
<1>2. Answered(s)'
  BY <1>1, AccountsCounted DEF Answered, Nothing
<1>3. InLoop(s)'
  <2>1. scrapes + 1 # 0
    BY DEF Shapes
  <2> QED
    BY <1>1, <2>1 DEF InLoop, AtResult, OneResult, Waiting
<1>4. Reported(s)'
  <2>1. WithHealth(s)' = {} /\ WithBalance(s)' = {}
    BY <1>1 DEF WithHealth, WithBalance, Behind, OneResult
  <2>2. ({HealthMetric(s, i) : i \in WithHealth(s)}
           \union {BalanceMetric(s, i) : i \in WithBalance(s)})' = {}
    BY <2>1
  <2> QED
    BY <1>1, <2>2, NothingSent DEF Reported
<1> QED
  BY <1>2, <1>3, <1>4 DEF OfScrape

\* Those that only move on.
LEMMA MovesOwn ==
    ASSUME Shapes, NEW s \in Scrapers, Begun(s), OfScrape(s),
           \/ Lock(s) \/ Drain(s) \/ CountFailures(s) \/ SetHealth(s)
           \/ SetBalance(s) \/ EndScrape(s)
    PROVE  OfScrape(s)'
<1>1. UNCHANGED <<number[s], work[s], results[s], next[s], sent[s]>>
  BY DEF Lock, Drain, CountFailures, SetHealth, SetBalance, EndScrape, loopVars
<1>2. \/ pc[s] = "lock" /\ pc'[s] = "collect"
      \/ /\ pc[s] = "collect" /\ pc'[s] = "count"
         /\ \A a \in Accounts : work[s][a] = "sent"
      \/ pc[s] = "count" /\ pc'[s] = "setHealth"
      \/ pc[s] = "setHealth" /\ AtResult(s) /\ pc'[s] = "sendHealth"
      \/ pc[s] = "setBalance" /\ pc'[s] = "sendBalance"
      \/ pc[s] = "setHealth" /\ ~AtResult(s) /\ pc'[s] = "idle"
  BY DEF Lock, Drain, CountFailures, SetHealth, SetBalance, EndScrape, Goto,
         Shapes, Counted
<1>3. Answered(s)'
  BY <1>1 DEF OfScrape, Answered
<1>4. InLoop(s)'
  <2>1. InLoop(s)
    BY DEF OfScrape
  <2>2. next[s] \in Nat /\ Len(results[s]) \in Nat
    BY RowTypes
  <2>3. number[s] # 0
    BY <1>2 DEF Begun
  <2> QED
    BY <1>1, <1>2, <2>1, <2>2, <2>3
       DEF InLoop, AtResult, current, OneResult, Waiting
<1>5. Reported(s)'
  <2>1. WithHealth(s)' = WithHealth(s) /\ WithBalance(s)' = WithBalance(s)
    BY <1>1, <1>2 DEF WithHealth, WithBalance, Behind, OneResult
  <2> QED
    BY <1>1, <2>1, SameReport DEF OfScrape
<1> QED
  BY <1>3, <1>4, <1>5 DEF OfScrape

\* The workers.
LEMMA PickUpOwn ==
    ASSUME Shapes, NEW s \in Scrapers, NEW a \in Accounts, OfScrape(s), PickUp(s, a)
    PROVE  OfScrape(s)'
<1>1. UNCHANGED <<pc[s], number[s], results[s], next[s], sent[s]>>
  BY DEF PickUp
<1>2. /\ pc[s] = "collect" /\ work[s][a] = "queued" /\ work'[s][a] = "busy"
      /\ \A b \in Accounts : b # a => work'[s][b] = work[s][b]
  BY DEF PickUp, Shapes
<1>3. Answered(s)'
  <2>1. \A i \in 1 .. Len(results[s]) :
           results[s][i].account \in Accounts /\ results[s][i].account # a
    BY <1>2, RowTypes DEF OfScrape, Answered, Reading
  <2> QED
    BY <1>1, <1>2, <2>1 DEF OfScrape, Answered
<1>4. InLoop(s)'
  BY <1>1, <1>2 DEF OfScrape, InLoop, AtResult, OneResult, Waiting
<1>5. Reported(s)'
  <2>1. WithHealth(s)' = WithHealth(s) /\ WithBalance(s)' = WithBalance(s)
    BY <1>1 DEF WithHealth, WithBalance, Behind
  <2> QED
    BY <1>1, <2>1, SameReport DEF OfScrape
<1> QED
  BY <1>3, <1>4, <1>5 DEF OfScrape

LEMMA SendResultOwn ==
    ASSUME Shapes, NEW s \in Scrapers, NEW a \in Accounts, OfScrape(s), SendResult(s, a)
    PROVE  OfScrape(s)'
<1> DEFINE n == Len(results[s])
<1>1. UNCHANGED <<pc[s], number[s], next[s], sent[s]>> /\ next[s] = 1
      /\ pc[s] = "collect"
  BY DEF SendResult, OfScrape, InLoop, Waiting
<1>2. PICK healthy \in BOOLEAN : results'[s] = Append(results[s], Result(a, healthy))
  BY DEF SendResult, Shapes, Counted
<1>3. results[s] \in Seq(Reading) /\ Result(a, healthy) \in Reading /\ n \in Nat
  BY RowTypes DEF Result, Reading
<1>4. /\ Len(results'[s]) = n + 1
      /\ \A i \in 1 .. n : results'[s][i] = results[s][i]
      /\ results'[s][n + 1].account = a
  BY <1>2, <1>3 DEF Result
<1>5. /\ work[s][a] = "busy" /\ work'[s][a] = "sent"
      /\ \A b \in Accounts : b # a => work'[s][b] = work[s][b]
      /\ n < Cardinality(Accounts)
  BY DEF SendResult, ResultsCapacity, Shapes
<1>6. \A i \in 1 .. n :
         results[s][i].account \in Accounts /\ results[s][i].account # a
  BY <1>5, RowTypes DEF OfScrape, Answered, Reading
<1>7. Answered(s)'
  <2>1. Len(results'[s]) <= Cardinality(Accounts)
    BY <1>3, <1>4, <1>5, AccountsCounted
  <2>2. \A i \in 1 .. n + 1 : work'[s][results'[s][i].account] = "sent"
    BY <1>3, <1>4, <1>5, <1>6 DEF OfScrape, Answered
  <2>3. ASSUME NEW i \in 1 .. n + 1, NEW j \in 1 .. n + 1,
               results'[s][i].account = results'[s][j].account
        PROVE  i = j
    <3>1. CASE i \in 1 .. n /\ j \in 1 .. n
      <4>1. \A k, l \in 1 .. n :
               results[s][k].account = results[s][l].account => k = l
        BY DEF OfScrape, Answered
      <4>2. results'[s][i] = results[s][i] /\ results'[s][j] = results[s][j]
        BY <1>4, <3>1
      <4>3. results[s][i].account = results[s][j].account
        BY <2>3, <4>2
      <4> QED
        BY <3>1, <4>1, <4>3
    <3>2. CASE i = n + 1 \/ j = n + 1
      <4>1. \A k \in 1 .. n + 1 : results'[s][k].account = a => k = n + 1
        <5>1. \A k \in 1 .. n : results'[s][k].account # a
          BY <1>4, <1>6
        <5> QED
          BY <1>3, <5>1
      <4> QED
        BY <1>4, <2>3, <3>2, <4>1
    <3> QED
      BY <1>3, <3>1, <3>2
  <2>4. ASSUME NEW b \in Accounts, work'[s][b] = "sent"
        PROVE  \E i \in 1 .. n + 1 : results'[s][i].account = b
    <3>1. CASE b = a
      BY <1>3, <1>4, <3>1
    <3>2. CASE b # a
      <4>1. PICK i \in 1 .. n : results[s][i].account = b
        BY <1>5, <2>4, <3>2 DEF OfScrape, Answered
      <4> QED
        BY <1>3, <1>4, <4>1
    <3> QED
      BY <3>1, <3>2
  <2> QED
    BY <1>4, <2>1, <2>2, <2>3, <2>4 DEF Answered
<1>8. InLoop(s)'
  BY <1>1, <1>3, <1>4 DEF InLoop, AtResult, OneResult, Waiting
<1>9. Reported(s)'
  <2>1. /\ WithHealth(s) = {} /\ WithBalance(s) = {}
        /\ WithHealth(s)' = {} /\ WithBalance(s)' = {}
    BY <1>1 DEF WithHealth, WithBalance, Behind, OneResult
  <2>2. sent[s] = SetToBag({})
    BY <2>1 DEF OfScrape, Reported
  <2>3. ({HealthMetric(s, i) : i \in WithHealth(s)}
           \union {BalanceMetric(s, i) : i \in WithBalance(s)})' = {}
    BY <2>1
  <2> QED
    BY <1>1, <2>2, <2>3 DEF Reported
<1> QED
  BY <1>7, <1>8, <1>9 DEF OfScrape

\* The resets: a result that is done with is one behind the loop.
LEMMA ResetsOwn ==
    ASSUME Shapes, NEW s \in Scrapers, Begun(s), OfScrape(s),
           ResetHealth(s) \/ ResetBalance(s)
    PROVE  OfScrape(s)'
<1>1. UNCHANGED <<number[s], work[s], results[s], sent[s]>>
  BY DEF ResetHealth, ResetBalance, loopVars
<1>2. \/ /\ pc[s] = "resetHealth" /\ current(s).healthy
         /\ pc'[s] = "setBalance" /\ next'[s] = next[s]
      \/ /\ pc[s] = "resetHealth" /\ ~current(s).healthy
         /\ pc'[s] = "setHealth" /\ next'[s] = next[s] + 1
      \/ /\ pc[s] = "resetBalance"
         /\ pc'[s] = "setHealth" /\ next'[s] = next[s] + 1
  BY DEF ResetHealth, ResetBalance, NextResult, Goto, Shapes, Counted
<1>3. next[s] \in Nat /\ next[s] > 0 /\ Len(results[s]) \in Nat
      /\ next[s] <= Len(results[s]) /\ number[s] # 0
  BY <1>2, RowTypes DEF OfScrape, InLoop, AtResult, OneResult, Begun
<1>4. Answered(s)'
  BY <1>1 DEF OfScrape, Answered
<1>5. InLoop(s)'
  <2>1. InLoop(s)
    BY DEF OfScrape
  <2> QED
    BY <1>1, <1>2, <1>3, <2>1 DEF InLoop, AtResult, current, OneResult, Waiting
<1>6. Reported(s)'
  <2>1. WithHealth(s)' = WithHealth(s)
    BY <1>1, <1>2, <1>3 DEF WithHealth, Behind, OneResult
  <2>2. WithBalance(s)' = WithBalance(s)
    BY <1>1, <1>2, <1>3 DEF WithBalance, Behind, current
  <2> QED
    BY <1>1, <2>1, <2>2, SameReport DEF OfScrape
<1> QED
  BY <1>4, <1>5, <1>6 DEF OfScrape

\* The sends: the vector holds the gauge of the result in hand, and nothing of
\* its account has been sent before.
LEMMA SendHealthOwn ==
    ASSUME Shapes, NEW s \in Scrapers, OfScrape(s), SendHealth(s),
           health = {HealthGauge(current(s))}
    PROVE  OfScrape(s)'
<1> DEFINE n == next[s]
           Sent == {HealthMetric(s, i) : i \in WithHealth(s)}
                   \union {BalanceMetric(s, i) : i \in WithBalance(s)}
<1>1. /\ UNCHANGED <<number[s], work[s], results[s], next[s]>>
      /\ pc[s] = "sendHealth" /\ pc'[s] = "resetHealth"
  BY DEF SendHealth, Goto, Shapes, Counted, loopVars
<1>2. sent'[s] = sent[s] (+) SetToBag({HealthMetric(s, n)})
  <2>1. {Metric("health", g) : g \in health} = {HealthMetric(s, n)}
    BY DEF HealthMetric, current
  <2> QED
    BY <2>1 DEF SendHealth, Send, Shapes
<1>3. n \in 1 .. Len(results[s]) /\ Len(results[s]) \in Nat
  BY <1>1, RowTypes DEF OfScrape, InLoop, AtResult, OneResult
<1>4. WithHealth(s) = 1 .. n - 1 /\ WithHealth(s)' = WithHealth(s) \union {n}
  BY <1>1, <1>3 DEF WithHealth, Behind, OneResult
<1>5. WithBalance(s)' = WithBalance(s)
  BY <1>1 DEF WithBalance, Behind
<1>6. HealthMetric(s, n) \notin Sent
  <2>1. ASSUME NEW i \in WithHealth(s) PROVE HealthMetric(s, i) # HealthMetric(s, n)
    <3>1. i \in 1 .. Len(results[s]) /\ i # n
      BY <1>3, <1>4
    <3>2. results[s][i].account # results[s][n].account
      BY <1>3, <3>1 DEF OfScrape, Answered
    <3> QED
      BY <3>2 DEF HealthMetric, Metric, HealthGauge, Gauge
  <2>2. ASSUME NEW i \in WithBalance(s) PROVE BalanceMetric(s, i) # HealthMetric(s, n)
    BY DEF HealthMetric, BalanceMetric, Metric
  <2> QED
    BY <2>1, <2>2
<1>7. sent'[s] = SetToBag(Sent \union {HealthMetric(s, n)})
  <2>1. sent[s] = SetToBag(Sent) /\ Sent \cap {HealthMetric(s, n)} = {}
    BY <1>6 DEF OfScrape, Reported
  <2> HIDE DEF Sent
  <2> QED
    BY <1>2, <2>1, DisjointBags
<1>8. Reported(s)'
  <2>1. \A i \in WithHealth(s) \union {n} : HealthMetric(s, i)' = HealthMetric(s, i)
    BY <1>1 DEF HealthMetric
  <2>2. \A i \in WithBalance(s) : BalanceMetric(s, i)' = BalanceMetric(s, i)
    BY <1>1 DEF BalanceMetric, BalanceGauge
  <2>3. Sent' = Sent \union {HealthMetric(s, n)}
    BY <1>4, <1>5, <2>1, <2>2
  <2> QED
    BY <1>7, <2>3 DEF Reported
<1>9. Answered(s)' /\ InLoop(s)'
  BY <1>1 DEF OfScrape, Answered, InLoop, AtResult, current, OneResult, Waiting
<1> QED
  BY <1>8, <1>9 DEF OfScrape

LEMMA SendBalanceOwn ==
    ASSUME Shapes, NEW s \in Scrapers, OfScrape(s), SendBalance(s),
           metrics = {BalanceGauge(s, current(s))}
    PROVE  OfScrape(s)'
<1> DEFINE n == next[s]
           Sent == {HealthMetric(s, i) : i \in WithHealth(s)}
                   \union {BalanceMetric(s, i) : i \in WithBalance(s)}
<1>1. /\ UNCHANGED <<number[s], work[s], results[s], next[s]>>
      /\ pc[s] = "sendBalance" /\ pc'[s] = "resetBalance"
  BY DEF SendBalance, Goto, Shapes, Counted, loopVars
<1>2. sent'[s] = sent[s] (+) SetToBag({BalanceMetric(s, n)})
  <2>1. {Metric("balance", g) : g \in metrics} = {BalanceMetric(s, n)}
    BY DEF BalanceMetric, current
  <2> QED
    BY <2>1 DEF SendBalance, Send, Shapes
<1>3. n \in 1 .. Len(results[s]) /\ Len(results[s]) \in Nat
  BY <1>1, RowTypes DEF OfScrape, InLoop, AtResult, OneResult
<1>4. results[s][n].healthy
  BY <1>1 DEF OfScrape, InLoop, current
<1>5. WithHealth(s)' = WithHealth(s)
  BY <1>1 DEF WithHealth, Behind, OneResult
<1>6. /\ WithBalance(s) = {i \in 1 .. n - 1 : results[s][i].healthy}
      /\ WithBalance(s)' = WithBalance(s) \union {n}
  BY <1>1, <1>3, <1>4 DEF WithBalance, Behind
<1>7. BalanceMetric(s, n) \notin Sent
  <2>1. ASSUME NEW i \in WithBalance(s) PROVE BalanceMetric(s, i) # BalanceMetric(s, n)
    <3>1. i \in 1 .. Len(results[s]) /\ i # n
      BY <1>3, <1>6
    <3>2. results[s][i].account # results[s][n].account
      BY <1>3, <3>1 DEF OfScrape, Answered
    <3> QED
      BY <3>2 DEF BalanceMetric, Metric, BalanceGauge, Gauge
  <2>2. ASSUME NEW i \in WithHealth(s) PROVE HealthMetric(s, i) # BalanceMetric(s, n)
    BY DEF HealthMetric, BalanceMetric, Metric
  <2> QED
    BY <2>1, <2>2
<1>8. sent'[s] = SetToBag(Sent \union {BalanceMetric(s, n)})
  <2>1. sent[s] = SetToBag(Sent) /\ Sent \cap {BalanceMetric(s, n)} = {}
    BY <1>7 DEF OfScrape, Reported
  <2> HIDE DEF Sent
  <2> QED
    BY <1>2, <2>1, DisjointBags
<1>9. Reported(s)'
  <2>1. \A i \in WithBalance(s) \union {n} : BalanceMetric(s, i)' = BalanceMetric(s, i)
    BY <1>1 DEF BalanceMetric, BalanceGauge
  <2>2. \A i \in WithHealth(s) : HealthMetric(s, i)' = HealthMetric(s, i)
    BY <1>1 DEF HealthMetric
  <2>3. Sent' = Sent \union {BalanceMetric(s, n)}
    BY <1>5, <1>6, <2>1, <2>2
  <2> QED
    BY <1>8, <2>3 DEF Reported
<1>10. Answered(s)' /\ InLoop(s)'
  BY <1>1 DEF OfScrape, Answered, InLoop, AtResult, current, OneResult, Waiting
<1> QED
  BY <1>9, <1>10 DEF OfScrape

(***************************************************************************)
(* The steps of a scrape, for what is shared.                              *)
(***************************************************************************)
\* A step of a scrape leaves the rows of the others alone.
LEMMA OthersAlone ==
    ASSUME Shapes, NEW s \in Scrapers, NEW t \in Scrapers, s # t,
           BeginScrape(s) \/ ScrapeStep(s)
    PROVE  UNCHANGED <<pc[t], number[t], work[t], results[t], next[t], sent[t]>>
<1> USE DEF Shapes, Counted
<1>1. CASE BeginScrape(s)
  BY <1>1 DEF BeginScrape, Goto
<1>2. CASE \E a \in Accounts : PickUp(s, a) \/ SendResult(s, a)
  BY <1>2 DEF PickUp, SendResult
<1>3. CASE Lock(s) \/ Drain(s) \/ CountFailures(s) \/ EndScrape(s)
  BY <1>3 DEF Lock, Drain, CountFailures, EndScrape, Goto
<1>4. CASE SetHealth(s) \/ SendHealth(s) \/ ResetHealth(s)
  BY <1>4 DEF SetHealth, SendHealth, ResetHealth, NextResult, Goto, Send, loopVars
<1>5. CASE SetBalance(s) \/ SendBalance(s) \/ ResetBalance(s)
  BY <1>5 DEF SetBalance, SendBalance, ResetBalance, NextResult, Goto, Send, loopVars
<1> QED
  BY <1>1, <1>2, <1>3, <1>4, <1>5 DEF ScrapeStep

LEMMA ShapesNext ==
    ASSUME Shapes, NEW s \in Scrapers, BeginScrape(s) \/ ScrapeStep(s),
           OfScrape(s), Begun(s)
    PROVE  Shapes'
<1>1. Counted'
  BY StepCounts DEF Shapes
<1>2. CASE BeginScrape(s)
  <2>1. scrapes + 1 \in 0 .. MaxScrapes
    BY <1>2, CollectorAssumption DEF BeginScrape, Shapes
  <2>2. Nothing \in [Accounts -> {"queued", "busy", "sent"}]
    BY DEF Nothing
  <2> QED
    BY <1>1, <1>2, <2>1, <2>2 DEF BeginScrape, Shapes, vectors
<1>3. ASSUME NEW a \in Accounts, PickUp(s, a) \/ SendResult(s, a)
      PROVE  Shapes'
  <2>1. work' \in [Scrapers -> [Accounts -> {"queued", "busy", "sent"}]]
    <3>1. PICK v \in {"busy", "sent"} : work' = [work EXCEPT ![s][a] = v]
      BY <1>3 DEF PickUp, SendResult
    <3> QED
      BY <3>1 DEF Shapes
  <2> QED
    BY <1>1, <1>3, <2>1 DEF PickUp, SendResult, Shapes, vectors
<1>4. CASE Lock(s) \/ Drain(s) \/ CountFailures(s) \/ EndScrape(s)
  <2>1. holder' \in 0 .. MaxScrapes
    BY <1>4, CollectorAssumption DEF Lock, Drain, CountFailures, EndScrape, Shapes
  <2> QED
    BY <1>1, <1>4, <2>1
       DEF Lock, Drain, CountFailures, EndScrape, Shapes, vectors
<1>5. CASE \/ SetHealth(s) \/ SendHealth(s) \/ ResetHealth(s)
           \/ SetBalance(s) \/ SendBalance(s) \/ ResetBalance(s)
  <2>1. /\ UNCHANGED <<number, scrapes, holder, work>>
        /\ next' \in {next, [next EXCEPT ![s] = @ + 1]}
        /\ DOMAIN sent' = Scrapers
    BY <1>5 DEF SetHealth, SendHealth, ResetHealth, SetBalance, SendBalance,
                ResetBalance, loopVars, NextResult, Send, Shapes
  <2>2. next' \in [Scrapers -> Nat \ {0}]
    BY <2>1 DEF Shapes
  <2>3. health' \subseteq [account : Accounts, value : {0, 1}]
    <3>1. CASE SetHealth(s)
      <4>1. current(s) \in Reading
        BY <3>1, RowTypes DEF SetHealth, AtResult, current
      <4>2. HealthGauge(current(s)) \in [account : Accounts, value : {0, 1}]
        BY <4>1 DEF HealthGauge, Gauge, Reading
      <4> QED
        BY <3>1, <4>2 DEF SetHealth, Put, Shapes
    <3> QED
      BY <1>5, <3>1 DEF SendHealth, ResetHealth, SetBalance, SendBalance,
                        ResetBalance, vectors, Shapes
  <2>4. metrics' \subseteq [account : Accounts, value : 1 .. MaxScrapes]
    <3>1. CASE SetBalance(s)
      <4>1. current(s) \in Reading
        BY <3>1, RowTypes DEF SetBalance, OfScrape, InLoop, AtResult, OneResult, current
      <4>2. number[s] \in 1 .. MaxScrapes
        BY <3>1, RowTypes DEF SetBalance, Begun
      <4>3. BalanceGauge(s, current(s)) \in [account : Accounts, value : 1 .. MaxScrapes]
        BY <4>1, <4>2 DEF BalanceGauge, Gauge, Reading
      <4> QED
        BY <3>1, <4>3 DEF SetBalance, Put, Shapes
    <3> QED
      BY <1>5, <3>1 DEF SetHealth, SendHealth, ResetHealth, SendBalance,
                        ResetBalance, vectors, Shapes
  <2> QED
    BY <1>1, <2>1, <2>2, <2>3, <2>4 DEF Shapes
<1> QED
  BY <1>2, <1>3, <1>4, <1>5 DEF ScrapeStep

\* Where a step of a scrape leads, and what it does to the mutex.
LEMMA Moves ==
    ASSUME Shapes, NEW s \in Scrapers, ScrapeStep(s)
    PROVE  /\ UNCHANGED <<number, scrapes>>
           /\ \/ pc[s] \in Inside /\ pc'[s] \in Inside /\ UNCHANGED holder
              \/ /\ pc[s] = "lock" /\ pc'[s] = "collect"
                 /\ holder = 0 /\ holder' = number[s]
              \/ pc[s] \in Inside /\ pc'[s] = "idle" /\ holder' = 0
           /\ pc[s] # "idle"
<1> USE DEF Shapes, Counted, Inside, Places
<1>1. CASE \E a \in Accounts : PickUp(s, a) \/ SendResult(s, a)
  BY <1>1 DEF PickUp, SendResult
<1>2. CASE Lock(s) \/ Drain(s) \/ CountFailures(s) \/ EndScrape(s)
  BY <1>2 DEF Lock, Drain, CountFailures, EndScrape, Goto
<1>3. CASE SetHealth(s) \/ SendHealth(s) \/ ResetHealth(s)
  BY <1>3 DEF SetHealth, SendHealth, ResetHealth, NextResult, Goto, loopVars
<1>4. CASE SetBalance(s) \/ SendBalance(s) \/ ResetBalance(s)
  BY <1>4 DEF SetBalance, SendBalance, ResetBalance, NextResult, Goto, loopVars
<1> QED
  BY <1>1, <1>2, <1>3, <1>4 DEF ScrapeStep

LEMMA MutexNext ==
    ASSUME Shapes, Numbered, Mutex, NEW s \in Scrapers, BeginScrape(s) \/ ScrapeStep(s)
    PROVE  Numbered' /\ Mutex'
<1>1. \A t \in Scrapers \ {s} : UNCHANGED <<pc[t], number[t]>>
  BY OthersAlone
<1>2. scrapes \in Nat /\ holder \in Nat /\ \A t \in Scrapers : number[t] \in Nat
  BY DEF Shapes
<1>3. CASE BeginScrape(s)
  <2>1. /\ number'[s] = scrapes + 1 /\ scrapes' = scrapes + 1 /\ holder' = holder
        /\ pc[s] = "idle" /\ pc'[s] = "lock"
    BY <1>3 DEF BeginScrape, Goto, Shapes, Counted
  <2>2. \A t \in Scrapers : number[t] <= scrapes /\ number[t] # scrapes + 1
    BY <1>2 DEF Numbered, Begun
  <2>3. Numbered'
    BY <1>1, <1>2, <2>1, <2>2 DEF Numbered, Begun
  <2>4. Mutex'
    BY <1>1, <1>2, <2>1, <2>2 DEF Mutex, Inside
  <2> QED
    BY <2>3, <2>4
<1>4. CASE ScrapeStep(s)
  <2>1. /\ UNCHANGED <<number, scrapes>>
        /\ \/ pc[s] \in Inside /\ pc'[s] \in Inside /\ UNCHANGED holder
           \/ /\ pc[s] = "lock" /\ pc'[s] = "collect"
              /\ holder = 0 /\ holder' = number[s]
           \/ pc[s] \in Inside /\ pc'[s] = "idle" /\ holder' = 0
        /\ pc[s] # "idle"
    BY <1>4, Moves
  <2>2. number[s] # 0 /\ number[s] <= scrapes
    BY <2>1 DEF Numbered, Begun
  <2>3. Numbered'
    BY <1>1, <2>1, <2>2 DEF Numbered, Begun
  <2>4. Mutex'
    <3>1. \A t \in Scrapers \ {s} : number[t] # number[s] 
      BY <2>2 DEF Numbered
    <3>2. "collect" \in Inside /\ "idle" \notin Inside /\ "lock" \notin Inside
      BY DEF Inside, Places
    <3> QED
      BY <1>1, <1>2, <2>1, <2>2, <3>1, <3>2 DEF Mutex
  <2> QED
    BY <2>3, <2>4
<1> QED
  BY <1>3, <1>4

\* One scrape at a time is inside: the vectors are its own.
LEMMA OneInside ==
    ASSUME Numbered, Mutex, NEW s \in Scrapers, NEW t \in Scrapers,
           pc[s] \in Inside, pc[t] \in Inside
    PROVE  s = t
  BY DEF Numbered, Mutex

LEMMA VectorsNext ==
    ASSUME SInv, NEW s \in Scrapers, BeginScrape(s) \/ ScrapeStep(s)
    PROVE  Vectors'
<1> USE DEF SInv
<1>1. ASSUME NEW t \in Scrapers, t # s
      PROVE  UNCHANGED <<pc[t], number[t], results[t], next[t]>>
  BY <1>1, OthersAlone
<1>2. ASSUME pc[s] \in Inside, NEW t \in Scrapers, t # s
      PROVE  pc[t] \notin Inside /\ pc'[t] = pc[t]
  BY <1>1, <1>2, OneInside
<1> DEFINE Health == {"sendHealth", "resetHealth"}
           Balance == {"sendBalance", "resetBalance"}
<1>3. /\ Health \subseteq Inside /\ Balance \subseteq Inside
      /\ "setHealth" \in Inside /\ "setBalance" \in Inside
  BY DEF Inside, Places
<1>4. \A t \in Scrapers \ {s} : current(t)' = current(t)
                               /\ BalanceGauge(t, current(t))' = BalanceGauge(t, current(t))
  BY <1>1 DEF current, BalanceGauge
<1>5. ASSUME UNCHANGED <<health, metrics>>,
             pc'[s] \in Health <=> pc[s] \in Health,
             pc'[s] \in Balance <=> pc[s] \in Balance,
             pc[s] \in Health \union Balance =>
                 UNCHANGED <<number[s], results[s], next[s]>>
      PROVE  Vectors'
  <2>1. pc[s] \in Health \union Balance =>
            /\ current(s)' = current(s)
            /\ BalanceGauge(s, current(s))' = BalanceGauge(s, current(s))
    BY <1>5 DEF current, BalanceGauge
  <2>2. \A t \in Scrapers : /\ pc'[t] \in Health <=> pc[t] \in Health
                            /\ pc'[t] \in Balance <=> pc[t] \in Balance
    BY <1>1, <1>5
  <2>3. ASSUME NEW t \in Scrapers, pc[t] \in Health \union Balance
        PROVE  /\ HealthGauge(current(t))' = HealthGauge(current(t))
               /\ BalanceGauge(t, current(t))' = BalanceGauge(t, current(t))
    BY <1>4, <2>1, <2>3 DEF HealthGauge
  <2> QED
    BY <1>5, <2>2, <2>3 DEF Vectors
<1>6. CASE \/ BeginScrape(s) \/ Lock(s) \/ Drain(s) \/ CountFailures(s) \/ EndScrape(s)
           \/ \E a \in Accounts : PickUp(s, a) \/ SendResult(s, a)
  <2>1. /\ UNCHANGED <<health, metrics>>
        /\ pc[s] \notin Health \union Balance /\ pc'[s] \notin Health \union Balance
    BY <1>6 DEF BeginScrape, Lock, Drain, CountFailures, EndScrape, PickUp,
                SendResult, Goto, vectors, Shapes, Counted
  <2> QED
    BY <1>5, <2>1
<1>7. CASE SendHealth(s) \/ SendBalance(s)
  <2>1. /\ UNCHANGED <<health, metrics, number, results, next>>
        /\ \/ pc[s] = "sendHealth" /\ pc'[s] = "resetHealth"
           \/ pc[s] = "sendBalance" /\ pc'[s] = "resetBalance"
    BY <1>7 DEF SendHealth, SendBalance, Goto, vectors, loopVars, Shapes, Counted
  <2> QED
    BY <1>5, <2>1
<1> HIDE DEF Health, Balance
<1>8. CASE SetHealth(s)
  <2>1. /\ pc[s] = "setHealth" /\ pc'[s] = "sendHealth" /\ UNCHANGED metrics
        /\ health' = Put(health, HealthGauge(current(s)))
        /\ UNCHANGED <<results, next>>
    BY <1>8 DEF SetHealth, Goto, loopVars, Shapes, Counted
  <2>2. \A t \in Scrapers : pc[t] \notin Health /\ pc[t] \notin Balance
    BY <1>2, <1>3, <2>1 DEF Health, Balance
  <2>3. health = {} /\ metrics = {}
    BY <2>2 DEF Vectors, Health, Balance
  <2>4. health' = {HealthGauge(current(s))'}
    BY <2>1, <2>3 DEF Put, HealthGauge, current
  <2>5. \A t \in Scrapers : /\ pc'[t] \notin Balance
                            /\ pc'[t] \in Health => t = s
    BY <1>1, <2>1, <2>2 DEF Balance
  <2> QED
    BY <2>1, <2>3, <2>4, <2>5 DEF Vectors, Health, Balance
<1>9. CASE ResetHealth(s) \/ ResetBalance(s)
  <2>1. /\ pc[s] \in {"resetHealth", "resetBalance"}
        /\ pc'[s] \in {"setHealth", "setBalance"}
        /\ pc[s] = "resetHealth" => health' = {} /\ metrics' = metrics
        /\ pc[s] = "resetBalance" => metrics' = {} /\ health' = health
    BY <1>9 DEF ResetHealth, ResetBalance, NextResult, Goto, Shapes, Counted
  <2>2. \A t \in Scrapers : t # s => pc[t] \notin Health /\ pc[t] \notin Balance
    BY <1>2, <1>3, <2>1 DEF Health, Balance
  <2>3. /\ pc[s] = "resetHealth" => metrics = {}
        /\ pc[s] = "resetBalance" => health = {}
    BY <2>2 DEF Vectors, Health, Balance
  <2>4. \A t \in Scrapers : pc'[t] \notin Health /\ pc'[t] \notin Balance
    BY <1>1, <2>1, <2>2 DEF Health, Balance
  <2>5. health' = {} /\ metrics' = {}
    BY <2>1, <2>3
  <2> QED
    BY <2>4, <2>5 DEF Vectors, Health, Balance
<1>10. CASE SetBalance(s)
  <2>1. /\ pc[s] = "setBalance" /\ pc'[s] = "sendBalance" /\ UNCHANGED health
        /\ metrics' = Put(metrics, BalanceGauge(s, current(s)))
        /\ UNCHANGED <<number, results, next>>
    BY <1>10 DEF SetBalance, Goto, loopVars, Shapes, Counted
  <2>2. \A t \in Scrapers : pc[t] \notin Health /\ pc[t] \notin Balance
    BY <1>2, <1>3, <2>1 DEF Health, Balance
  <2>3. health = {} /\ metrics = {}
    BY <2>2 DEF Vectors, Health, Balance
  <2>4. metrics' = {BalanceGauge(s, current(s))'}
    BY <2>1, <2>3 DEF Put, BalanceGauge, current
  <2>5. \A t \in Scrapers : /\ pc'[t] \notin Health
                            /\ pc'[t] \in Balance => t = s
    BY <1>1, <2>1, <2>2 DEF Health
  <2> QED
    BY <2>1, <2>3, <2>4, <2>5 DEF Vectors, Health, Balance
<1> QED
  BY <1>6, <1>7, <1>8, <1>9, <1>10 DEF ScrapeStep

\* A scrape is counted as failed at most once.
LEMMA FailedOnceNext ==
    ASSUME SInv, NEW s \in Scrapers, BeginScrape(s) \/ ScrapeStep(s)
    PROVE  FailedOnce'
<1> USE DEF SInv
<1>1. \A t \in Scrapers \ {s} : UNCHANGED <<pc[t], number[t]>>
  BY OthersAlone
<1>2. IsFiniteSet(Uncounted) /\ Cardinality(Uncounted) \in Nat
  <2>1. Uncounted \subseteq 0 .. MaxScrapes
    BY DEF Uncounted, Shapes
  <2>2. IsFiniteSet(0 .. MaxScrapes)
    BY FS_Interval, CollectorAssumption
  <2>3. IsFiniteSet(Uncounted)
    BY <2>1, <2>2, FS_Subset
  <2> QED
    BY <2>3, FS_CardinalityType
<1>3. scrapes \in Nat /\ scrapesFailed \in Nat /\ \A t \in Scrapers : number[t] \in Nat
  BY DEF Shapes, Counted
<1>4. CASE BeginScrape(s)
  <2>1. /\ number'[s] = scrapes + 1 /\ scrapes' = scrapes + 1
        /\ pc[s] = "idle" /\ pc'[s] = "lock" /\ UNCHANGED scrapesFailed
    BY <1>4 DEF BeginScrape, Goto, Shapes, Counted
  <2>2. Uncounted' = Uncounted \union {scrapes + 1}
    BY <1>1, <2>1 DEF Uncounted, Waiting
  <2>3. scrapes + 1 \notin Uncounted
    BY <1>3 DEF Uncounted, Numbered, Begun
  <2>4. Cardinality(Uncounted') = Cardinality(Uncounted) + 1
    BY <1>2, <2>2, <2>3, FS_AddElement
  <2> QED
    BY <1>2, <1>3, <2>1, <2>4 DEF FailedOnce
<1>5. CASE CountFailures(s)
  <2>1. /\ UNCHANGED <<number, scrapes>> /\ pc[s] = "count" /\ pc'[s] = "setHealth"
        /\ scrapesFailed' \in {scrapesFailed, scrapesFailed + 1}
    BY <1>5 DEF CountFailures, Goto, Shapes, Counted
  <2>2. number[s] # 0
    BY <2>1 DEF Numbered, Begun
  <2>3. Uncounted' = Uncounted \ {number[s]}
    BY <1>1, <2>1, <2>2 DEF Uncounted, Waiting, Numbered
  <2>4. number[s] \in Uncounted
    BY <2>1 DEF Uncounted, Waiting
  <2>5. Cardinality(Uncounted') = Cardinality(Uncounted) - 1
    BY <1>2, <2>3, <2>4, FS_RemoveElement
  <2> QED
    BY <1>2, <1>3, <2>1, <2>5 DEF FailedOnce
<1>6. CASE ScrapeStep(s) /\ ~CountFailures(s)
  <2>1. UNCHANGED <<number, scrapes, scrapesFailed>>
        /\ (pc'[s] \in Waiting <=> pc[s] \in Waiting)
    <3> USE DEF Shapes, Counted, Waiting
    <3>1. CASE \E a \in Accounts : PickUp(s, a) \/ SendResult(s, a)
      BY <3>1 DEF PickUp, SendResult
    <3>2. CASE Lock(s) \/ Drain(s) \/ EndScrape(s)
      BY <3>2 DEF Lock, Drain, EndScrape, Goto
    <3>3. CASE SetHealth(s) \/ SendHealth(s) \/ ResetHealth(s)
      BY <3>3 DEF SetHealth, SendHealth, ResetHealth, NextResult, Goto, loopVars
    <3>4. CASE SetBalance(s) \/ SendBalance(s) \/ ResetBalance(s)
      BY <3>4 DEF SetBalance, SendBalance, ResetBalance, NextResult, Goto, loopVars
    <3> QED
      BY <1>6, <3>1, <3>2, <3>3, <3>4 DEF ScrapeStep
  <2>2. Uncounted' = Uncounted
    BY <1>1, <2>1 DEF Uncounted
  <2> QED
    BY <2>1, <2>2 DEF FailedOnce
<1> QED
  BY <1>4, <1>5, <1>6

LEMMA OwnNext ==
    ASSUME SInv, NEW s \in Scrapers, BeginScrape(s) \/ ScrapeStep(s)
    PROVE  \A t \in Scrapers : OfScrape(t)'
<1> USE DEF SInv
<1>1. \A t \in Scrapers : t # s => OfScrape(t)'
  BY OthersAlone, OtherScrape
<1>2. Begun(s) /\ OfScrape(s)
  BY DEF Numbered
<1>3. SendHealth(s) => health = {HealthGauge(current(s))}
  BY DEF SendHealth, Vectors
<1>4. SendBalance(s) => metrics = {BalanceGauge(s, current(s))}
  BY DEF SendBalance, Vectors
<1>5. OfScrape(s)'
  BY <1>2, <1>3, <1>4, BeginScrapeOwn, MovesOwn, PickUpOwn, SendResultOwn,
     SendHealthOwn, ResetsOwn, SendBalanceOwn DEF ScrapeStep
<1> QED
  BY <1>1, <1>5

LEMMA SInvInit == Init => SInv
<1> SUFFICES ASSUME Init PROVE SInv
  OBVIOUS
<1>1. Counted
  BY CountedInit
<1>2. Shapes
  BY <1>1, CollectorAssumption DEF Init, Shapes, Nothing
<1>3. Numbered /\ Mutex /\ Vectors
  BY DEF Init, Numbered, Begun, Mutex, Vectors, Inside
<1>4. FailedOnce
  <2>1. Uncounted = {}
    BY DEF Init, Uncounted, Waiting
  <2> QED
    BY <2>1, FS_EmptySet DEF Init, FailedOnce
<1>5. ASSUME NEW s \in Scrapers PROVE OfScrape(s)
  <2>1. Answered(s) /\ InLoop(s)
    BY AccountsCounted DEF Init, Answered, InLoop, AtResult, Nothing, OneResult
  <2>2. WithHealth(s) = {} /\ WithBalance(s) = {}
    BY DEF Init, WithHealth, WithBalance, Behind, OneResult
  <2>3. Reported(s)
    BY <2>2, NothingSent DEF Init, Reported
  <2> QED
    BY <2>1, <2>3 DEF OfScrape
<1> QED
  BY <1>2, <1>3, <1>4, <1>5 DEF SInv

LEMMA SInvNext == SInv /\ [Next]_vars => SInv'
<1> SUFFICES ASSUME SInv, [Next]_vars PROVE SInv'
  OBVIOUS
<1>1. CASE UNCHANGED vars
  <2>1. UNCHANGED <<pc, number, scrapes, holder, work, results, next,
                    health, metrics, sent, scrapesFailed>>
    BY <1>1 DEF vars, vectors
  <2>2. Shapes' /\ Numbered' /\ Mutex'
    BY <2>1 DEF SInv, Shapes, Counted, Numbered, Begun, Mutex
  <2>3. Vectors' /\ FailedOnce'
    BY <2>1 DEF SInv, Vectors, current, BalanceGauge, FailedOnce, Uncounted
  <2>4. \A t \in Scrapers : OfScrape(t)'
    BY <2>1, OtherScrape DEF SInv
  <2> QED
    BY <2>2, <2>3, <2>4 DEF SInv
<1>2. ASSUME NEW s \in Scrapers, BeginScrape(s) \/ ScrapeStep(s) PROVE SInv'
  <2>1. Shapes'
    BY <1>2, ShapesNext DEF SInv, Numbered
  <2>2. Numbered' /\ Mutex'
    BY <1>2, MutexNext DEF SInv
  <2>3. Vectors' /\ FailedOnce' /\ \A t \in Scrapers : OfScrape(t)'
    BY <1>2, VectorsNext, FailedOnceNext, OwnNext
  <2> QED
    BY <2>1, <2>2, <2>3 DEF SInv
<1> QED
  BY <1>1, <1>2 DEF Next

(***************************************************************************)
(* What it says.                                                           *)
(***************************************************************************)
LEMMA SentTypes ==
    ASSUME SInv, NEW s \in Scrapers
    PROVE  DOMAIN sent[s] \subseteq Metrics
<1> USE DEF SInv
<1>1. DOMAIN sent[s] = {HealthMetric(s, i) : i \in WithHealth(s)}
                       \union {BalanceMetric(s, i) : i \in WithBalance(s)}
  BY DEF OfScrape, Reported, SetToBag
<1>2. /\ WithHealth(s) \subseteq 1 .. Len(results[s])
      /\ WithBalance(s) \subseteq 1 .. Len(results[s])
      /\ number[s] = 0 => WithHealth(s) = {} /\ WithBalance(s) = {}
  <2>1. /\ next[s] \in Nat /\ Len(results[s]) \in Nat
        /\ next[s] <= Len(results[s]) + 1
        /\ pc[s] \in OneResult => next[s] <= Len(results[s])
    BY RowTypes DEF OfScrape, InLoop, AtResult
  <2>2. number[s] = 0 => next[s] = 1 /\ pc[s] = "idle"
    BY DEF OfScrape, InLoop, Numbered, Begun
  <2> QED
    BY <2>1, <2>2 DEF WithHealth, WithBalance, Behind, OneResult
<1>3. CASE number[s] = 0
  BY <1>1, <1>2, <1>3
<1>4. CASE number[s] # 0
  <2>1. number[s] \in 0 .. MaxScrapes /\ 0 \in 0 .. MaxScrapes /\ 1 \in 0 .. MaxScrapes
    BY <1>4, RowTypes, CollectorAssumption
  <2>2. \A i \in 1 .. Len(results[s]) : results[s][i] \in Reading
    BY RowTypes
  <2>3. ASSUME NEW i \in 1 .. Len(results[s])
        PROVE  HealthMetric(s, i) \in Metrics /\ BalanceMetric(s, i) \in Metrics
    BY <2>1, <2>2 DEF HealthMetric, BalanceMetric, HealthGauge, BalanceGauge, Gauge,
                      Metric, Metrics, Reading
  <2> QED
    BY <1>1, <1>2, <2>3
<1> QED
  BY <1>3, <1>4

LEMMA SInvTypes == SInv => TypeOK
<1> SUFFICES ASSUME SInv PROVE TypeOK
  OBVIOUS
<1> USE DEF SInv
<1>1. ASSUME NEW s \in Scrapers
      PROVE  /\ Len(results[s]) <= Cardinality(Accounts)
             /\ \A i \in DOMAIN results[s] :
                   results[s][i] \in [account : Accounts, healthy : BOOLEAN]
             /\ next[s] \in 1 .. Cardinality(Accounts) + 1
             /\ DOMAIN sent[s] \subseteq Metrics
  <2>1. Len(results[s]) <= Cardinality(Accounts) /\ next[s] <= Len(results[s]) + 1
    BY DEF OfScrape, Answered, InLoop
  <2>2. next[s] \in Nat /\ next[s] > 0 /\ Len(results[s]) \in Nat
    BY RowTypes
  <2>3. \A i \in DOMAIN results[s] :
           results[s][i] \in [account : Accounts, healthy : BOOLEAN]
    BY RowTypes DEF Reading
  <2> QED
    BY <2>1, <2>2, <2>3, AccountsCounted, SentTypes
<1>2. scrapesFailed \in 0 .. MaxScrapes
  <2>1. scrapesFailed \in Nat /\ scrapes \in 0 .. MaxScrapes
    BY DEF Shapes, Counted
  <2>2. Cardinality(Uncounted) \in Nat
    <3>1. Uncounted \subseteq 0 .. MaxScrapes
      BY DEF Uncounted, Shapes
    <3>2. IsFiniteSet(0 .. MaxScrapes)
      BY FS_Interval, CollectorAssumption
    <3>3. IsFiniteSet(Uncounted)
      BY <3>1, <3>2, FS_Subset
    <3> QED
      BY <3>3, FS_CardinalityType
  <2> QED
    BY <2>1, <2>2, CollectorAssumption DEF FailedOnce
<1>3. ASSUME NEW s \in Scrapers
      PROVE  pc[s] \notin {"idle", "lock"} <=> holder # 0 /\ holder = number[s]
  BY RowTypes DEF Mutex, Inside
<1> QED
  BY <1>1, <1>2, <1>3 DEF TypeOK, Shapes, Counted

LEMMA SInvReports == SInv => ScrapeReportsItsOwn
<1> SUFFICES ASSUME SInv, NEW s \in Scrapers, pc[s] = "idle", number[s] # 0
             PROVE  LET read == {results[s][i] : i \in DOMAIN results[s]}
                    IN  /\ {r.account : r \in read} = Accounts
                        /\ sent[s] = SetToBag({Metric("health", HealthGauge(r)) : r \in read})
                                     (+) SetToBag({Metric("balance", BalanceGauge(s, r)) :
                                                      r \in {q \in read : q.healthy}})
  BY DEF ScrapeReportsItsOwn
<1> USE DEF SInv
<1> DEFINE answers == 1 .. Len(results[s])
           read == {results[s][i] : i \in DOMAIN results[s]}
           healths == {Metric("health", HealthGauge(r)) : r \in read}
           balances == {Metric("balance", BalanceGauge(s, r)) : r \in {q \in read : q.healthy}}
<1>1. DOMAIN results[s] = answers /\ \A i \in answers : results[s][i] \in Reading
  BY RowTypes
<1>2. {r.account : r \in read} = Accounts
  <2>1. \A a \in Accounts : \E i \in answers : results[s][i].account = a
    BY DEF OfScrape, InLoop, Answered
  <2>2. \A i \in answers : results[s][i].account \in Accounts
    BY <1>1 DEF Reading
  <2> QED
    BY <1>1, <2>1, <2>2
<1>3. WithHealth(s) = answers /\ WithBalance(s) = {i \in answers : results[s][i].healthy}
  <2>1. next[s] = Len(results[s]) + 1 /\ Len(results[s]) \in Nat
    BY RowTypes DEF OfScrape, InLoop
  <2> QED
    BY <2>1 DEF WithHealth, WithBalance, Behind, OneResult
<1>4. healths = {HealthMetric(s, i) : i \in WithHealth(s)}
  BY <1>1, <1>3 DEF HealthMetric
<1>5. balances = {BalanceMetric(s, i) : i \in WithBalance(s)}
  BY <1>1, <1>3 DEF BalanceMetric
<1>6. sent[s] = SetToBag(healths \union balances)
  BY <1>4, <1>5 DEF OfScrape, Reported
<1>7. healths \cap balances = {}
  BY DEF Metric
<1>8. sent[s] = SetToBag(healths) (+) SetToBag(balances)
  <2> HIDE DEF healths, balances
  <2> QED
    BY <1>6, <1>7, DisjointBags
<1> QED
  BY <1>2, <1>8

\* Types, and collectMutex: whatever scrapes run at the same time, exactly the
\* one that is past Lock has the mutex, and none is counted as failed twice.
THEOREM ScrapeTypeCorrect == Spec => []TypeOK
  BY SInvInit, SInvNext, SInvTypes, PTL DEF Spec

\* A scrape reports every account once, with its own readings and nothing else,
\* although all the scrapes send through two vectors that they share.
THEOREM ScrapesReportTheirOwn == Spec => []ScrapeReportsItsOwn
  BY SInvInit, SInvNext, SInvReports, PTL DEF Spec
=============================================================================
