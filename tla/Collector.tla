----------------------------- MODULE Collector -----------------------------
(***************************************************************************)
(* One BaseCollector (pkg/collector/collector.go) under concurrent scrapes *)
(* of the Prometheus handler.  A scrape takes collectMutex, reads every    *)
(* account with a bounded number of workers, and then passes each result   *)
(* through two gauge vectors that all the scrapes share: set, collect,     *)
(* reset.                                                                  *)
(***************************************************************************)
EXTENDS Naturals, Sequences, FiniteSets, Bags

CONSTANTS
    Scrapers,               \* goroutines of the HTTP handler
    Accounts,               \* the node's accounts
    DefaultMaxConcurrency,  \* workers of one scrape
    MaxScrapes              \* bound on the number of scrapes

ASSUME CollectorAssumption ==
    /\ IsFiniteSet(Accounts) /\ Accounts # {}
    /\ DefaultMaxConcurrency \in Nat \ {0}
    /\ MaxScrapes \in Nat

VARIABLES
    pc,             \* scraper -> where Collect is
    number,         \* scraper -> which scrape it performs, 0 for none
    scrapes,        \* scrapes begun so far
    holder,         \* who has collectMutex; 0 for nobody
    work,           \* scraper -> account -> "queued", "busy" or "sent"
    results,        \* scraper -> resultsChan, then the slice made of it
    next,           \* scraper -> index of the result in hand
    health,         \* the health vector: the gauges it holds
    metrics,        \* the balance vector: the gauges it holds
    sent,           \* scraper -> bag of metrics sent to the registry
    scrapesFailed   \* the counter blockchain_wallet_scrapes_failed_total

vectors == <<health, metrics>>
vars == <<pc, number, scrapes, holder, work, results, next, vectors,
          sent, scrapesFailed>>

\* What a worker sends for an account: whether its balance could be read.
Result(a, healthy) == [account |-> a, healthy |-> healthy]

\* A gauge of a vector.  Every scrape reads a balance of its own, so a value
\* is named by the number of the scrape it was read in.
Gauge(a, value) == [account |-> a, value |-> value]
Metric(name, gauge) == [name |-> name, account |-> gauge.account, value |-> gauge.value]

Places == {"idle", "lock", "collect", "count", "setHealth", "sendHealth",
           "resetHealth", "setBalance", "sendBalance", "resetBalance"}

Nothing == [a \in Accounts |-> "queued"]

Init == /\ pc = [s \in Scrapers |-> "idle"]
        /\ number = [s \in Scrapers |-> 0]
        /\ scrapes = 0
        /\ holder = 0
        /\ work = [s \in Scrapers |-> Nothing]
        /\ results = [s \in Scrapers |-> <<>>]
        /\ next = [s \in Scrapers |-> 1]
        /\ health = {} /\ metrics = {}
        /\ sent = [s \in Scrapers |-> EmptyBag]
        /\ scrapesFailed = 0

Goto(s, place) == pc' = [pc EXCEPT ![s] = place]

(***************************************************************************)
(* The registry calls Collect.                                             *)
(***************************************************************************)
BeginScrape(s) ==
    /\ pc[s] = "idle" /\ scrapes < MaxScrapes
    /\ scrapes' = scrapes + 1
    /\ number' = [number EXCEPT ![s] = scrapes + 1]
    /\ sent' = [sent EXCEPT ![s] = EmptyBag]
    /\ results' = [results EXCEPT ![s] = <<>>]
    /\ work' = [work EXCEPT ![s] = Nothing]
    /\ next' = [next EXCEPT ![s] = 1]
    /\ Goto(s, "lock")
    /\ UNCHANGED <<holder, vectors, scrapesFailed>>

\* Mutant: there is no collectMutex.
LockFree(s) ==
    /\ pc[s] = "lock"
    /\ holder' = number[s]
    /\ Goto(s, "collect")
    /\ UNCHANGED <<number, scrapes, work, results, next, vectors,
                   sent, scrapesFailed>>

Lock(s) ==
    /\ pc[s] = "lock"
    /\ holder = 0
    /\ holder' = number[s]
    /\ Goto(s, "collect")
    /\ UNCHANGED <<number, scrapes, work, results, next, vectors,
                   sent, scrapesFailed>>

(***************************************************************************)
(* collectMetrics.                                                         *)
(***************************************************************************)
PickUp(s, a) ==
    /\ pc[s] = "collect"
    /\ work[s][a] = "queued"
    /\ Cardinality({b \in Accounts : work[s][b] = "busy"}) < DefaultMaxConcurrency
    /\ work' = [work EXCEPT ![s][a] = "busy"]
    /\ UNCHANGED <<pc, number, scrapes, holder, results, next, vectors,
                   sent, scrapesFailed>>

\* Mutant: the channel is sized for the workers.
ResultsCapacityWorkers == DefaultMaxConcurrency

\* resultsChan is read only after the last worker has finished.
ResultsCapacity == Cardinality(Accounts)

\* An error becomes a result with health 0, so each account sends one.
SendResult(s, a) ==
    /\ pc[s] = "collect"
    /\ work[s][a] = "busy"
    /\ Len(results[s]) < ResultsCapacity
    /\ work' = [work EXCEPT ![s][a] = "sent"]
    /\ \E healthy \in BOOLEAN :
        results' = [results EXCEPT ![s] = Append(@, Result(a, healthy))]
    /\ UNCHANGED <<pc, number, scrapes, holder, next, vectors, sent,
                   scrapesFailed>>

Drain(s) ==
    /\ pc[s] = "collect"
    /\ \A a \in Accounts : work[s][a] = "sent"
    /\ Goto(s, "count")
    /\ UNCHANGED <<number, scrapes, holder, work, results, next, vectors,
                   sent, scrapesFailed>>

Failed(s) == Cardinality({i \in DOMAIN results[s] : ~results[s][i].healthy})

\* Mutant: half of an odd number is rounded down.
FailureThresholdDown == Cardinality(Accounts) \div 2

\* 50% or more, rounded up.
FailureThreshold == (Cardinality(Accounts) + 1) \div 2

\* Every error counts, a network error or not: what would tell them apart is
\* commented out.
CountFailures(s) ==
    /\ pc[s] = "count"
    /\ scrapesFailed' = IF Failed(s) >= FailureThreshold
                        THEN scrapesFailed + 1 ELSE scrapesFailed
    /\ Goto(s, "setHealth")
    /\ UNCHANGED <<number, scrapes, holder, work, results, next, vectors, sent>>

(***************************************************************************)
(* The loop over the results.                                              *)
(***************************************************************************)
AtResult(s) == next[s] <= Len(results[s])
current(s) == results[s][next[s]]
loopVars == <<number, scrapes, holder, work, results, scrapesFailed>>

\* With(labels).Set(value): the gauge of these labels is made or overwritten.
Put(vector, gauge) == {g \in vector : g.account # gauge.account} \union {gauge}

\* vector.Collect(ch): all the gauges that the vector holds are sent.
Send(s, name, vector) ==
    sent' = [sent EXCEPT ![s] = @ (+) SetToBag({Metric(name, g) : g \in vector})]

HealthGauge(result) == Gauge(result.account, IF result.healthy THEN 1 ELSE 0)
BalanceGauge(s, result) == Gauge(result.account, number[s])

SetHealth(s) ==
    /\ pc[s] = "setHealth" /\ AtResult(s)
    /\ health' = Put(health, HealthGauge(current(s)))
    /\ Goto(s, "sendHealth")
    /\ UNCHANGED <<loopVars, next, metrics, sent>>

SendHealth(s) ==
    /\ pc[s] = "sendHealth"
    /\ Send(s, "health", health)
    /\ Goto(s, "resetHealth")
    /\ UNCHANGED <<loopVars, next, vectors>>

NextResult(s) ==
    /\ Goto(s, "setHealth")
    /\ next' = [next EXCEPT ![s] = @ + 1]

ResetHealth(s) ==
    /\ pc[s] = "resetHealth"
    /\ health' = {}
    /\ IF current(s).healthy
       THEN Goto(s, "setBalance") /\ UNCHANGED next
       ELSE NextResult(s)
    /\ UNCHANGED <<loopVars, metrics, sent>>

SetBalance(s) ==
    /\ pc[s] = "setBalance"
    /\ metrics' = Put(metrics, BalanceGauge(s, current(s)))
    /\ Goto(s, "sendBalance")
    /\ UNCHANGED <<loopVars, next, health, sent>>

SendBalance(s) ==
    /\ pc[s] = "sendBalance"
    /\ Send(s, "balance", metrics)
    /\ Goto(s, "resetBalance")
    /\ UNCHANGED <<loopVars, next, vectors>>

\* Mutant: the balance vector is not reset.
ResetBalanceNot(s) ==
    /\ pc[s] = "resetBalance"
    /\ NextResult(s)
    /\ UNCHANGED <<loopVars, vectors, sent>>

ResetBalance(s) ==
    /\ pc[s] = "resetBalance"
    /\ metrics' = {}
    /\ NextResult(s)
    /\ UNCHANGED <<loopVars, health, sent>>

EndScrape(s) ==
    /\ pc[s] = "setHealth" /\ ~AtResult(s)
    /\ holder' = 0
    /\ Goto(s, "idle")
    /\ UNCHANGED <<number, scrapes, work, results, next, vectors,
                   sent, scrapesFailed>>

ScrapeStep(s) ==
    \/ Lock(s) \/ Drain(s) \/ CountFailures(s)
    \/ \E a \in Accounts : PickUp(s, a) \/ SendResult(s, a)
    \/ SetHealth(s) \/ SendHealth(s) \/ ResetHealth(s)
    \/ SetBalance(s) \/ SendBalance(s) \/ ResetBalance(s)
    \/ EndScrape(s)

Next == \E s \in Scrapers : BeginScrape(s) \/ ScrapeStep(s)

\* Reading a balance ends with the scrape's timeout at the latest, and
\* collectMutex is handed on to those who wait for it.
Fairness == \A s \in Scrapers : SF_vars(ScrapeStep(s))

Spec == Init /\ [][Next]_vars /\ Fairness

(***************************************************************************)
(* Properties.                                                             *)
(***************************************************************************)
Metrics == [name : {"health", "balance"}, account : Accounts, value : 0 .. MaxScrapes]

\* Types, and collectMutex: exactly the scrape that is past Lock has it.
TypeOK == /\ pc \in [Scrapers -> Places]
          /\ number \in [Scrapers -> 0 .. MaxScrapes]
          /\ scrapes \in 0 .. MaxScrapes
          /\ holder \in 0 .. MaxScrapes
          /\ work \in [Scrapers -> [Accounts -> {"queued", "busy", "sent"}]]
          /\ \A s \in Scrapers :
              /\ Len(results[s]) <= Cardinality(Accounts)
              /\ \A i \in DOMAIN results[s] :
                  results[s][i] \in [account : Accounts, healthy : BOOLEAN]
              /\ next[s] \in 1 .. Cardinality(Accounts) + 1
              /\ DOMAIN sent[s] \subseteq Metrics
          /\ health \subseteq [account : Accounts, value : {0, 1}]
          /\ metrics \subseteq [account : Accounts, value : 1 .. MaxScrapes]
          /\ scrapesFailed \in 0 .. MaxScrapes
          /\ \A s \in Scrapers : pc[s] \notin {"idle", "lock"}
                                   <=> holder # 0 /\ holder = number[s]

\* A scrape reports every account once, with its own readings and nothing
\* else: no metric twice (the registry would reject the whole scrape), none
\* left over from an earlier scrape, none that a concurrent scrape has read,
\* and no balance for an account that could not be read.
ScrapeReportsItsOwn ==
    \A s \in Scrapers : pc[s] = "idle" /\ number[s] # 0 =>
        LET read == {results[s][i] : i \in DOMAIN results[s]}
        IN  /\ {r.account : r \in read} = Accounts
            /\ sent[s] = SetToBag({Metric("health", HealthGauge(r)) : r \in read})
                         (+) SetToBag({Metric("balance", BalanceGauge(s, r)) :
                                          r \in {q \in read : q.healthy}})

\* The counter moves exactly for the scrapes of which at least half of the
\* accounts failed, for odd numbers of accounts as well.  This is what the
\* code does, not what is said of it: the metric's Help (collector.go:136) and
\* docs/Metrics.md:99 speak of failures due to network errors, but the test of
\* the error is commented out (collector.go:220), so every error counts.
CounterCountsHalf ==
    [][ \A s \in Scrapers : pc[s] = "count" /\ pc'[s] # "count" =>
            (scrapesFailed' = scrapesFailed + 1
               <=> 2 * Failed(s) >= Cardinality(Accounts)) ]_vars

\* A scrape that has begun ends, with others waiting for the same mutex and
\* more accounts than workers.
ScrapeEnds == \A s \in Scrapers : pc[s] = "lock" ~> pc[s] = "idle"
=============================================================================
