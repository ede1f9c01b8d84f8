# Verification of blockchain-wallet-exporter

The exporter reads wallet balances from EVM, ERC20 and Cosmos nodes for
Prometheus, and tops up wallets from a faucet when they run low. The second part
moves money over an unreliable HTTP API from overlapping goroutines on a timer,
and is where most of this development looks.

All paths below are relative to the repository; `pkg/...` is `src/pkg/...` here.

## 1. Inventory

| Component | State it keeps | Operations | Hard behaviour |
|---|---|---|---|
| Faucet client, `pkg/faucet/faucet.go` | none between calls; in a call: attempt, session, result | `FundAccountWith...`, `startSession`, `claimReward`, `waitForConfirmation`, `GetSessionStatus` | retries against requests that may act late; a claim that outlives the call; four timeouts (HTTP, confirmation, cycle, back-off) |
| Refund cycle, `pkg/scheduler/scheduler.go` | event channel, deadline | `executeRefundCheck`, `processAccounts`, `processAccount`, `cycleTimeout` | cron does not wait for the cycle before; amounts computed from balances that move; a channel read only at the end |
| Refund scheduler, same file | `running`, `mutex`, cron entries, context, collector | `Start`, `Stop`, `IsRunning`, `GetNextRun`, `scheduleInterval` | `Stop` waits for jobs while it has the write lock; jobs that need the read lock |
| Scheduler manager, `pkg/scheduler/manager.go` | maps of schedulers, collectors and faucet clients by node name; `running`, `mutex` | `Start`, `Stop`, `RestartNodeScheduler`, getters | partial failure of `Start`; restarts; names as keys; collectors closed twice and reused |
| Base collector, `pkg/collector/collector.go` | two shared gauge vectors, a counter, `collectMutex` | `Collect`, `collectMetrics` | concurrent scrapes over the same vectors; a result channel read only at the end; the 50% threshold |
| EVM, ERC20, Cosmos collectors, `pkg/collector/collector_*.go`, `factory.go` | an RPC connection | constructors, `CollectAccountBalance`, `Close` | what the constructors require and validation does not |
| Currency registry, `pkg/currency` | units and conversion factors | `Register`, `Get`, `Convert`, `EnsureUnitPair` | shared by all nodes while it is filled from token metadata; symbols that collide |
| ERC20 client, `pkg/erc20` | an RPC connection | metadata, balance, `ResolveUnits` | RPC failure at startup |
| Configuration and validation, `pkg/config`, `pkg/validation` | none | `Normalize`, `ValidateConfig` | what is not rejected: equal node names, equal addresses, schedules, labels |
| Exporter process, `cmd/main.go` | what it has built so far | startup and shutdown | `Start` in a goroutine; the order in which things are closed; everything but an interrupt kills |
| HTTP server, `pkg/server/http` | none | `Run`, `Stop` | cannot listen |
| logger, version | none of interest | | |

How they interact. `main` builds one collector per node for the Prometheus
registry and, for refunds, a `SchedulerManager`, which builds a second collector
per node. The manager starts one `RefundScheduler` per node. Cron calls
`executeRefundCheck` in a goroutine for each activation; that computes a deadline,
hands the accounts to up to 20 workers, and each worker reads a balance through
the node's collector and may make one blocking call of the faucet client.
Prometheus handlers call `Collect` concurrently. Shared state is guarded by three
mutexes (`sm.mutex`, `rs.mutex`, `collectMutex`), always taken in the order
`sm.mutex`, `rs.mutex`.

What makes each part correct:

* Faucet client: one call pays once at most; success means paid (or queued, for
  a caller that did not want to wait); a final failure stays one; the call returns.
* Cycle: cycles do not overlap; no refund goes past the target; every cycle ends;
  timeouts leave room for what they have to cover.
* Scheduler: `Stop` returns, after it no cycle runs; no cycle works with a closed
  collector; one cron entry.
* Manager: one scheduler at work per node; a stopped manager is quiet; every
  call returns, whichever schedulers failed to start, as long as no scheduler gets stuck in its
  `Stop`; a scheduler reads its own node.
* Collector: a scrape reports every account once, with its own readings; the
  failure counter moves from half of the accounts on (it claims to count network errors only,
  which is not so, see section 3); every scrape ends.
* Registry and configuration: whatever is let through converts, both ways and by
  the right factor; every account has a series of its own; a sound configuration
  starts; what is wrong shows before anything is contacted.
* Process: an interrupt ends it, unless a scheduler gets stuck, without a refund left half done.

The hazards behind these are listed, each at its line and with the properties
that cover it, in `PROJECT.json`.

## 2. Modules

| Module | Models | Composes |
|---|---|---|
| `FundingCall` | the contract of one faucet call: what the caller was told, what was paid | |
| `FaucetClient` | one call of `FundAccountWithRetriesAndOptionsAndContext`, request by request | implements `FundingCall` |
| `CycleTiming` | `cycleTimeout` and the timing of `waitForConfirmation` as operators | |
| `RefundCycle` | the cycles of one node, with a clock, cron, balances and the faucet | extends `CycleTiming`, one instance of `FundingCall` per cycle and account |
| `SchedulerLife` | the contract of a scheduler: when cycles may begin, what `Stop` waits for | |
| `RefundScheduler` | `Start`, `Stop`, the readers and the jobs around `rs.mutex` | implements `SchedulerLife`; its job stands for a cycle of `RefundCycle` |
| `SchedulerManager` | the manager's calls around `sm.mutex` | each of its schedulers lives as `SchedulerLife` says |
| `Collector` | `Collect` under concurrent scrapes | |
| `UnitRegistry` | the currency registry and `EnsureUnitPair` as operators | |
| `Startup` | `main` up to the server: normalization, validation, units, collectors, start of the schedulers | extends `UnitRegistry` and `CycleTiming` |
| `Exporter` | `main` from the start of the schedulers to the end of the process | extends `SchedulerManager` |
| `FaucetClientProofs`, `RefundCycleProofs`, `RefundSchedulerProofs`, `SchedulerManagerProofs`, `StartupProofs`, `CollectorProofs` | theorems about the module of that name | |
| `RefundTargetProofs` | why no refund goes past its target | extends `RefundCycleProofs` |
| `ExporterProofs` | the end of the process | extends `SchedulerManagerProofs` |
| `MC...` | instances for TLC | |

### From code to state and actions

**FaucetClient.** `pc`, `attempt` and `result` are the position, the loop variable
and the `FaucetResult`/error of the call. A session is named by the attempt
whose `startSession` made it, so that a second session can be told from the
first. `net` holds requests and answers; the client's `StartFails` and
`ClaimFails` leave a request in it, so the faucet may act on it at any later
time, also after the call has returned. `server` is what the faucet knows of
each session: its `status` and `claimStatus` as one value. The pauses, the HTTP
timeout and the confirmation timeout are choices: a step that waits for time
may happen at any moment. The context may end at any moment
(`ContextExpires`). A poll that fails or sees a claim in progress
leaves everything as it is and is not a step; a poll reads `server` directly,
because the states a poll acts upon are final. The faucet is external and is
modelled from the fields the client reads.

`wait` is the caller's `WaitForConfirmation`, chosen once.

**CycleTiming.** `cycleTimeout` with its branches in order: the minimum is the
sum of the attempts, the back-off and a buffer; the larger of it and the
configured timeout; cut to the interval less the margin if the interval is known
and larger than the margin. `ConfirmationTimeout` and `AdaptivePoll` are
`waitForConfirmation`'s.

**RefundCycle.** `now` is a discrete clock, `nextRun` the schedule. `Gaps` are the pauses that cron
makes, and `Period` is what the program takes for them with an `@every` schedule: cron drops the fraction
of a second of a duration, `scheduleInterval` does not. `Fire` creates
a cycle's goroutine, `StartCycle` is `executeRefundCheck` up to the workers,
`PickUp` is `flowmatic.Each` giving an account to a worker, `CollectFails` and
`Examine` are `processAccount` up to the faucet call, `FundReturns` the return
of that call, `SendEvent` the send on `eventChan`, `EndCycle` the rest. `Examine`
reads the balance and fixes the amount; balances move afterwards by payouts
(`Settle`) and withdrawals. A call of the faucet is seen through `told` and
`payout`, the two variables of `FundingCall`. `Crash` is the death of the process
and its restart: all cycles are gone, the schedule is computed anew, and the
calls that were in progress and whose claim was not settled are in `lost`, because
the faucet may still accept and pay their claims. `NeverOverTarget` allows an account
what these have paid it late (`LatePayouts`) and nothing else. The restart is one step with the crash, since nothing
happens in between that the new process could know of.

**RefundScheduler.** `op` is each caller's position, `job` each cycle's. A
`sync.RWMutex` is three variables, because it matters that a writer who waits
keeps new readers out. `StopCron` is `Stop` up to `<-ctx.Done()`, and
`StopDrained` from there on. `CallStart` and `CallStop` have the guards that the
manager's mutex gives. `every` says of which kind the schedule is, and is chosen once.

**SchedulerManager.** `op` and `holder` are the callers and `sm.mutex`;
`schedulers` is the map by name; `collectors` is constant after
`NewSchedulerManager`, with the later of two nodes of a name in place of the
earlier. Every scheduler ever built has a number, so that one the map has
lost can still be seen. `StopCron` and `StopDrained` are `RefundScheduler.Stop`
from outside. The nodes of `Every` have an `@every` schedule; a scheduler of any other node that is stopped
while a cycle is about may be `stuck`, the deadlock of `scheduler_stop`: from then on its cycle does not
end, its `Stop` does not return, and the caller keeps `sm.mutex`. The loop of `Start` is one `StartNode` step per node. `refused` are
the nodes whose schedule cron does not accept, any subset of those with
refunds.

**Collector.** `pc`, `work` and `results` are a scrape's position, its workers and
its results; `health` and `metrics` are the shared vectors. Each of set, collect
and reset is a step, so that without `collectMutex` two scrapes would
interleave there. A balance is named by the scrape that read it.

**UnitRegistry.** A registry is a function from unit names to the exponents of
their `ConversionTo`: all rates of the code are powers of ten, so that reversing
one is negating its exponent. `Lower` and `Trim` are `strings.ToLower` and
`strings.TrimSpace` on the names of the instance. `Converts` takes the unit
converted from in any case and the unit converted to literally, as `Convert` does.

**Startup.** `file` is the configuration as written, `nodes` what the program has
made of it, `stage` and `cursor` where `main` is, `metrics` what is in the Prometheus
registry, `collectors` and `schedulers` the manager's maps by name (each name with
the node it stands for), `failure` what ended the process. Each validator of
`pkg/validation` is an operator of its name that says whether it reports nothing.
`ResolveUnits` and `BuildCollector` are the body of the loop over the nodes;
`ConstLabels` and `Registrable` say which label sets the Prometheus registry takes.
A string is what the code asks of it: a URL is its scheme, an address is in
checksum form or not, an environment variable is its value. `StartSchedulers` runs
in a goroutine, beside `Serve`. The network can fail at every call (`MetadataFails`,
`ListenFails`).

**Exporter.** `starter` and `main` are the two callers of `SchedulerManager`, whose
variables and actions are used as they are. `place` is where `main` is; `open` are
the collectors of the Prometheus registry, which are not those of the manager;
`first` records who had the manager's mutex first. `Dies` stands for every end
of the process but the interrupt.

## 3. What is checked

| Run | Question | Bounds |
|---|---|---|
| `faucet_calls` | types, one claim at most, honest success, final failure, termination, contract; for callers that wait and callers that do not | `MaxRetries` 0, hence the default of 4 attempts |
| `cycle_cron` | types, no overlap, no refund past the target, contract, end of cycles, with uneven gaps, a threshold above the target, and a crash at any point | 2 accounts, 1 worker, 2 cycles, 1 withdrawal, 1 crash |
| `scheduler_locks` | lifecycle with both kinds of schedule; `Stop` returns with an `@every` schedule; no deadlock but the one of `scheduler_stop`; implements `SchedulerLife` | 3 callers, 2 jobs; no bound on the number of calls |
| `manager_calls` | types, quiet when stopped, one scheduler per node, no scheduler revived, calls return unless a scheduler is stuck, for every set of refused schedules | 2 callers, 4 nodes (one disabled, two with `@every`), 4 calls |
| `collector_scrapes` | scrapes report their own readings, move the counter from half of the accounts on, and end | 2 scrapers, 3 accounts, 2 workers, 2 scrapes |
| `startup` | units, series, names, the retries' time, polls and start of every configuration | about 900 files, see below |
| `exporter` | an interrupt ends the process unless a scheduler is stuck, and no refund half way | 3 nodes, 2 with refunds, one of them with `@every`, all sets of refused schedules, one `Start` and one `Stop` |

Why the bounds are enough. Two attempts are needed for a duplicate, a third for
a retry after a retry, and four are what the scheduler gets. Two cycles are needed
for an overlap or for payouts that add up, and the crash makes of a cycle's calls
what a third cycle would. Fewer workers than accounts is
what fills a channel that is sized for the workers. Three callers are a reader, a
writer who waits for it, and another who waits for that one; a second
job is what overlaps. Four calls are a start, a restart, a stop and
another start, from either goroutine. Three accounts make half of them a matter
of rounding. Times in `RefundCycle` are scaled: margin 3, minimum
timeout 4, gaps of 5 that cut it and of 7 that may not, with start and end delays of 1.
`cycle_late` has an `@every` schedule and two workers; what cron drops of a period (`Period` above the gap) is
left to the theorem `CyclesDoNotOverlap`.

The files of `startup` are: every node that a validator should reject, for each of
its reasons; every variant that they accept (28, among them nodes that cannot
work), alone and in all ordered pairs, which is what collisions of names, labels, symbols and
registry entries need; and a node with 78 combinations of a timeout and an interval
at and around every threshold of `cycleTimeout`, in half seconds and with the
code's constants. Names, labels, symbols and rates collide between two nodes at a time, so that a third
adds no case of its own.

The bounds `MaxCycles`, `MaxWithdrawals`, `MaxCrashes`, `MaxCalls` and `MaxScrapes` make
the systems stop, a process that has ended or serves does nothing more, and `Stop` of a
scheduler may really block; so only the runs of `FaucetClient` check for deadlock.

### Where code and text disagree

Each of these runs has a counterexample, and quotes the text in `PROJECT.json`.

| Run | What happens |
|---|---|
| `scheduler_stop` | `Stop` deadlocks with a cycle of a cron-expression schedule: it waits for jobs with the write lock that `scheduleInterval` wants to read under |
| `manager_restart` | a restarted scheduler gets the collector that stopping the old one closed (it matters for Cosmos, whose connection is then gone) |
| `faucet_repoll` | the re-poll is also reached for a session that was never claimed |
| `cycle_late` | a claim in flight is paid on top of the next cycle's refund |
| `startup_early` | a validated configuration ends the process after nodes have been contacted: no labels, clashing labels, blank units, tokens without metadata, schedules that cron refuses |

These have no run of their own, although the code does not do what its text says:

* the counter of failed scrapes is said to count "scrape attempts where 50% or more accounts failed due to network
  errors" (its Help, `pkg/collector/collector.go:136`; also line 248 and `docs/Metrics.md:99`). The test
  of the error is commented out ("TODO: Uncomment this when we have a way to detect network errors", line 220), and errors of any
  kind count: a contract call that a reachable node refuses for half of the accounts moves the
  counter. `CounterCountsHalf` states what the code does;
* "Safety margin to prevent cycle overlap" (`pkg/scheduler/scheduler.go:21`) and "Cap timeout to interval minus safety
  margin to prevent overlap" (line 522): an interval of at most the margin is not capped at all, so that a cycle gets its 84 s or
  more and the next ones start meanwhile. No validator asks for a longer interval. `NoOverlap` is therefore shown
  under `RoomForMargin`;
* "Stop stops all running schedulers" (`pkg/scheduler/manager.go:137`): of two nodes with one name, which no validator rejects,
  the manager keeps one scheduler, and the other goes on after `Stop`. The runs and the theorems
  about the manager are for distinct names. Such nodes also share a collector, so that one is refunded from the other's
  balances, which `SchedulersReadTheirNode` excepts.

What else was noticed while modelling is among the hazards, with the reason why no run has it: two accounts with one address are refunded twice in one
cycle; four `startSession` requests of 30 s do not fit a cycle of 84 s. Besides:

* the example of a schedule in `pkg/config/config.go:29` has five fields, and cron is made
  with `WithSeconds`, which refuses them;
* the repository's README allows units to be configured by hand when a contract lacks the metadata
  methods (line 172), and `ResolveUnits` calls `symbol()` and `decimals()` all the same;
* its ERC20 examples have no labels, which is a write to a nil map, and no
  `httpSSLVerify`, which validation asks for with `https`;
* `unit: eth` is accepted for an EVM node, whose RPC answers in wei;
* two tokens with one symbol and different decimals overwrite each other's factor, which
  `BalancesConvert` excepts (`TokensAgree`);
* Cosmos accounts of one name and address share a series, which
  `EveryAccountHasItsSeries` excepts, and their thresholds are not validated;
* the EVM collector sends user and password as they are where the ERC20 client
  encodes them.

### Assumptions about the environment, and fairness

* `FaucetClient`: weak fairness of the call's steps together, since its goroutine
  runs. It is enough because every wait of the code ends: the HTTP client has a
  timeout, a confirmation has one, and so has a pause. Nothing is assumed
  of the faucet, of the network or of the caller's deadline. The disjunction is fair as a whole,
  and there is no loop in the model that a poll could make.
* `RefundCycle`: weak fairness of each cycle's steps. Time does not pass beyond the
  point where a goroutine must have started (`Skew`) or where work must have
  stopped after its deadline (`Lag`): every operation of a cycle takes the cycle's
  context. `PromptFaucet` says that no claim outlives its call; without it
  `NeverOverTarget` fails (`cycle_late`).
* `RefundScheduler`, `SchedulerManager`, `Collector`: strong fairness of each
  goroutine, because Go's mutexes do not starve a waiter. In `SchedulerManager` a
  cycle that a stop waits for ends if the scheduler is not stuck: such a cycle is past the mutex that its
  `Stop` holds, or has an `@every` schedule and does not need it, and then `CycleEnds` of `RefundCycle` applies. Of a
  stuck scheduler's cycle nothing is assumed, and `CallsReturn` says `\/ Stuck # {}`. In
  `Collector` a reading ends with the scrape's timeout at the latest.
* `SchedulerManager`: the nodes of the runs have names of their own.
* `Startup`: weak fairness of `main` and of the goroutine that starts the schedulers;
  none of the network, so that `SoundConfigStarts` ends in serving or in a network failure.
* `Exporter`: that of `SchedulerManager`, and weak fairness of `main`. An interrupt need not come.
  `ShutdownCompletes` holds up to a scheduler that is stuck: `Stop` of each scheduler comes back with an `@every`
  schedule (`scheduler_locks`) and need not with a cron expression (`scheduler_stop`), and then main waits forever.
* The crash in `RefundCycle` is never fair; after it the faucet may pay at any time or never.

## 4. What is proved

TLAPS checks every proof; the theorems hold for all values of the constants that
satisfy the named assumptions.

**FaucetClientProofs** (assumes only that `MaxRetries` is an integer).
`NoDuplicateFunding` is not inductive: that only one
session is claimed says nothing of the answers still in the network. `IInv` adds

* `Phase`: where the call is determines whether it knows a session, and that it is
  the current attempt's;
* `Claims`: only the session the call knows can have been claimed, and only
  from the point where a claim request is sent;
* `Starts`: requests and answers belong to attempts already made;
* `Verdicts`: what the result says is what the faucet has finally decided.

Theorems `TypeCorrect`, `OneClaimPerCall`, `SuccessIsBacked` and
`FailureIsLastWord` follow, and `Refinement` shows every step to be a step or a
stutter of `FundingCall`.

**RefundCycleProofs.** `CyclesDoNotOverlap`: if the delays of start and end are
together less than the margin and every gap has room for the margin
(`RoomForMargin`), with an `@every` schedule also for what cron drops of its period, cycles never overlap. The invariant orders cycles in time: a
later cycle fires after the deadline, and the lag, of all earlier ones; the
lemma `TimeoutLeavesMargin` about `CycleTimeout` is what makes it so. Without
`RoomForMargin` the theorem is false: an interval that does not exceed the margin
leaves the timeout as it is, and the next cycle starts before it is over.
`TypeCorrect` shows amounts and balances to be numbers that are not negative, which is what
`Examine` checks for, and the events to fit the channel.
`CallsAreFundingCalls` shows the calls of every cycle, also those that a crash
cuts short, to follow `FundingCall`; the invariant `Unanswered` says that a call
still in progress has not been told anything.

**RefundTargetProofs.** `RefundsStayWithinTarget`: no refund lifts an account past its target by more
than what calls that a crash cut short have paid it late. It assumes `RoomForMargin`;
`PromptFaucet`, without which it is false (`cycle_late`); and `OwnAddresses`, without which two workers
refund one address (see the hazards). The property is about a step, so the invariant has to say what any
claim that is still open would do: `Within`, that the balance and the amount of a call in progress fit under the
target, and that the balance does for an account with a claim that is late. `Claimed` says which
claims can be open at all: those of a call in progress, of which an account has one since cycles do not
overlap, and those in `lost`. `LatePayouts` is a sum over the cycles by a recursive function; the lemma
`SumsOf` says that it exists and is a sum, and `SumGrows` what one more late payout does to it. Induction
over the naturals is used in the form of `Induction`, about a set instead of an operator, which follows from
the library's `WFMin`.

**RefundSchedulerProofs.** `TypeCorrect`, `StopQuiesces`, `CollectorOutlivesCycles` and
`StartRegistersOnce`, for any number of callers and jobs and both kinds of
schedule. The invariant says in addition which caller may be where given
`running`, `cronOn` and `entries`: only the writer changes them. `NoOtherDeadlock` settles how far the
finding of `scheduler_stop` goes: when nobody can go on, `Stop` waits with the write lock for a job that needs
the read lock, which takes a cron expression; nothing else about the mutex can get stuck. It speaks of
what each goroutine waits for (`MayGoOn`, `JobMayGoOn`) in place of `ENABLED`. `Refinement` uses the invariant
to map every step to a step or a stutter of `SchedulerLife`.

**SchedulerManagerProofs.** `TypeCorrect`, `StoppedMeansQuiet`, `OneAtATime` and
`LivesOnce`, for any callers, nodes, bounds and refused schedules, assuming
`NamesDistinct`: with a shared name the map loses a scheduler, which a `Stop` then leaves running
and a restart duplicates. The
invariant relates the map to the schedulers that are alive. `Slots`: the scheduler kept under a name is
one that was built for the node of that name. `Kept`: whatever is alive is kept.
`Fresh`: what has not been built has done nothing. `Idle`: without `running` the map is empty
but for what a `Start` on its way has put there. `Rebuilds`: the name being restarted is vacant when the
new scheduler is built. `LivesOnce` adds `Serving`, that a scheduler told to stop is still at work.

**StartupProofs.** `RegistryRoundTrip`: `Reciprocal` is preserved by `EnsureUnitPair` for any names and
decimals, since the registry's keys are in lower case. `AccountsDoNotCollide`: what
the validators ask of a node's account names holds of every node served, and the
constant labels of two nodes served differ. `RetriesKeepTheirBudget` and
`WaitsPoll`: the arithmetic of `CycleTiming` for the schedules and timeouts of any configuration. The sum of
the pauses is a recursive function; `BackoffSums` shows that one exists by giving its closed form, a sixth of
n(n + 1)(2n + 1).

`StartupTypeCorrect` and `SchedulersReadTheNodeTheyRefund` rest on two more invariants. `LoopInv`: the nodes
served are those before the cursor, and the list of nodes never changes its length. `ManagerInv`: the
manager's two maps are made of the nodes as they are now, because no node is changed after the manager exists;
a name that one node has then leads to that node.

`ServedNodesConvert` is the longest argument. `BalancesConvert` says nothing of what is in the registry
otherwise, so that a later token could undo it; `RegistryInv` adds that the keys are in lower case and without
blanks, so that a unit is found under the very name that a node keeps (`FoundMeansTrimmed`); that nothing is
ever removed; and where each rate comes from, the defaults or a token that has been resolved
(`ByDefault`, `ByToken`). The lemma `EnsureUnitPairWrites` is the contract of `EnsureUnitPair`: which rates it writes, and
that all others stay. `TokensAgree` then leaves one origin for the rate between the units of a node.

Assumed of the constants is what `UnitNamesAssumption`, `TokenAssumption`, `ConfigsAssumption` and `NilAssumption`
say: lower case and trimming are idempotent and commute, as `strings.ToLower` and `strings.TrimSpace` do; a token's
names are strings and its decimals a byte; a file has the fields that the program reads, with numbers where it has
numbers.

**CollectorProofs.** `HalfIsCounted`, for any number of accounts, scrapers and workers: the counter
moves exactly when half of the accounts, rounded up, have failed. The lemma `HalfRoundedUp` is the
arithmetic, and `Counted` the part of the types that it needs. `ScrapeTypeCorrect` and
`ScrapesReportTheirOwn`, without further assumptions: what a scrape says at its end depends on what the shared
vectors held at each send, so `SInv` follows a scrape all along. `Mutex` and `Vectors`: only the holder of
`collectMutex` is in the loop over the results, and the vectors are empty but for the gauge of the result in hand.
`Answered`: the results are one of each account that has answered. `Reported`: what has been sent so far is one
metric of each kind for the results that are behind the loop. `Numbered`: no two scrapes have the same number, so
that a reading names its scrape.

**ExporterProofs.** `ExitIsGraceful` and `RefundsKeepCollectors`, over the invariant of `SchedulerManagerProofs`
and with its `NamesDistinct`; `ProcessUsesManager` shows the steps of the process to be steps of the manager's users. Neither is inductive, since
the manager alone may be started again after a `Stop`. `Roles` says that here it may not: one goroutine
starts, main stops, once each. `History` and `StopSecond` relate who had the mutex first to what a `Stop` that is over has
left; `StartedOnce` and `OpenNodes` say that collectors are closed only by the one `Stop` that found
schedulers to stop, after their last cycle.

Every invariant and action property that a passing run checks is stated by a theorem. `LivesOnce` covers schedulers that are
stuck, which for `SchedulerLife` drain for ever. Only model-checked: liveness
(`CallReturns`, `CycleEnds`, `EveryStopReturns`, `CallsReturn`, `ScrapeEnds`, `SoundConfigStarts`,
`ShutdownCompletes`), which rests on fairness and `ENABLED` and which the provers do not treat.

## 5. What is not modelled

* Float arithmetic: amounts are whole base units and rates are exponents. The rounding of
  `float64` in `Convert`, and of balances beyond 2^53, is out of TLC's reach.
* The contents of RPC answers, TLS and authorization: a call succeeds or fails.
* YAML syntax, logging and the version: no state that a property could be about.
* A signal handler that the runtime installs for others than the interrupt: `Dies` stands
  for all of them.
* Getters of the manager, which change nothing, and `IsNodeUnreachable`, whose only call is commented out.

## 6. Plan

Done: `FundingCall`, `FaucetClient`, `CycleTiming`, `RefundCycle` with crashes, `SchedulerLife`,
`RefundScheduler`, `SchedulerManager`, `Collector`, `UnitRegistry`, `Startup`, `Exporter`, and the eight
modules of proofs, with a theorem for every safety property
of the passing runs.

Next:

1. What liveness rests on, as invariants that can be proved, for `SchedulerManager` and `Collector` as
   `NoOtherDeadlock` has it for `RefundScheduler`: whoever waits for the mutex, its holder can go on, or
   waits for cycles or readings that are in progress.
2. `OneSchedulerPerNode` and `StoppedIsQuiet` without `NamesDistinct`, for the nodes whose name is their own.
3. `SoundConfigStarts` by its safety part: under `Sound`, no step of the process but a network failure ends it.
