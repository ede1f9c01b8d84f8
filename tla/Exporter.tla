------------------------------ MODULE Exporter ------------------------------
(***************************************************************************)
(* The running exporter (cmd/main.go, from the start of the schedulers to  *)
(* the end of the process): the goroutine that starts the SchedulerManager *)
(* and main, which waits for an interrupt, closes the collectors of the    *)
(* Prometheus registry, stops the manager and then the HTTP server.        *)
(*                                                                         *)
(* Nothing else of the process ends gracefully: a failed Start, a server   *)
(* that cannot listen and a signal other than the interrupt end it where   *)
(* it stands, with whatever cycles are running.                            *)
(***************************************************************************)
EXTENDS SchedulerManager

CONSTANTS starter, main

ASSUME GoroutinesAssumption == Callers = {starter, main} /\ starter # main

VARIABLES
    place,          \* where main is
    launched,       \* the goroutine has called Start
    startError,     \* ... which returned an error
    open,           \* the nodes whose collector in promRegistry is open
    first           \* who had sm.mutex first: history

process == <<place, launched, startError, open, first>>

Ended == place \in {"exited", "dead"}

ProcessInit ==
    /\ Init
    /\ place = "serving"
    /\ launched = FALSE /\ startError = FALSE
    /\ open = Nodes
    /\ first = None

(***************************************************************************)
(* The goroutine of Start.                                                 *)
(***************************************************************************)
CallStart ==
    /\ ~launched
    /\ Call(starter) /\ op'[starter] = "start"
    /\ launched' = TRUE
    /\ UNCHANGED <<place, startError, open, first>>

StartIsFatal ==
    /\ startError
    /\ place' = "dead"
    /\ UNCHANGED <<work, launched, startError, open, first>>

(***************************************************************************)
(* main.                                                                   *)
(***************************************************************************)
Interrupt ==
    /\ place = "serving"
    /\ place' = "closing"
    /\ UNCHANGED <<work, launched, startError, open, first>>

\* Mutant: the manager and the registry share their collectors.
CloseCollectorShared ==
    /\ place = "closing" /\ open # {}
    /\ open' = open \ {FirstOf(open)}
    /\ closed' = closed \union {FirstOf(open)}
    /\ UNCHANGED <<op, calls, holder, running, schedulers, locals, objects, busy>>
    /\ UNCHANGED <<place, launched, startError, first>>

CloseCollector ==
    /\ place = "closing" /\ open # {}
    /\ open' = open \ {FirstOf(open)}
    /\ UNCHANGED <<work, place, launched, startError, first>>

CallStop ==
    /\ place = "closing" /\ open = {}
    /\ Call(main) /\ op'[main] = "stop"
    /\ place' = "stopping"
    /\ UNCHANGED <<launched, startError, open, first>>

\* Mutant: Stop is called in a goroutine of its own.
StopReturnedAtOnce ==
    /\ place = "stopping"
    /\ place' = "server"
    /\ UNCHANGED <<work, launched, startError, open, first>>

\* An error of Stop is logged.
StopReturned ==
    /\ place = "stopping" /\ op[main] = "idle"
    /\ place' = "server"
    /\ UNCHANGED <<work, launched, startError, open, first>>

\* The server has a second to answer what it has begun; then main returns.
StopServer ==
    /\ place = "server"
    /\ place' = "exited"
    /\ UNCHANGED <<work, launched, startError, open, first>>

\* server.Run returns an error, or a signal other than os.Interrupt comes.
Dies ==
    /\ place' = "dead"
    /\ UNCHANGED <<work, launched, startError, open, first>>

(***************************************************************************)
(* The manager's own steps.                                                *)
(***************************************************************************)
ManagerStep ==
    /\ \/ \E t \in Callers : CallStep(t)
       \/ \E i \in Schedulers : SchedulerStep(i) \/ BeginCycle(i) \/ EndCycle(i)
    /\ startError' = (startError \/ (/\ op[starter] = "starting" /\ op'[starter] = "idle"
                                     /\ ~running'))
    /\ first' = IF first = None THEN holder' ELSE first
    /\ UNCHANGED <<place, launched, open>>

MainStep == CloseCollector \/ CallStop \/ StopReturned \/ StopServer

ProcessNext ==
    /\ ~Ended
    /\ \/ CallStart \/ StartIsFatal
       \/ Interrupt \/ MainStep \/ Dies
       \/ ManagerStep
    /\ UNCHANGED refused

\* Goroutines that can go on do, as in SchedulerManager; a cycle that is stuck
\* cannot.
ProcessFairness ==
    /\ WF_<<work, process>>(~Ended /\ MainStep)
    /\ \A t \in Callers : SF_work(~Ended /\ ManagerStep /\ CallStep(t))
    /\ WF_work(~Ended /\ ManagerStep /\ \E i \in Schedulers : SchedulerStep(i))
    /\ WF_work(~Ended /\ ManagerStep
                 /\ \E i \in Schedulers : state[i] = "draining" /\ EndCycle(i))

ProcessSpec == ProcessInit /\ [][ProcessNext]_<<vars, process>> /\ ProcessFairness

(***************************************************************************)
(* Properties.                                                             *)
(***************************************************************************)
\* An interrupt leaves no refund half done: when main returns, every cycle
\* has ended and none will begin.  This needs that Start had the mutex before
\* Stop did; a Stop that comes first finds nothing to stop, and the process
\* ends with the cycles that Start brings about after it.
GracefulExit ==
    place = "exited" /\ first = starter => busy = {} /\ Dispatching = {}

\* While main closes the collectors of the registry, refunds go on reading
\* balances: the manager has collectors of its own, and closes them after the
\* last cycle that reads through them.
RefundsReadOpen == \A i \in busy : collectors[Name[node[i]]] \notin closed

\* Once interrupted the process ends, also when Start still has the mutex, or
\* has yet to ask for it.  That stands and falls with Stop of the schedulers:
\* one with a cron expression may get stuck, and then main never returns.
ShutdownCompletes == place = "closing" ~> Ended \/ Stuck # {}
=============================================================================
