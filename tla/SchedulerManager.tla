-------------------------- MODULE SchedulerManager --------------------------
(***************************************************************************)
(* The SchedulerManager (pkg/scheduler/manager.go): goroutines that start  *)
(* and stop all the schedulers, or restart the one of a node, under one    *)
(* mutex.  The manager keeps schedulers and collectors in maps keyed by    *)
(* the name of the node.                                                   *)
(*                                                                         *)
(* A scheduler is seen from outside, as RefundScheduler describes it: once *)
(* started it has cycles, and stopping it lets the running ones end and    *)
(* then closes its collector.  A schedule that is not "@every d" may get    *)
(* stuck there: Stop waits for a cycle that waits for the lock Stop has.   *)
(***************************************************************************)
EXTENDS Naturals, FiniteSets

CONSTANTS
    Callers,        \* goroutines that use the manager
    NodeCount,      \* the nodes of the configuration are 1 .. NodeCount
    Names,          \* node names that callers use
    Name,           \* node -> its name
    Enabled,        \* nodes with auto-refund enabled
    Every,          \* nodes whose schedule is "@every d"; the others have a
                    \*   cron expression
    MaxCalls,       \* bound on the number of calls
    None

Nodes == 1 .. NodeCount

\* A scheduler is named by its serial number; a call builds one for each node
\* at most.
Schedulers == 1 .. MaxCalls * NodeCount

ASSUME NodesAssumption ==
    /\ NodeCount \in Nat \ {0} /\ MaxCalls \in Nat
    /\ Name \in [Nodes -> Names]
    /\ Enabled \subseteq Nodes /\ Every \subseteq Nodes
ASSUME NoneAssumption == None \notin Callers /\ None \notin Schedulers

VARIABLES
    refused,        \* nodes whose schedule cron does not accept
    op,             \* caller -> the point it has reached in a call
    calls,          \* how many calls there have been
    holder,         \* who has sm.mutex
    running,        \* sm.running
    schedulers,     \* sm.schedulers: name -> scheduler
    target,         \* the name given to RestartNodeScheduler
    cursor,         \* the node that Start's loop is at
    started,        \* schedulersStarted > 0
    built,          \* how many schedulers have been built
    node,           \* scheduler -> its node
    state,          \* scheduler -> where it is in its life
    busy,           \* the schedulers with a cycle in progress
    closed          \* the nodes whose collector has been closed

locals == <<target, cursor, started>>
objects == <<built, node, state>>
work == <<op, calls, holder, running, schedulers, locals, objects, busy, closed>>
vars == <<refused, work>>

Waiting == {"start", "stop", "restart"}
Inside == {"starting", "stopping", "waiting", "restarting", "replacing", "rebuilding"}
States == {"unbuilt", "rejected", "active", "stopping", "draining", "stuck",
           "stopped"}

\* Cron starts cycles for these.
Dispatching == {i \in Schedulers : state[i] \in {"active", "stopping"}}

\* Stop has rs.mutex, and waits for a cycle that is about to read under it.
Stuck == {i \in Schedulers : state[i] = "stuck"}

WithName(name) == {n \in Nodes : Name[n] = name}
LastOf(S) == CHOOSE n \in S : \A m \in S : m <= n
FirstOf(S) == CHOOSE n \in S : \A m \in S : n <= m

\* NewSchedulerManager makes a collector for every node; the one of a later
\* node takes the place of that of an earlier node with the same name.
collectors == [name \in {Name[n] : n \in Nodes} |-> LastOf(WithName(name))]

Init == /\ refused \in SUBSET Enabled
        /\ op = [t \in Callers |-> "idle"]
        /\ calls = 0
        /\ holder = None
        /\ running = FALSE
        /\ schedulers = [name \in Names |-> None]
        /\ target \in Names /\ cursor = 1 /\ started = FALSE
        /\ built = 0
        /\ node = [i \in Schedulers |-> 1]
        /\ state = [i \in Schedulers |-> "unbuilt"]
        /\ busy = {}
        /\ closed = {}

Goto(t, place) == op' = [op EXCEPT ![t] = place]

\* The mutex is released by a deferred call, on every way out.
Return(t) == Goto(t, "idle") /\ holder' = None

(***************************************************************************)
(* The calls, and the mutex they begin with.                               *)
(***************************************************************************)
Call(t) ==
    /\ op[t] = "idle" /\ calls < MaxCalls
    /\ calls' = calls + 1
    /\ \E which \in Waiting : Goto(t, which)
    /\ UNCHANGED <<holder, running, schedulers, locals, objects, busy, closed>>

Lock(t) ==
    /\ op[t] \in Waiting
    /\ holder = None
    /\ holder' = t
    /\ Goto(t, CASE op[t] = "start" -> "starting"
                 [] op[t] = "stop" -> "stopping"
                 [] op[t] = "restart" -> "restarting")
    /\ target' \in Names
    /\ cursor' = 1 /\ started' = FALSE
    /\ UNCHANGED <<calls, running, schedulers, objects, busy, closed>>

\* Mutant: a refused call keeps the mutex.
RefuseLocked(t) ==
    /\ \/ op[t] = "starting" /\ running /\ cursor = 1
       \/ op[t] \in {"stopping", "restarting"} /\ ~running
    /\ Goto(t, "idle")
    /\ UNCHANGED <<calls, holder, running, schedulers, locals, objects, busy, closed>>

\* Start of a manager that is running, Stop and RestartNodeScheduler of one
\* that is not.
Refuse(t) ==
    /\ \/ op[t] = "starting" /\ running /\ cursor = 1
       \/ op[t] \in {"stopping", "restarting"} /\ ~running
    /\ Return(t)
    /\ UNCHANGED <<calls, running, schedulers, locals, objects, busy, closed>>

(***************************************************************************)
(* createNodeScheduler and RefundScheduler.Start.  A schedule that cron    *)
(* refuses leaves a scheduler behind that nobody keeps.                    *)
(***************************************************************************)
BuildAndStart(n) ==
    /\ built + 1 \in Schedulers
    /\ built' = built + 1
    /\ node' = [node EXCEPT ![built + 1] = n]
    /\ IF n \in refused
       THEN /\ state' = [state EXCEPT ![built + 1] = "rejected"]
            /\ UNCHANGED schedulers
       ELSE /\ state' = [state EXCEPT ![built + 1] = "active"]
            /\ schedulers' = [schedulers EXCEPT ![Name[n]] = built + 1]

(***************************************************************************)
(* Start: a node whose scheduler cannot be started is skipped.             *)
(***************************************************************************)
StartNode(t) ==
    /\ op[t] = "starting" /\ ~running
    /\ cursor \in Nodes
    /\ cursor' = cursor + 1
    /\ \/ /\ cursor \notin Enabled
          /\ UNCHANGED <<schedulers, objects, started>>
       \/ /\ cursor \in Enabled
          /\ BuildAndStart(cursor)
          /\ started' = (started \/ cursor \notin refused)
    /\ UNCHANGED <<calls, op, holder, running, target, busy, closed>>

\* Mutant: Start keeps the mutex.
StartEndsLocked(t) ==
    /\ op[t] = "starting" /\ ~running
    /\ cursor = NodeCount + 1
    /\ running' = started
    /\ Goto(t, "idle")
    /\ UNCHANGED <<calls, holder, schedulers, locals, objects, busy, closed>>

StartEnds(t) ==
    /\ op[t] = "starting" /\ ~running
    /\ cursor = NodeCount + 1
    /\ running' = started
    /\ Return(t)
    /\ UNCHANGED <<calls, schedulers, locals, objects, busy, closed>>

(***************************************************************************)
(* RefundScheduler.Stop, in a goroutine of its own for each scheduler when *)
(* the manager stops them all.                                             *)
(***************************************************************************)
\* A cycle in progress has read the interval of its schedule, or has yet to,
\* for which it takes rs.mutex unless that is "@every d".
StopCron(i) ==
    /\ state[i] = "stopping"
    /\ \/ state' = [state EXCEPT ![i] = "draining"]
       \/ /\ i \in busy /\ node[i] \notin Every
          /\ state' = [state EXCEPT ![i] = "stuck"]
    /\ UNCHANGED <<calls, op, holder, running, schedulers, locals, built, node, busy,
                   closed>>

\* Mutant: Stop does not wait for the jobs.
StopDrainedAtOnce(i) ==
    /\ state[i] = "draining"
    /\ state' = [state EXCEPT ![i] = "stopped"]
    /\ closed' = closed \union {collectors[Name[node[i]]]}
    /\ UNCHANGED <<calls, op, holder, running, schedulers, locals, built, node, busy>>

StopDrained(i) ==
    /\ state[i] = "draining" /\ i \notin busy
    /\ state' = [state EXCEPT ![i] = "stopped"]
    /\ closed' = closed \union {collectors[Name[node[i]]]}
    /\ UNCHANGED <<calls, op, holder, running, schedulers, locals, built, node, busy>>

Registered == {schedulers[name] : name \in Names} \ {None}

StopAll(t) ==
    /\ op[t] = "stopping" /\ running
    /\ state' = [i \in Schedulers |->
                    IF i \in Registered THEN "stopping" ELSE state[i]]
    /\ Goto(t, "waiting")
    /\ UNCHANGED <<calls, holder, running, schedulers, locals, built, node, busy, closed>>

\* Mutant: there is no wg.Wait().
StopEndsAtOnce(t) ==
    /\ op[t] = "waiting"
    /\ closed' = closed \union {collectors[name] : name \in DOMAIN collectors}
    /\ schedulers' = [name \in Names |-> None]
    /\ running' = FALSE
    /\ Return(t)
    /\ UNCHANGED <<calls, locals, objects, busy>>

\* wg.Wait() returns; all the collectors are closed, and the maps emptied.
StopEnds(t) ==
    /\ op[t] = "waiting"
    /\ \A i \in Registered : state[i] = "stopped"
    /\ closed' = closed \union {collectors[name] : name \in DOMAIN collectors}
    /\ schedulers' = [name \in Names |-> None]
    /\ running' = FALSE
    /\ Return(t)
    /\ UNCHANGED <<calls, locals, objects, busy>>

(***************************************************************************)
(* RestartNodeScheduler.                                                   *)
(***************************************************************************)
\* Mutant: the scheduler in place is left alone.
RestartFindsNone(t) ==
    /\ op[t] = "restarting" /\ running
    /\ IF WithName(target) = {} THEN Return(t)
       ELSE Goto(t, "rebuilding") /\ UNCHANGED holder
    /\ UNCHANGED <<calls, running, schedulers, locals, objects, busy, closed>>

RestartFinds(t) ==
    /\ op[t] = "restarting" /\ running
    /\ \/ /\ WithName(target) = {}
          /\ Return(t)
          /\ UNCHANGED state
       \/ /\ WithName(target) # {} /\ schedulers[target] = None
          /\ Goto(t, "rebuilding")
          /\ UNCHANGED <<holder, state>>
       \/ /\ WithName(target) # {} /\ schedulers[target] # None
          /\ state' = [state EXCEPT ![schedulers[target]] = "stopping"]
          /\ Goto(t, "replacing")
          /\ UNCHANGED holder
    /\ UNCHANGED <<calls, running, schedulers, locals, built, node, busy, closed>>

RestartReplaces(t) ==
    /\ op[t] = "replacing"
    /\ state[schedulers[target]] = "stopped"
    /\ schedulers' = [schedulers EXCEPT ![target] = None]
    /\ Goto(t, "rebuilding")
    /\ UNCHANGED <<calls, holder, running, locals, objects, busy, closed>>

\* The first node with the name is the one that is meant.
RestartStarts(t) ==
    LET n == FirstOf(WithName(target))
    IN  /\ op[t] = "rebuilding"
        /\ IF n \in Enabled THEN BuildAndStart(n)
           ELSE UNCHANGED <<schedulers, objects>>
        /\ Return(t)
        /\ UNCHANGED <<calls, running, locals, busy, closed>>

(***************************************************************************)
(* The cycles of a scheduler.                                              *)
(***************************************************************************)
BeginCycle(i) ==
    /\ i \in Dispatching
    /\ busy' = busy \union {i}
    /\ UNCHANGED <<calls, op, holder, running, schedulers, locals, objects, closed>>

\* The last of the cycles in progress ends.
EndCycle(i) ==
    /\ i \in busy /\ i \notin Stuck
    /\ busy' = busy \ {i}
    /\ UNCHANGED <<calls, op, holder, running, schedulers, locals, objects, closed>>

CallStep(t) == \/ Lock(t) \/ Refuse(t)
               \/ StartNode(t) \/ StartEnds(t)
               \/ StopAll(t) \/ StopEnds(t)
               \/ RestartFinds(t) \/ RestartReplaces(t) \/ RestartStarts(t)

SchedulerStep(i) == StopCron(i) \/ StopDrained(i)

Next == /\ \/ \E t \in Callers : Call(t) \/ CallStep(t)
           \/ \E i \in Schedulers : SchedulerStep(i) \/ BeginCycle(i) \/ EndCycle(i)
        /\ UNCHANGED refused

\* The mutex is handed on to those who wait for it.  RefundScheduler.Stop goes
\* on when it can, and a cycle that it waits for ends if it is not stuck: it
\* has its timeout, or will get one without waiting for the lock.
Fairness == /\ \A t \in Callers : SF_work(CallStep(t))
            /\ WF_work(\E i \in Schedulers : SchedulerStep(i))
            /\ WF_work(\E i \in Schedulers : state[i] = "draining" /\ EndCycle(i))

Spec == Init /\ [][Next]_vars /\ Fairness

(***************************************************************************)
(* Properties.                                                             *)
(***************************************************************************)
\* Types, and sm.mutex: a call has it from Lock until it returns.
TypeOK == /\ op \in [Callers -> {"idle"} \union Waiting \union Inside]
          /\ holder \in Callers \union {None}
          /\ running \in BOOLEAN
          /\ schedulers \in [Names -> Schedulers \union {None}]
          /\ target \in Names
          /\ cursor \in 1 .. NodeCount + 1
          /\ started \in BOOLEAN
          /\ calls \in 0 .. MaxCalls
          /\ built \in 0 .. MaxCalls * NodeCount
          /\ node \in [Schedulers -> Nodes]
          /\ state \in [Schedulers -> States]
          /\ busy \subseteq Schedulers
          /\ closed \subseteq Nodes
          /\ \A t \in Callers : holder = t <=> op[t] \in Inside

\* A manager that says it is not running has no scheduler at work: every one
\* that was ever started has ended its cycles and will begin no other.  "Stop
\* stops all running schedulers", and a Start that starts none starts none.
\* Nodes with one name break this, as the manager then loses a scheduler.
StoppedIsQuiet ==
    ~running /\ holder = None => busy = {} /\ Dispatching = {}

\* A node is refunded by one scheduler at a time, through any sequence of
\* starts, stops and restarts: the cycles of two would not know of each other.
OneSchedulerPerNode ==
    \A i, j \in busy \union Dispatching : node[i] = node[j] => i = j

\* A scheduler seen from the manager has the life that RefundScheduler shows
\* it to have: no restart revives one, and Stop waits for each one's cycles.
life == [i \in Schedulers |-> CASE state[i] \in {"unbuilt", "rejected"} -> "fresh"
                                [] state[i] = "stopping" -> "active"
                                [] state[i] = "stuck" -> "draining"
                                [] OTHER -> state[i]]

Life(i) == INSTANCE SchedulerLife WITH life <- life[i], busy <- i \in busy

SchedulersLiveOnce ==
    [][\A i \in Schedulers : Life(i)!Next \/ UNCHANGED <<life[i], i \in busy>>]_vars

\* Every call returns, and lets the next one have the mutex, unless a scheduler
\* with a cron expression gets stuck as it is stopped: no set of schedulers
\* that could not be started, and no cycle with a timeout, holds a call up.
CallsReturn ==
    \A t \in Callers : op[t] \in Waiting ~> op[t] = "idle" \/ Stuck # {}

\* "RestartNodeScheduler restarts the scheduler for a specific node": it can
\* then do its work, for which it needs a collector that is open.
RestartedCanRead ==
    running => \A i \in busy : collectors[Name[node[i]]] \notin closed
=============================================================================
