--------------------------- MODULE ExporterProofs ---------------------------
(***************************************************************************)
(* The end of the process, for any number of nodes, when no two nodes have *)
(* the same name: that of SchedulerManagerProofs goes on holding, since    *)
(* the process is one of the manager's users, and Start is called once.    *)
(***************************************************************************)
EXTENDS Exporter, SchedulerManagerProofs

\* The steps of the process are steps of the manager, or none.
LEMMA ManagerSteps == ProcessNext => [Next]_vars
<1> SUFFICES ASSUME ProcessNext PROVE [Next]_vars
  OBVIOUS
<1>1. CASE CallStart \/ CallStop
  BY <1>1, GoroutinesAssumption DEF ProcessNext, CallStart, CallStop, Next
<1>2. CASE ManagerStep
  BY <1>2 DEF ProcessNext, ManagerStep, Next
<1>3. CASE StartIsFatal \/ Interrupt \/ CloseCollector \/ StopReturned \/ StopServer \/ Dies
  BY <1>3 DEF ProcessNext, StartIsFatal, Interrupt, CloseCollector, StopReturned,
              StopServer, Dies, vars
<1> QED
  BY <1>1, <1>2, <1>3 DEF ProcessNext, MainStep

(***************************************************************************)
(* The inductive invariant.                                                *)
(***************************************************************************)
\* The goroutine starts, main stops, and neither does anything else.
Roles ==
    /\ op[starter] \in {"idle", "start", "starting"}
    /\ op[main] \in {"idle", "stop", "stopping", "waiting"}
    /\ ~launched => op[starter] = "idle"
    /\ place \in {"serving", "closing", "server", "exited"} => op[main] = "idle"

PastStop == place \in {"server", "exited"} \/ (place = "stopping" /\ op[main] = "idle")

\* Who has had the mutex.
History ==
    /\ first = None => holder = None /\ ~PastStop
    /\ first = starter => launched /\ op[starter] # "start"

\* A Stop that came second has found what Start had started, and there is no
\* other Start to come.
StopSecond == first = starter /\ PastStop => op[starter] = "idle" /\ ~running

\* Only Start sets running, and only for the one Stop that then finds it set
\* are there schedulers to stop and collectors to close.
StartDone == launched /\ op[starter] = "idle"
StartedOnce ==
    /\ running => StartDone
    /\ closed # {} => StartDone /\ (op[main] = "waiting" \/ ~running)
    /\ \A i \in Schedulers : state[i] \in {"stopping", "draining", "stuck"} =>
          StartDone /\ op[main] = "waiting"

\* The collector of a scheduler outlives it.
OpenNodes == \A i \in Alive : node[i] \notin closed

PInv == Roles /\ History /\ StopSecond /\ StartedOnce /\ OpenNodes

LEMMA PInvInit == ProcessInit => PInv
  BY GoroutinesAssumption, NoneAssumption
     DEF ProcessInit, Init, PInv, Roles, History, PastStop, StopSecond, StartedOnce,
         OpenNodes, Alive

\* The two goroutines, and which of them has the mutex.
LEMMA Goroutines ==
    ASSUME IInv
    PROVE  /\ starter \in Callers /\ main \in Callers /\ starter # main
           /\ \A t \in Callers : t = starter \/ t = main
           /\ None # starter /\ None # main
           /\ op[main] \in {"stopping", "waiting"} => holder = main
           /\ op[starter] = "starting" => holder = starter
           /\ holder = starter => op[starter] \in Inside
           /\ holder = main => op[main] \in Inside
  BY GoroutinesAssumption, NoneAssumption DEF IInv, TypeOK, Inside

(***************************************************************************)
(* The steps of the process itself.                                        *)
(***************************************************************************)
LEMMA ProcessSteps ==
    ASSUME IInv, PInv,
           \/ CallStart \/ StartIsFatal \/ Interrupt \/ MainStep \/ Dies
    PROVE  PInv'
<1> USE Goroutines DEF PInv
<1>1. UNCHANGED <<holder, running, closed, state, node, first>>
  BY DEF CallStart, StartIsFatal, Interrupt, MainStep, CloseCollector, CallStop,
         StopReturned, StopServer, Dies, Call, work, objects
<1>2. OpenNodes'
  BY <1>1 DEF OpenNodes, Alive
<1>3. CASE CallStart
  <2>1. /\ ~launched /\ launched' /\ UNCHANGED place
        /\ op'[starter] = "start" /\ op'[main] = op[main]
    BY <1>3 DEF CallStart, Call, Goto, IInv, TypeOK
  <2>2. first # starter /\ ~running /\ closed = {}
        /\ \A i \in Schedulers : state[i] \notin {"stopping", "draining", "stuck"}
    BY <2>1 DEF History, StartedOnce, StartDone
  <2> QED
    BY <1>1, <1>2, <2>1, <2>2
       DEF Roles, History, PastStop, StopSecond, StartedOnce
<1>4. CASE CallStop
  <2>1. /\ place' = "stopping" /\ UNCHANGED launched /\ op[main] = "idle"
        /\ op'[main] = "stop" /\ op'[starter] = op[starter]
    BY <1>4 DEF CallStop, Call, Goto, IInv, TypeOK
  <2> QED
    BY <1>1, <1>2, <2>1
       DEF Roles, History, PastStop, StopSecond, StartedOnce, StartDone
<1>5. CASE StartIsFatal \/ Interrupt \/ CloseCollector \/ StopReturned \/ StopServer \/ Dies
  <2>1. /\ UNCHANGED <<op, launched>>
        /\ \/ place' = "dead"
           \/ place = "serving" /\ place' = "closing"
           \/ place' = place
           \/ place = "stopping" /\ op[main] = "idle" /\ place' = "server"
           \/ place = "server" /\ place' = "exited"
    BY <1>5 DEF StartIsFatal, Interrupt, CloseCollector, StopReturned, StopServer,
                Dies, work
  <2> QED
    BY <1>1, <1>2, <2>1
       DEF Roles, History, PastStop, StopSecond, StartedOnce, StartDone
<1> QED
  BY <1>3, <1>4, <1>5 DEF MainStep

(***************************************************************************)
(* Those of the manager.                                                   *)
(***************************************************************************)
\* Start is called once, and whoever comes first has its name remembered.
LEMMA LockKeepsRoles ==
    ASSUME IInv, PInv, ManagerStep, NEW t \in Callers, Lock(t)
    PROVE  PInv'
<1> USE Goroutines DEF PInv
<1>1. UNCHANGED <<running, closed, state, node, place, launched>>
      /\ holder = None /\ holder' = t
      /\ first' = IF first = None THEN t ELSE first
  BY DEF Lock, ManagerStep, objects
<1>2. OpenNodes'
  BY <1>1 DEF OpenNodes, Alive
<1>3. CASE t = starter
  <2>1. op[starter] = "start" /\ op'[starter] = "starting" /\ op'[main] = op[main]
    BY <1>3 DEF Lock, Goto, Roles, Waiting, IInv, TypeOK
  <2>2. launched /\ first # starter
    BY <2>1 DEF Roles, History
  <2>3. ~running /\ closed = {}
        /\ \A i \in Schedulers : state[i] \notin {"stopping", "draining", "stuck"}
    BY <2>1 DEF StartedOnce, StartDone
  <2> QED
    BY <1>1, <1>2, <1>3, <2>1, <2>2, <2>3
       DEF Roles, History, PastStop, StopSecond, StartedOnce
<1>4. CASE t = main
  <2>1. op[main] = "stop" /\ op'[main] = "stopping" /\ op'[starter] = op[starter]
    BY <1>4 DEF Lock, Goto, Roles, Waiting, IInv, TypeOK
  <2> QED
    BY <1>1, <1>2, <1>4, <2>1
       DEF Roles, History, PastStop, StopSecond, StartedOnce, StartDone
<1> QED
  BY <1>3, <1>4

\* The steps of Start.
LEMMA StartKeepsRoles ==
    ASSUME IInv, PInv, ManagerStep, NEW t \in Callers,
           \/ StartNode(t) \/ StartEnds(t) \/ (Refuse(t) /\ op[t] = "starting")
    PROVE  PInv'
<1> USE Goroutines DEF PInv
<1>1. /\ t = starter /\ op[starter] = "starting" /\ holder = starter
      /\ UNCHANGED <<place, launched, closed>> /\ launched
      /\ first # None /\ first' = first
  BY DEF StartNode, StartEnds, Refuse, ManagerStep, Roles, History
<1>2. /\ ~running /\ closed = {} /\ ~Refuse(t)
      /\ \A i \in Schedulers : state[i] \notin {"stopping", "draining", "stuck"}
  BY <1>1 DEF StartedOnce, StartDone, Refuse
<1>3. ~(first = starter /\ PastStop)
  BY <1>1 DEF StopSecond
<1>4. OpenNodes'
  BY <1>1, <1>2 DEF OpenNodes
<1>5. CASE StartNode(t)
  <2>1. UNCHANGED <<op, holder, running>>
    BY <1>5 DEF StartNode
  <2>2. \A i \in Schedulers : state'[i] \notin {"stopping", "draining", "stuck"}
    BY <1>2, <1>5 DEF StartNode, BuildAndStart, objects, IInv, TypeOK
  <2> QED
    BY <1>1, <1>2, <1>3, <1>4, <2>1, <2>2
       DEF Roles, History, PastStop, StopSecond, StartedOnce
<1>6. CASE StartEnds(t)
  <2>1. /\ op'[starter] = "idle" /\ op'[main] = op[main] /\ UNCHANGED state
    BY <1>1, <1>6 DEF StartEnds, Return, Goto, objects, IInv, TypeOK
  <2> QED
    BY <1>1, <1>2, <1>3, <1>4, <2>1
       DEF Roles, History, PastStop, StopSecond, StartedOnce, StartDone
<1> QED
  BY <1>2, <1>5, <1>6

\* Those of Stop: the goroutine is not inside.
LEMMA StopKeepsRoles ==
    ASSUME NamesDistinct, IInv, PInv, ManagerStep, NEW t \in Callers,
           \/ StopAll(t) \/ StopEnds(t) \/ (Refuse(t) /\ op[t] = "stopping")
    PROVE  PInv'
<1> USE Goroutines DEF PInv
<1>1. /\ t = main /\ op[main] \in {"stopping", "waiting"} /\ holder = main
      /\ UNCHANGED <<place, launched, node>>
      /\ first # None /\ first' = first
  BY DEF StopAll, StopEnds, Refuse, ManagerStep, Roles, History, objects
<1>2. op[starter] # "starting" /\ (first = starter => op[starter] = "idle" /\ launched)
  BY <1>1 DEF Roles, History
<1>3. op'[starter] = op[starter]
  BY <1>1 DEF StopAll, StopEnds, Refuse, Return, Goto, IInv, TypeOK
<1>4. CASE StopAll(t)
  <2>1. /\ op[main] = "stopping" /\ op'[main] = "waiting" /\ running
        /\ UNCHANGED <<running, closed>>
    BY <1>1, <1>4 DEF StopAll, Goto, IInv, TypeOK
  <2>2. closed = {} /\ StartDone
    BY <2>1 DEF StartedOnce
  <2>3. OpenNodes'
    BY <2>1, <2>2 DEF OpenNodes
  <2> QED
    BY <1>1, <1>3, <2>1, <2>2, <2>3
       DEF Roles, History, PastStop, StopSecond, StartedOnce, StartDone
<1>5. CASE Refuse(t)
  <2>1. /\ op'[main] = "idle" /\ ~running /\ UNCHANGED <<running, closed, state>>
        /\ op[main] = "stopping"
    BY <1>1, <1>5 DEF Refuse, Return, Goto, objects, IInv, TypeOK
  <2>2. OpenNodes'
    BY <1>1, <2>1 DEF OpenNodes, Alive
  <2> QED
    BY <1>1, <1>2, <1>3, <2>1, <2>2
       DEF Roles, History, PastStop, StopSecond, StartedOnce, StartDone
<1>6. CASE StopEnds(t)
  <2>1. /\ op[main] = "waiting" /\ op'[main] = "idle" /\ ~running'
        /\ UNCHANGED state /\ \A i \in Registered : state[i] = "stopped"
    BY <1>1, <1>6 DEF StopEnds, Return, Goto, objects, IInv, TypeOK
  <2>2. Alive = {}
    <3> SUFFICES ASSUME NEW i \in Alive PROVE FALSE
      OBVIOUS
    <3>1. schedulers[Name[node[i]]] = i /\ Name[node[i]] \in Names /\ i # None
      BY Numbers, NodesAssumption DEF IInv, Kept, TypeOK, Alive
    <3>2. i \in Registered
      BY <3>1 DEF Registered
    <3> QED
      BY <2>1, <3>2 DEF Alive
  <2>3. OpenNodes'
    BY <2>1, <2>2 DEF OpenNodes, Alive
  <2>4. running
    BY <2>1, <1>1, PhaseIs DEF IInv, Inside
  <2>5. StartDone /\ \A i \in Schedulers : state[i] \notin {"stopping", "draining", "stuck"}
    BY <2>2, <2>4 DEF StartedOnce, Alive
  <2> QED
    BY <1>1, <1>2, <1>3, <2>1, <2>3, <2>5
       DEF Roles, History, PastStop, StopSecond, StartedOnce, StartDone
<1> QED
  BY <1>4, <1>5, <1>6

\* Those of a scheduler: the one that closes its collector is the only one of
\* its node.
LEMMA SchedulersKeepRoles ==
    ASSUME NamesDistinct, IInv, PInv, ManagerStep, NEW i \in Schedulers,
           \/ StopCron(i) \/ StopDrained(i) \/ BeginCycle(i) \/ EndCycle(i)
    PROVE  PInv'
<1> USE DEF PInv
<1>1. UNCHANGED <<op, holder, running, node, place, launched>>
      /\ first' = IF first = None THEN holder ELSE first
  BY DEF StopCron, StopDrained, BeginCycle, EndCycle, ManagerStep, objects
<1>2. Roles' /\ History' /\ StopSecond'
  BY <1>1 DEF Roles, History, StopSecond, PastStop
<1>3. CASE BeginCycle(i) \/ EndCycle(i)
  <2>1. UNCHANGED <<state, closed>>
    BY <1>3 DEF BeginCycle, EndCycle, objects
  <2> QED
    BY <1>1, <1>2, <2>1 DEF StartedOnce, StartDone, OpenNodes, Alive
<1>4. CASE StopCron(i)
  <2>1. PICK next \in {"draining", "stuck"} :
           state[i] = "stopping" /\ state' = [state EXCEPT ![i] = next]
           /\ UNCHANGED closed
    BY <1>4 DEF StopCron
  <2> QED
    BY <1>1, <1>2, <2>1
       DEF StartedOnce, StartDone, OpenNodes, Alive, IInv, TypeOK
<1>5. CASE StopDrained(i)
  <2>1. /\ state[i] = "draining" /\ state' = [state EXCEPT ![i] = "stopped"]
        /\ closed' = closed \union {node[i]}
    BY <1>5, TheNode DEF StopDrained, IInv, TypeOK
  <2>2. StartedOnce'
    BY <1>1, <2>1 DEF StartedOnce, StartDone, IInv, TypeOK
  <2>3. ASSUME NEW j \in Alive' PROVE j \in Alive /\ j # i
    BY <2>1, <2>3 DEF Alive, IInv, TypeOK
  <2>4. ASSUME NEW j \in Alive, j # i PROVE node[j] # node[i]
    BY <2>1, <2>4 DEF IInv, Kept, Alive
  <2> QED
    BY <1>1, <1>2, <2>1, <2>2, <2>3, <2>4 DEF OpenNodes
<1> QED
  BY <1>3, <1>4, <1>5

LEMMA PInvNext ==
    ASSUME NamesDistinct, IInv, PInv, ProcessNext
    PROVE  PInv'
<1>1. CASE ManagerStep
  <2>1. ASSUME NEW t \in Callers, CallStep(t) PROVE PInv'
    <3>1. op[t] \notin {"restarting", "replacing", "rebuilding"}
      BY Goroutines DEF PInv, Roles
    <3> QED
      BY <1>1, <2>1, <3>1, LockKeepsRoles, StartKeepsRoles, StopKeepsRoles
         DEF CallStep, Refuse, RestartFinds, RestartReplaces, RestartStarts
  <2>2. ASSUME NEW i \in Schedulers, SchedulerStep(i) \/ BeginCycle(i) \/ EndCycle(i)
        PROVE  PInv'
    BY <1>1, <2>2, SchedulersKeepRoles DEF SchedulerStep
  <2> QED
    BY <1>1, <2>1, <2>2 DEF ManagerStep
<1> QED
  BY <1>1, ProcessSteps DEF ProcessNext

\* The process is one of the users of the manager that SchedulerManager allows,
\* so that what is proved of the safety of its calls holds in the process.
THEOREM ProcessUsesManager == ProcessSpec => Init /\ [][Next]_vars
<1>1. ProcessInit => Init
  BY DEF ProcessInit
<1>2. [ProcessNext]_<<vars, process>> => [Next]_vars
  <2>1. UNCHANGED <<vars, process>> => UNCHANGED vars
    OBVIOUS
  <2> QED
    BY <2>1, ManagerSteps
<1> QED
  BY <1>1, <1>2, PTL DEF ProcessSpec

LEMMA ProcessInvariance == ASSUME NamesDistinct PROVE ProcessSpec => [](IInv /\ PInv)
<1>1. ProcessInit => IInv /\ PInv
  BY InitInv, PInvInit DEF ProcessInit
<1>2. IInv /\ PInv /\ [ProcessNext]_<<vars, process>> => (IInv /\ PInv)'
  <2> SUFFICES ASSUME IInv, PInv, [ProcessNext]_<<vars, process>>
               PROVE  IInv' /\ PInv'
    OBVIOUS
  <2>1. CASE ProcessNext
    <3>1. IInv'
      BY <2>1, ManagerSteps, NextKeeps
    <3> QED
      BY <2>1, <3>1, PInvNext
  <2>2. CASE UNCHANGED <<vars, process>>
    <3>1. IInv'
      BY <2>2, NextKeeps
    <3>2. UNCHANGED <<op, holder, running, closed, state, node, place, launched, first>>
      BY <2>2 DEF vars, work, objects, process
    <3>3. PInv'
      BY <3>2 DEF PInv, Roles, History, PastStop, StopSecond, StartedOnce, StartDone,
                  OpenNodes, Alive
    <3> QED
      BY <3>1, <3>3
  <2> QED
    BY <2>1, <2>2
<1> QED
  BY <1>1, <1>2, PTL DEF ProcessSpec

\* When main returns from a Stop that came after Start, every cycle has ended
\* and none will begin, whatever the configured nodes are.
THEOREM ExitIsGraceful == ASSUME NamesDistinct PROVE ProcessSpec => []GracefulExit
<1>1. IInv /\ PInv => GracefulExit
  <2> SUFFICES ASSUME IInv, PInv, place = "exited", first = starter
               PROVE  busy = {} /\ Dispatching = {}
    BY DEF GracefulExit
  <2>1. ~running /\ op[starter] = "idle" /\ op[main] = "idle"
    BY DEF PInv, StopSecond, PastStop, Roles
  <2>2. holder = None
    BY <2>1, Goroutines DEF IInv, TypeOK, Inside
  <2> QED
    BY <2>1, <2>2, IInvImplies DEF StoppedIsQuiet
<1> QED
  BY <1>1, ProcessInvariance, PTL

\* No refund cycle finds the collector that it reads balances through closed,
\* up to its last one.
THEOREM RefundsKeepCollectors == ASSUME NamesDistinct PROVE ProcessSpec => []RefundsReadOpen
<1>1. IInv /\ PInv => RefundsReadOpen
  <2> SUFFICES ASSUME IInv, PInv, NEW i \in busy
               PROVE  collectors[Name[node[i]]] \notin closed
    BY DEF RefundsReadOpen
  <2>1. i \in Alive /\ node[i] \in Nodes
    BY DEF IInv, TypeOK
  <2>2. collectors[Name[node[i]]] = node[i]
    BY <2>1, TheNode
  <2> QED
    BY <2>1, <2>2 DEF PInv, OpenNodes
<1> QED
  BY <1>1, ProcessInvariance, PTL
=============================================================================
