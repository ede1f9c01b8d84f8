----------------------- MODULE SchedulerManagerProofs -----------------------
(***************************************************************************)
(* Theorems about SchedulerManager, for any number of nodes and callers    *)
(* and any bound on the calls, when no two nodes have the same name.       *)
(***************************************************************************)
EXTENDS SchedulerManager, TLAPS

NamesDistinct == \A m, n \in Nodes : Name[m] = Name[n] => m = n

Alive == {i \in Schedulers : state[i] \in {"active", "stopping", "draining", "stuck"}}

\* Where the one who has the mutex is.
Phase == IF holder = None THEN "idle" ELSE op[holder]

\* The map has schedulers under the names of their nodes ...
Slots == \A name \in Names : schedulers[name] # None =>
            schedulers[name] <= built /\ Name[node[schedulers[name]]] = name

\* ... and none is missing from it before it has ended.
Kept == \A i \in Alive : schedulers[Name[node[i]]] = i

Fresh == \A i \in Schedulers : i > built => state[i] = "unbuilt"

\* A manager that is not running has no schedulers, but for those that a Start
\* on its way has started.
Idle == ~running => \A name \in Names : schedulers[name] # None =>
            Phase = "starting" /\ started /\ node[schedulers[name]] < cursor

Rebuilds == Phase \in {"replacing", "rebuilding"} =>
               /\ running /\ WithName(target) # {}
               /\ Phase = "rebuilding" => schedulers[target] = None

IInv == /\ TypeOK /\ Slots /\ Kept /\ Fresh /\ busy \subseteq Alive
        /\ Idle /\ Rebuilds /\ (Phase = "waiting" => running)

\* What makes the invariant worth having.
LEMMA IInvImplies == IInv => StoppedIsQuiet /\ OneSchedulerPerNode
<1> SUFFICES ASSUME IInv PROVE StoppedIsQuiet /\ OneSchedulerPerNode
  OBVIOUS
<1>1. Dispatching \subseteq Alive /\ busy \subseteq Alive
  BY DEF IInv, Dispatching, Alive
<1>2. ASSUME ~running, holder = None, NEW i \in Alive PROVE FALSE
  <2>1. i \in Schedulers /\ schedulers[Name[node[i]]] = i /\ Name[node[i]] \in Names
    BY NodesAssumption DEF IInv, Kept, Alive, TypeOK
  <2> QED
    BY <1>2, <2>1, NoneAssumption DEF IInv, Idle, Phase
<1>3. \A i, j \in Alive : node[i] = node[j] => i = j
  BY DEF IInv, Kept
<1> QED
  BY <1>1, <1>2, <1>3 DEF StoppedIsQuiet, OneSchedulerPerNode

\* Sizes, and what NewSchedulerManager and the search by name find when no two
\* nodes have the same name.
LEMMA Numbers == /\ MaxCalls * NodeCount \in Nat /\ NodeCount \in Nat
                 /\ Schedulers \subseteq Nat \ {0} /\ Nodes \subseteq Nat \ {0}
                 /\ None \notin Schedulers /\ None \notin Callers
BY NodesAssumption, NoneAssumption DEF Schedulers, Nodes

LEMMA TheNode ==
    ASSUME NamesDistinct, NEW n \in Nodes
    PROVE  FirstOf(WithName(Name[n])) = n /\ collectors[Name[n]] = n
<1>1. WithName(Name[n]) = {n}
  BY DEF NamesDistinct, WithName
<1>2. \A m \in {n} : n <= m /\ m <= n
  BY Numbers
<1>3. FirstOf({n}) = n /\ LastOf({n}) = n
  BY <1>2 DEF FirstOf, LastOf
<1> QED
  BY <1>1, <1>3 DEF collectors

LEMMA InitInv == Init => IInv
<1> SUFFICES ASSUME Init PROVE IInv
  OBVIOUS
<1>1. 1 \in Nodes /\ 1 \in 1 .. NodeCount + 1 /\ 0 \in 0 .. MaxCalls
      /\ 0 \in 0 .. MaxCalls * NodeCount
  BY NodesAssumption, Numbers DEF Nodes
<1>2. schedulers \in [Names -> Schedulers \union {None}]
      /\ node \in [Schedulers -> Nodes] /\ state \in [Schedulers -> States]
      /\ op \in [Callers -> {"idle"} \union Waiting \union Inside]
  BY <1>1 DEF Init, States
<1>3. \A t \in Callers : holder = t <=> op[t] \in Inside
  BY NoneAssumption DEF Init, Inside
<1>4. TypeOK
  BY <1>1, <1>2, <1>3 DEF Init, TypeOK
<1>5. Alive = {}
  BY DEF Init, Alive
<1>6. \A name \in Names : schedulers[name] = None
  BY DEF Init
<1>7. Phase = "idle"
  BY DEF Init, Phase
<1>8. Fresh
  BY DEF Init, Fresh
<1> QED
  BY <1>4, <1>5, <1>6, <1>7, <1>8 DEF Init, IInv, Slots, Kept, Idle, Rebuilds

\* Who is inside has the mutex, and nobody else is.
LEMMA PhaseIs ==
    ASSUME TypeOK, NEW t \in Callers, op[t] \in Inside
    PROVE  holder = t /\ Phase = op[t]
BY NoneAssumption DEF TypeOK, Phase

\* createNodeScheduler for a node that has no scheduler.
LEMMA BuildKeeps ==
    ASSUME IInv, NEW n \in Nodes, BuildAndStart(n), busy' = busy,
           schedulers[Name[n]] = None
    PROVE  /\ Slots' /\ Kept' /\ Fresh' /\ busy' \subseteq Alive'
           /\ schedulers' \in [Names -> Schedulers \union {None}]
           /\ built' \in 0 .. MaxCalls * NodeCount
           /\ node' \in [Schedulers -> Nodes] /\ state' \in [Schedulers -> States]
           /\ \A name \in Names : schedulers'[name] # None =>
                 \/ schedulers'[name] = schedulers[name]
                    /\ node'[schedulers'[name]] = node[schedulers[name]]
                 \/ node'[schedulers'[name]] = n /\ n \notin refused
<1> DEFINE new == built + 1
<1> USE Numbers DEF IInv
<1>1. /\ new \in Schedulers /\ built \in Nat /\ built' = new
      /\ node' = [node EXCEPT ![new] = n] /\ Name[n] \in Names
      /\ state' = [state EXCEPT ![new] = state'[new]]
      /\ schedulers' = [schedulers EXCEPT ![Name[n]] = schedulers'[Name[n]]]
      /\ \/ n \in refused /\ state'[new] = "rejected" /\ schedulers'[Name[n]] = None
         \/ n \notin refused /\ state'[new] = "active" /\ schedulers'[Name[n]] = new
  BY NodesAssumption DEF BuildAndStart, TypeOK
<1>2. /\ schedulers' \in [Names -> Schedulers \union {None}]
      /\ built' \in 0 .. MaxCalls * NodeCount
      /\ node' \in [Schedulers -> Nodes] /\ state' \in [Schedulers -> States]
  <2>1. new \in 0 .. MaxCalls * NodeCount
    BY <1>1 DEF Schedulers
  <2>2. schedulers'[Name[n]] \in Schedulers \union {None} /\ state'[new] \in States
    BY <1>1 DEF States
  <2>3. schedulers \in [Names -> Schedulers \union {None}]
        /\ node \in [Schedulers -> Nodes] /\ state \in [Schedulers -> States]
    BY DEF TypeOK
  <2>4. schedulers' \in [Names -> Schedulers \union {None}]
    BY <1>1, <2>2, <2>3
  <2>5. node' \in [Schedulers -> Nodes] /\ state' \in [Schedulers -> States]
    BY <1>1, <2>2, <2>3
  <2> QED
    BY <1>1, <2>1, <2>4, <2>5
<1>3. \A i \in Schedulers : i # new => node'[i] = node[i] /\ state'[i] = state[i]
  BY <1>1 DEF TypeOK
<1>4. \A name \in Names : schedulers[name] # None => schedulers[name] # new
  BY <1>1 DEF Slots, TypeOK
<1>5. Slots' /\ \A name \in Names : schedulers'[name] # None =>
                 \/ schedulers'[name] = schedulers[name]
                    /\ node'[schedulers'[name]] = node[schedulers[name]]
                 \/ node'[schedulers'[name]] = n /\ n \notin refused
  <2> SUFFICES ASSUME NEW name \in Names, schedulers'[name] # None
               PROVE  /\ schedulers'[name] <= built'
                      /\ Name[node'[schedulers'[name]]] = name
                      /\ \/ schedulers'[name] = schedulers[name]
                            /\ node'[schedulers'[name]] = node[schedulers[name]]
                         \/ node'[schedulers'[name]] = n /\ n \notin refused
    BY DEF Slots
  <2>1. CASE name = Name[n]
    BY <1>1, <2>1 DEF TypeOK
  <2>2. CASE name # Name[n]
    <3>1. schedulers'[name] = schedulers[name]
      BY <1>1, <2>2 DEF TypeOK
    <3>2. schedulers[name] \in Schedulers /\ schedulers[name] # new
          /\ schedulers[name] <= built /\ Name[node[schedulers[name]]] = name
      BY <1>4, <3>1 DEF Slots, TypeOK
    <3>3. node'[schedulers[name]] = node[schedulers[name]]
      BY <1>3, <3>2
    <3>4. schedulers[name] \in Nat /\ built' = built + 1
      BY <1>1, <3>2
    <3>5. schedulers[name] <= built'
      BY <1>1, <3>2, <3>4
    <3> QED
      BY <3>1, <3>2, <3>3, <3>5
  <2> QED
    BY <2>1, <2>2
<1>6. \A i \in Alive' : i = new \/ i \in Alive
  BY <1>3 DEF Alive
<1>7. Kept'
  <2> SUFFICES ASSUME NEW i \in Alive' PROVE schedulers'[Name[node'[i]]] = i
    BY DEF Kept
  <2>1. CASE i = new
    BY <1>1, <2>1 DEF Alive, TypeOK
  <2>2. CASE i # new
    <3>1. i \in Alive /\ node'[i] = node[i] /\ i \in Schedulers
      BY <1>3, <1>6, <2>2 DEF Alive
    <3>2. schedulers[Name[node[i]]] = i
      BY <3>1 DEF Kept
    <3>3. i # None /\ Name[node[i]] \in Names
      BY <3>1, NodesAssumption DEF TypeOK
    <3>4. Name[node[i]] # Name[n]
      BY <3>2, <3>3
    <3> QED
      BY <1>1, <3>1, <3>2, <3>3, <3>4 DEF TypeOK
  <2> QED
    BY <2>1, <2>2
<1>8. Fresh'
  BY <1>1, <1>3 DEF Fresh, TypeOK
<1>9. new \notin Alive
  BY <1>1 DEF Fresh, Alive
<1>10. busy' \subseteq Alive'
  BY <1>3, <1>9 DEF Alive
<1> QED
  BY <1>2, <1>5, <1>7, <1>8, <1>10

(***************************************************************************)
(* The calls.                                                              *)
(***************************************************************************)
LEMMA CallKeeps == ASSUME IInv, NEW t \in Callers, Call(t) PROVE IInv'
<1> USE DEF IInv
<1>1. PICK which \in Waiting : op' = [op EXCEPT ![t] = which]
  BY DEF Call, Goto
<1>2. /\ op' \in [Callers -> {"idle"} \union Waiting \union Inside]
      /\ \A c \in Callers : holder = c <=> op'[c] \in Inside
  BY <1>1 DEF Call, TypeOK, Waiting, Inside
<1>3. calls' \in 0 .. MaxCalls
  BY NodesAssumption DEF Call, TypeOK
<1>4. TypeOK'
  BY <1>2, <1>3 DEF Call, TypeOK, locals, objects
<1>5. Phase' = Phase
  BY <1>1, NoneAssumption DEF Call, TypeOK, Phase, Waiting, Inside
<1>6. Alive' = Alive
  BY DEF Call, Alive, objects
<1> QED
  BY <1>4, <1>5, <1>6
     DEF Call, locals, objects, Slots, Kept, Fresh, Idle, Rebuilds

LEMMA LockKeeps == ASSUME IInv, NEW t \in Callers, Lock(t) PROVE IInv'
<1> USE DEF IInv
<1>1. PICK place \in {"starting", "stopping", "restarting"} :
         op' = [op EXCEPT ![t] = place]
  BY DEF Lock, Goto, Waiting
<1>2. /\ op' \in [Callers -> {"idle"} \union Waiting \union Inside]
      /\ \A c \in Callers : holder' = c <=> op'[c] \in Inside
  BY <1>1, NoneAssumption DEF Lock, TypeOK, Waiting, Inside
<1>3. cursor' \in 1 .. NodeCount + 1
  BY NodesAssumption DEF Lock
<1>4. TypeOK'
  BY <1>2, <1>3 DEF Lock, TypeOK, objects
<1>5. Phase' = place /\ Phase = "idle"
  BY <1>1, NoneAssumption DEF Lock, TypeOK, Phase
<1>6. Alive' = Alive
  BY DEF Lock, Alive, objects
<1>7. Slots' /\ Kept' /\ Fresh' /\ busy' \subseteq Alive'
  BY <1>6 DEF Lock, objects, Slots, Kept, Fresh
<1> QED
  BY <1>4, <1>5, <1>7 DEF Lock, objects, Idle, Rebuilds

\* A call that returns, and has changed nothing else on its way out.
LEMMA ReturnKeeps ==
    ASSUME TypeOK, NEW t \in Callers, op[t] \in Inside, Return(t)
    PROVE  /\ op' \in [Callers -> {"idle"} \union Waiting \union Inside]
           /\ holder' \in Callers \union {None}
           /\ \A c \in Callers : holder' = c <=> op'[c] \in Inside
           /\ Phase' = "idle"
BY NoneAssumption DEF Return, Goto, TypeOK, Phase, Waiting, Inside

\* One that goes on to another point.
LEMMA GotoKeeps ==
    ASSUME TypeOK, NEW t \in Callers, op[t] \in Inside,
           NEW place \in Inside, Goto(t, place), holder' = holder
    PROVE  /\ op' \in [Callers -> {"idle"} \union Waiting \union Inside]
           /\ \A c \in Callers : holder' = c <=> op'[c] \in Inside
           /\ Phase' = place
BY NoneAssumption DEF Goto, TypeOK, Phase, Waiting, Inside

LEMMA RefuseKeeps == ASSUME IInv, NEW t \in Callers, Refuse(t) PROVE IInv'
<1> USE DEF IInv
<1>1. op[t] \in {"starting", "stopping", "restarting"} /\ Return(t)
      /\ (op[t] = "starting" => running)
  BY DEF Refuse
<1>2. Phase = op[t]
  BY <1>1, PhaseIs DEF Inside
<1>3. TypeOK' /\ Phase' = "idle"
  BY <1>1, ReturnKeeps DEF Refuse, Inside, TypeOK, locals, objects
<1>4. Alive' = Alive
  BY DEF Refuse, Alive, objects
<1>5. Slots' /\ Kept' /\ Fresh' /\ busy' \subseteq Alive'
  BY <1>4 DEF Refuse, objects, Slots, Kept, Fresh
<1>6. Idle'
  BY <1>1, <1>2 DEF Refuse, Idle, locals, objects
<1> QED
  BY <1>3, <1>5, <1>6 DEF Rebuilds

LEMMA StartNodeKeeps ==
    ASSUME NamesDistinct, IInv, NEW t \in Callers, StartNode(t) PROVE IInv'
<1> USE DEF IInv
<1>1. op[t] = "starting" /\ ~running /\ cursor \in Nodes /\ cursor' = cursor + 1
  BY DEF StartNode
<1>2. Phase = "starting" /\ Phase' = "starting"
  BY <1>1, PhaseIs DEF Inside, StartNode, Phase
<1>3. cursor' \in 1 .. NodeCount + 1 /\ cursor \in Nat
  BY <1>1, Numbers DEF Nodes
<1>4. Rebuilds' /\ (Phase' = "waiting" => running')
  BY <1>2 DEF Rebuilds
<1>5. CASE cursor \notin Enabled
  <2>1. UNCHANGED <<schedulers, built, node, state, started>>
    BY <1>5 DEF StartNode, objects
  <2>2. TypeOK'
    BY <1>3, <2>1 DEF StartNode, TypeOK
  <2>3. Alive' = Alive
    BY <2>1 DEF Alive
  <2>4. Slots' /\ Kept' /\ Fresh' /\ busy' \subseteq Alive'
    BY <2>1, <2>3 DEF StartNode, Slots, Kept, Fresh
  <2>5. Idle'
    <3> SUFFICES ASSUME NEW name \in Names, schedulers[name] # None
                 PROVE  started /\ node[schedulers[name]] < cursor + 1
      BY <1>1, <1>2, <2>1 DEF Idle
    <3>1. started /\ node[schedulers[name]] < cursor /\ node[schedulers[name]] \in Nat
      BY <1>1, Numbers DEF Idle, TypeOK
    <3> QED
      BY <1>3, <3>1
  <2> QED
    BY <1>4, <2>2, <2>4, <2>5
<1>6. CASE cursor \in Enabled
  <2>1. BuildAndStart(cursor) /\ started' = (started \/ cursor \notin refused)
        /\ busy' = busy
    BY <1>6 DEF StartNode
  <2>2. schedulers[Name[cursor]] = None
    <3> SUFFICES ASSUME schedulers[Name[cursor]] # None PROVE FALSE
      OBVIOUS
    <3>1. /\ Name[cursor] \in Names /\ node[schedulers[Name[cursor]]] \in Nodes
          /\ Name[node[schedulers[Name[cursor]]]] = Name[cursor]
          /\ node[schedulers[Name[cursor]]] < cursor
      BY <1>1, NodesAssumption DEF Slots, Idle, TypeOK
    <3>2. node[schedulers[Name[cursor]]] = cursor
      BY <1>1, <3>1 DEF NamesDistinct
    <3> QED
      BY <1>3, <3>1, <3>2
  <2> DEFINE New(name) ==
        \/ schedulers'[name] = schedulers[name]
           /\ node'[schedulers'[name]] = node[schedulers[name]]
        \/ node'[schedulers'[name]] = cursor /\ cursor \notin refused
  <2>3. /\ Slots' /\ Kept' /\ Fresh' /\ busy' \subseteq Alive'
        /\ schedulers' \in [Names -> Schedulers \union {None}]
        /\ built' \in 0 .. MaxCalls * NodeCount
        /\ node' \in [Schedulers -> Nodes] /\ state' \in [Schedulers -> States]
        /\ \A name \in Names : schedulers'[name] # None => New(name)
    BY <1>1, <2>1, <2>2, BuildKeeps
  <2>4. TypeOK'
    BY <1>3, <2>1, <2>3 DEF StartNode, TypeOK
  <2>5. Idle'
    <3> SUFFICES ASSUME NEW name \in Names, schedulers'[name] # None
                 PROVE  started' /\ node'[schedulers'[name]] < cursor'
      BY <1>2 DEF Idle
    <3>1. CASE node'[schedulers'[name]] = cursor /\ cursor \notin refused
      <4>1. started'
        BY <2>1, <3>1
      <4>2. node'[schedulers'[name]] < cursor'
        BY <1>1, <1>3, <3>1
      <4> QED
        BY <4>1, <4>2
    <3>2. CASE schedulers'[name] = schedulers[name]
               /\ node'[schedulers'[name]] = node[schedulers[name]]
      <4>1. started /\ node[schedulers[name]] < cursor
            /\ node[schedulers[name]] \in Nat
        BY <1>1, <3>2, Numbers DEF Idle, TypeOK
      <4>2. started'
        BY <2>1, <4>1
      <4>3. node'[schedulers'[name]] < cursor'
        BY <1>1, <1>3, <3>2, <4>1
      <4> QED
        BY <4>2, <4>3
    <3> QED
      BY <2>3, <3>1, <3>2
  <2> QED
    BY <1>4, <2>3, <2>4, <2>5
<1> QED
  BY <1>5, <1>6

LEMMA StartEndsKeeps == ASSUME IInv, NEW t \in Callers, StartEnds(t) PROVE IInv'
<1> USE DEF IInv
<1>1. op[t] = "starting" /\ ~running /\ Return(t) /\ running' = started
  BY DEF StartEnds
<1>2. TypeOK' /\ Phase' = "idle"
  BY <1>1, ReturnKeeps DEF StartEnds, Inside, TypeOK, locals, objects
<1>3. Alive' = Alive
  BY DEF StartEnds, Alive, objects
<1>4. Slots' /\ Kept' /\ Fresh' /\ busy' \subseteq Alive'
  BY <1>3 DEF StartEnds, objects, Slots, Kept, Fresh
<1>5. Idle'
  BY <1>1 DEF StartEnds, Idle, locals, objects
<1> QED
  BY <1>2, <1>4, <1>5 DEF Rebuilds

(***************************************************************************)
(* Stopping.                                                               *)
(***************************************************************************)
LEMMA StopAllKeeps == ASSUME IInv, NEW t \in Callers, StopAll(t) PROVE IInv'
<1> USE DEF IInv
<1>1. op[t] = "stopping" /\ running /\ Goto(t, "waiting")
      /\ UNCHANGED <<schedulers, node, built, running, busy, holder>>
  BY DEF StopAll
<1>2. state' \in [Schedulers -> States]
      /\ \A i \in Schedulers : \/ i \in Registered /\ state'[i] = "stopping"
                               \/ i \notin Registered /\ state'[i] = state[i]
  BY DEF StopAll, TypeOK, States
<1>3. TypeOK' /\ Phase' = "waiting"
  BY <1>1, <1>2, GotoKeeps DEF StopAll, Inside, TypeOK, locals
<1>4. \A i \in Registered : i \in Schedulers /\ i <= built
                            /\ schedulers[Name[node[i]]] = i
  BY DEF Registered, Slots, TypeOK
<1>5. Kept' /\ busy' \subseteq Alive'
  BY <1>1, <1>2, <1>4 DEF Kept, Alive, TypeOK
<1>6. Fresh'
  <2> SUFFICES ASSUME NEW i \in Schedulers, i > built PROVE state'[i] = "unbuilt"
    BY <1>1 DEF Fresh
  <2>1. i \notin Registered
    BY <1>4, Numbers DEF TypeOK
  <2> QED
    BY <1>2, <2>1 DEF Fresh
<1>7. Slots' /\ Idle'
  BY <1>1 DEF Slots, Idle
<1> QED
  BY <1>1, <1>3, <1>5, <1>6, <1>7 DEF Rebuilds

LEMMA StopEndsKeeps ==
    ASSUME NamesDistinct, IInv, NEW t \in Callers, StopEnds(t) PROVE IInv'
<1> USE DEF IInv
<1>1. op[t] = "waiting" /\ Return(t) /\ running' = FALSE
      /\ schedulers' = [name \in Names |-> None]
      /\ UNCHANGED <<built, node, state, busy>>
  BY DEF StopEnds, objects
<1>2. \A name \in DOMAIN collectors : collectors[name] \in Nodes
  <2>1. \A name \in DOMAIN collectors : \E n \in Nodes : name = Name[n]
    BY DEF collectors
  <2> QED
    BY <2>1, TheNode
<1>3. closed' \subseteq Nodes
  BY <1>2 DEF StopEnds, TypeOK
<1>4. TypeOK' /\ Phase' = "idle"
  BY <1>1, <1>3, ReturnKeeps DEF StopEnds, Inside, TypeOK, locals
<1>5. Alive = {}
  <2> SUFFICES ASSUME NEW i \in Alive PROVE FALSE
    OBVIOUS
  <2>1. i \in Schedulers /\ schedulers[Name[node[i]]] = i /\ Name[node[i]] \in Names
    BY NodesAssumption DEF Kept, Alive, TypeOK
  <2>2. i \in Registered
    BY <2>1, Numbers DEF Registered
  <2> QED
    BY <2>2 DEF StopEnds, Alive
<1>6. Alive' = {} /\ busy' = {}
  BY <1>1, <1>5 DEF Alive
<1>7. \A name \in Names : schedulers'[name] = None
  BY <1>1
<1>8. Fresh'
  BY <1>1 DEF Fresh
<1> QED
  BY <1>4, <1>6, <1>7, <1>8 DEF Slots, Kept, Idle, Rebuilds

LEMMA StopCronKeeps ==
    ASSUME IInv, NEW i \in Schedulers, StopCron(i) PROVE IInv'
<1> USE DEF IInv
<1>1. PICK next \in {"draining", "stuck"} :
         /\ state[i] = "stopping" /\ state' = [state EXCEPT ![i] = next]
         /\ UNCHANGED <<calls, op, holder, running, schedulers, locals, built, node,
                        busy, closed>>
  BY DEF StopCron
<1>2. TypeOK' /\ Phase' = Phase
  BY <1>1 DEF TypeOK, States, locals, Phase
<1>3. Alive' = Alive
  BY <1>1 DEF Alive, TypeOK
<1>4. Slots' /\ Kept' /\ Fresh' /\ busy' \subseteq Alive'
  BY <1>1, <1>3 DEF Slots, Kept, Fresh, TypeOK
<1> QED
  BY <1>1, <1>2, <1>4 DEF Idle, Rebuilds, locals

LEMMA StopDrainedKeeps ==
    ASSUME NamesDistinct, IInv, NEW i \in Schedulers, StopDrained(i) PROVE IInv'
<1> USE DEF IInv
<1>1. state[i] = "draining" /\ state' = [state EXCEPT ![i] = "stopped"]
      /\ i \notin busy
      /\ UNCHANGED <<calls, op, holder, running, schedulers, locals, built, node, busy>>
  BY DEF StopDrained
<1>2. node[i] \in Nodes
  BY DEF TypeOK
<1>3. collectors[Name[node[i]]] = node[i]
  BY <1>2, TheNode
<1>4. closed' \subseteq Nodes
  BY <1>2, <1>3 DEF StopDrained, TypeOK
<1>5. TypeOK' /\ Phase' = Phase
  BY <1>1, <1>4 DEF TypeOK, States, locals, Phase
<1>6. Alive' = Alive \ {i}
  BY <1>1 DEF Alive, TypeOK
<1>7. Slots' /\ Kept' /\ Fresh' /\ busy' \subseteq Alive'
  BY <1>1, <1>6 DEF Slots, Kept, Fresh, TypeOK
<1> QED
  BY <1>1, <1>5, <1>7 DEF Idle, Rebuilds, locals

(***************************************************************************)
(* Restarting.                                                             *)
(***************************************************************************)
LEMMA RestartFindsKeeps ==
    ASSUME IInv, NEW t \in Callers, RestartFinds(t) PROVE IInv'
<1> USE DEF IInv
<1>1. op[t] = "restarting" /\ running
      /\ UNCHANGED <<calls, running, schedulers, locals, built, node, busy, closed>>
  BY DEF RestartFinds
<1>2. \A i \in Schedulers : i = schedulers[target] =>
         i <= built /\ schedulers[Name[node[i]]] = i
  BY Numbers DEF Slots, TypeOK
<1>3. CASE WithName(target) = {} /\ Return(t) /\ UNCHANGED state
  <2>1. TypeOK' /\ Phase' = "idle"
    BY <1>1, <1>3, ReturnKeeps DEF Inside, TypeOK, locals
  <2>2. Alive' = Alive
    BY <1>3 DEF Alive
  <2>3. Slots' /\ Kept' /\ Fresh' /\ busy' \subseteq Alive'
    BY <1>1, <1>3, <2>2 DEF Slots, Kept, Fresh
  <2> QED
    BY <1>1, <2>1, <2>3 DEF Idle, Rebuilds
<1>4. CASE WithName(target) # {} /\ schedulers[target] = None
           /\ Goto(t, "rebuilding") /\ UNCHANGED <<holder, state>>
  <2>1. TypeOK' /\ Phase' = "rebuilding"
    BY <1>1, <1>4, GotoKeeps DEF Inside, TypeOK, locals
  <2>2. Alive' = Alive
    BY <1>4 DEF Alive
  <2>3. Slots' /\ Kept' /\ Fresh' /\ busy' \subseteq Alive'
    BY <1>1, <1>4, <2>2 DEF Slots, Kept, Fresh
  <2> QED
    BY <1>1, <1>4, <2>1, <2>3 DEF Idle, Rebuilds, locals, WithName
<1>5. CASE WithName(target) # {} /\ schedulers[target] # None
           /\ state' = [state EXCEPT ![schedulers[target]] = "stopping"]
           /\ Goto(t, "replacing") /\ UNCHANGED holder
  <2>1. schedulers[target] \in Schedulers
    BY <1>5 DEF TypeOK
  <2>2. TypeOK' /\ Phase' = "replacing"
    BY <1>1, <1>5, GotoKeeps DEF Inside, TypeOK, States, locals
  <2>3. \A i \in Alive' : i \in Alive \/ i = schedulers[target]
    BY <1>5 DEF Alive, TypeOK
  <2>4. \A i \in Alive : i \in Alive'
    BY <1>5 DEF Alive, TypeOK
  <2>5. Slots' /\ Kept' /\ busy' \subseteq Alive'
    BY <1>1, <1>2, <2>1, <2>3, <2>4 DEF Slots, Kept
  <2>6. Fresh'
    <3>1. schedulers[target] <= built
      BY <1>2, <2>1
    <3>2. schedulers[target] \in Nat
      BY <2>1, Numbers
    <3>3. \A i \in Schedulers : i > built => i # schedulers[target]
      <4>1. built \in Nat
        BY DEF TypeOK
      <4> QED
        BY <3>1, <3>2, <4>1
    <3> QED
      BY <1>1, <1>5, <3>3 DEF Fresh, TypeOK
  <2> QED
    BY <1>1, <1>5, <2>2, <2>5, <2>6 DEF Idle, Rebuilds, locals, WithName
<1> QED
  BY <1>3, <1>4, <1>5 DEF RestartFinds

LEMMA RestartReplacesKeeps ==
    ASSUME IInv, NEW t \in Callers, RestartReplaces(t) PROVE IInv'
<1> USE DEF IInv
<1>1. op[t] = "replacing" /\ state[schedulers[target]] = "stopped"
      /\ schedulers' = [schedulers EXCEPT ![target] = None]
      /\ Goto(t, "rebuilding")
      /\ UNCHANGED <<calls, holder, running, locals, built, node, state, busy, closed>>
  BY DEF RestartReplaces, objects
<1>2. Phase = "replacing"
  BY <1>1, PhaseIs DEF Inside
<1>3. TypeOK' /\ Phase' = "rebuilding"
  BY <1>1, GotoKeeps DEF Inside, TypeOK, locals
<1>4. Alive' = Alive
  BY <1>1 DEF Alive
<1>5. \A name \in Names : schedulers'[name] # None =>
         schedulers'[name] = schedulers[name]
  BY <1>1 DEF TypeOK
<1>6. \A i \in Alive : schedulers'[Name[node[i]]] = i
  <2> SUFFICES ASSUME NEW i \in Alive PROVE schedulers'[Name[node[i]]] = i
    OBVIOUS
  <2>1. schedulers[Name[node[i]]] = i /\ Name[node[i]] \in Names
    BY NodesAssumption DEF Kept, Alive, TypeOK
  <2>2. Name[node[i]] # target
    BY <1>1, <2>1 DEF Alive
  <2> QED
    BY <1>1, <2>1, <2>2 DEF TypeOK
<1>7. Slots' /\ Kept' /\ Fresh' /\ busy' \subseteq Alive'
  BY <1>1, <1>4, <1>5, <1>6 DEF Slots, Kept, Fresh
<1>8. Rebuilds' /\ running'
  BY <1>1, <1>2, <1>3 DEF Rebuilds, TypeOK, locals, WithName
<1> QED
  BY <1>3, <1>7, <1>8 DEF Idle

LEMMA RestartStartsKeeps ==
    ASSUME NamesDistinct, IInv, NEW t \in Callers, RestartStarts(t) PROVE IInv'
<1> USE DEF IInv
<1> DEFINE n == FirstOf(WithName(target))
<1>1. op[t] = "rebuilding" /\ Return(t)
      /\ UNCHANGED <<calls, running, locals, busy, closed>>
  BY DEF RestartStarts
<1>2. running /\ WithName(target) # {} /\ schedulers[target] = None
  BY <1>1, PhaseIs DEF Rebuilds, Inside
<1>3. n \in Nodes /\ Name[n] = target
  <2>1. PICK m \in Nodes : Name[m] = target
    BY <1>2 DEF WithName
  <2> QED
    BY <2>1, TheNode
<1>4. Phase' = "idle"
  BY <1>1, ReturnKeeps DEF Inside
<1>5. Idle' /\ Rebuilds' /\ (Phase' = "waiting" => running')
  BY <1>1, <1>2, <1>4 DEF Idle, Rebuilds
<1>6. CASE n \in Enabled /\ BuildAndStart(n)
  <2>1. /\ Slots' /\ Kept' /\ Fresh' /\ busy' \subseteq Alive'
        /\ schedulers' \in [Names -> Schedulers \union {None}]
        /\ built' \in 0 .. MaxCalls * NodeCount
        /\ node' \in [Schedulers -> Nodes] /\ state' \in [Schedulers -> States]
    BY <1>1, <1>2, <1>3, <1>6, BuildKeeps
  <2>2. TypeOK'
    BY <1>1, <2>1, ReturnKeeps DEF TypeOK, Inside, locals
  <2> QED
    BY <1>5, <2>1, <2>2
<1>7. CASE UNCHANGED <<schedulers, objects>>
  <2>1. TypeOK'
    BY <1>1, <1>7, ReturnKeeps DEF TypeOK, Inside, locals, objects
  <2>2. Alive' = Alive
    BY <1>7 DEF Alive, objects
  <2>3. Slots' /\ Kept' /\ Fresh' /\ busy' \subseteq Alive'
    BY <1>1, <1>7, <2>2 DEF Slots, Kept, Fresh, objects
  <2> QED
    BY <1>5, <2>1, <2>3
<1> QED
  BY <1>6, <1>7 DEF RestartStarts

(***************************************************************************)
(* The cycles, and all the steps together.                                 *)
(***************************************************************************)
LEMMA CyclesKeep ==
    ASSUME IInv, NEW i \in Schedulers, BeginCycle(i) \/ EndCycle(i) PROVE IInv'
<1> USE DEF IInv
<1>1. UNCHANGED <<calls, op, holder, running, schedulers, locals, objects, closed>>
      /\ busy' \subseteq busy \union (Dispatching \intersect {i})
  BY DEF BeginCycle, EndCycle
<1>2. busy' \subseteq Alive /\ busy' \subseteq Schedulers
  BY <1>1 DEF Dispatching, Alive
<1>3. TypeOK' /\ Phase' = Phase /\ Alive' = Alive
  BY <1>1, <1>2 DEF TypeOK, locals, objects, Phase, Alive
<1> QED
  BY <1>1, <1>2, <1>3 DEF Slots, Kept, Fresh, Idle, Rebuilds, locals, objects

LEMMA NextKeeps == ASSUME NamesDistinct, IInv, [Next]_vars PROVE IInv'
<1>1. CASE UNCHANGED vars
  BY <1>1 DEF vars, work, locals, objects, IInv, TypeOK, Phase, Alive, Slots,
              Kept, Fresh, Idle, Rebuilds
<1>2. ASSUME NEW t \in Callers, Call(t) \/ CallStep(t) PROVE IInv'
  BY <1>2, CallKeeps, LockKeeps, RefuseKeeps, StartNodeKeeps, StartEndsKeeps,
     StopAllKeeps, StopEndsKeeps, RestartFindsKeeps, RestartReplacesKeeps,
     RestartStartsKeeps DEF CallStep
<1>3. ASSUME NEW i \in Schedulers, SchedulerStep(i) \/ BeginCycle(i) \/ EndCycle(i)
      PROVE  IInv'
  BY <1>3, StopCronKeeps, StopDrainedKeeps, CyclesKeep DEF SchedulerStep
<1> QED
  BY <1>1, <1>2, <1>3 DEF Next

LEMMA Invariance == ASSUME NamesDistinct PROVE Spec => []IInv
<1>1. IInv /\ [Next]_vars => IInv'
  BY NextKeeps
<1> QED
  BY <1>1, InitInv, PTL DEF Spec

\* The state keeps its types, and the mutex its discipline: whoever is between
\* Lock and the return has it.
THEOREM TypeCorrect == ASSUME NamesDistinct PROVE Spec => []TypeOK
<1>1. IInv => TypeOK
  BY DEF IInv
<1> QED
  BY <1>1, Invariance, PTL

\* A manager that says that it is not running has no scheduler at work.
THEOREM StoppedMeansQuiet == ASSUME NamesDistinct PROVE Spec => []StoppedIsQuiet
<1>1. IInv => StoppedIsQuiet
  BY IInvImplies
<1> QED
  BY <1>1, Invariance, PTL

\* Through any calls, a node has one scheduler that is at work at most.
THEOREM OneAtATime == ASSUME NamesDistinct PROVE Spec => []OneSchedulerPerNode
<1>1. IInv => OneSchedulerPerNode
  BY IInvImplies
<1> QED
  BY <1>1, Invariance, PTL

(***************************************************************************)
(* The life of each scheduler.  What makes a step one of SchedulerLife is  *)
(* that a scheduler in the map is active, unless it is being waited for.   *)
(***************************************************************************)
Serving == \A name \in Names : schedulers[name] # None =>
              \/ state[schedulers[name]] = "active"
              \/ Phase = "waiting"
              \/ Phase = "replacing" /\ name = target

\* How a step that leaves the cycles alone may move a scheduler on.
Moves(i) == \/ state[i] \in {"unbuilt", "rejected"} /\ state'[i] = "active"
            \/ state[i] = "unbuilt" /\ state'[i] = "rejected"
            \/ state[i] \in {"active", "stopping"}
               /\ state'[i] \in {"active", "stopping", "draining", "stuck"}
            \/ state[i] = "draining" /\ i \notin busy /\ state'[i] = "stopped"
            \/ state'[i] = state[i]

LEMMA MoveIsLife ==
    ASSUME IInv, NEW i \in Schedulers, Moves(i), busy' = busy
    PROVE  Life(i)!Next \/ UNCHANGED <<life[i], i \in busy>>
<1>1. state[i] \in States /\ life \in [Schedulers -> {"fresh", "active", "draining", "stopped"}]
  BY DEF IInv, TypeOK, life, States
<1> QED
  BY <1>1 DEF IInv, TypeOK, States, Moves, life, Life!Next, Life!Start, Life!StopCron, Life!StopReturns

\* Steps that touch neither the map nor the life of a scheduler.
LEMMA BystandersServe ==
    ASSUME Serving, UNCHANGED <<schedulers, state>>,
           \/ UNCHANGED <<Phase, target>> \/ Phase \notin {"waiting", "replacing"}
    PROVE  Serving' /\ \A i \in Schedulers : Moves(i)
BY DEF Serving, Moves

LEMMA BuildServes ==
    ASSUME IInv, Serving, NEW n \in Nodes, BuildAndStart(n),
           Phase \notin {"waiting", "replacing"}
    PROVE  Serving' /\ \A i \in Schedulers : Moves(i)
<1> DEFINE new == built + 1
<1>1. new \in Schedulers /\ state[new] = "unbuilt" /\ new > built
  BY Numbers DEF BuildAndStart, IInv, Fresh, TypeOK
<1>2. \A i \in Schedulers : i # new => state'[i] = state[i]
  BY DEF BuildAndStart, IInv, TypeOK
<1>3. state'[new] \in {"active", "rejected"}
  BY <1>1 DEF BuildAndStart, IInv, TypeOK
<1>4. \A i \in Schedulers : Moves(i)
  BY <1>1, <1>2, <1>3 DEF Moves
<1>5. Serving'
  <2> SUFFICES ASSUME NEW name \in Names, schedulers'[name] # None
               PROVE  state'[schedulers'[name]] = "active"
    BY DEF Serving
  <2>1. CASE schedulers'[name] = schedulers[name]
    <3>1. schedulers[name] \in Schedulers /\ schedulers[name] # new
          /\ state[schedulers[name]] = "active"
      BY <2>1, <1>1 DEF Serving, IInv, TypeOK
    <3> QED
      BY <2>1, <3>1, <1>2
  <2>2. CASE schedulers'[name] # schedulers[name]
    BY <2>2, <1>1 DEF BuildAndStart, IInv, TypeOK
  <2> QED
    BY <2>1, <2>2
<1> QED
  BY <1>4, <1>5

LEMMA CallsServe ==
    ASSUME NamesDistinct, IInv, Serving, NEW t \in Callers, Call(t) \/ CallStep(t)
    PROVE  Serving' /\ \A i \in Schedulers : Moves(i)
<1> DEFINE Goal == Serving' /\ \A i \in Schedulers : Moves(i)
<1>0. /\ op[t] \in Inside => Phase = op[t]
      /\ holder = None => Phase = "idle"
  BY PhaseIs DEF IInv, Phase
<1>1. ASSUME Call(t) PROVE Goal
  <2>1. Phase' = Phase
    BY <1>1, NoneAssumption DEF Call, Goto, IInv, TypeOK, Phase, Waiting, Inside
  <2> QED
    BY <1>1, <2>1, BystandersServe DEF Call, objects, locals
<1>2. ASSUME Lock(t) \/ Refuse(t) \/ StartEnds(t) PROVE Goal
  <2>1. Phase \notin {"waiting", "replacing"} /\ UNCHANGED <<schedulers, state>>
    BY <1>0, <1>2 DEF Lock, Refuse, StartEnds, Inside, objects
  <2> QED
    BY <2>1, BystandersServe
<1>3. ASSUME StartNode(t) PROVE Goal
  <2>1. Phase \notin {"waiting", "replacing"} /\ cursor \in Nodes
    BY <1>0, <1>3 DEF StartNode, Inside
  <2>2. BuildAndStart(cursor) \/ UNCHANGED <<schedulers, state>>
    BY <1>3 DEF StartNode, objects
  <2> QED
    BY <2>1, <2>2, BystandersServe, BuildServes
<1>4. ASSUME StopAll(t) PROVE Goal
  <2>1. Phase = "stopping" /\ Phase' = "waiting"
    BY <1>0, <1>4, GotoKeeps DEF StopAll, Inside, IInv
  <2>2. \A i \in Registered : state[i] = "active"
    BY <2>1 DEF Registered, Serving
  <2>3. \A i \in Schedulers : Moves(i)
    BY <1>4, <2>2 DEF StopAll, Moves
  <2> QED
    BY <2>1, <2>3 DEF Serving
<1>5. ASSUME StopEnds(t) PROVE Goal
  <2>1. UNCHANGED state /\ \A name \in Names : schedulers'[name] = None
    BY <1>5 DEF StopEnds, objects
  <2> QED
    BY <2>1 DEF Serving, Moves
<1>6. ASSUME RestartFinds(t) PROVE Goal
  <2>1. Phase = "restarting" /\ schedulers' = schedulers /\ target' = target
    BY <1>0, <1>6 DEF RestartFinds, Inside, locals
  <2>2. CASE UNCHANGED state
    BY <2>1, <2>2, BystandersServe
  <2>3. CASE /\ WithName(target) # {} /\ schedulers[target] # None
             /\ state' = [state EXCEPT ![schedulers[target]] = "stopping"]
             /\ Goto(t, "replacing")
             /\ UNCHANGED holder
    <3>1. Phase' = "replacing"
      BY <1>6, <2>3, GotoKeeps DEF RestartFinds, Inside, IInv
    <3>2. schedulers[target] \in Schedulers /\ target \in Names
          /\ state[schedulers[target]] = "active"
      BY <2>1, <2>3 DEF Serving, IInv, TypeOK
    <3>3. \A i \in Schedulers : Moves(i)
      BY <2>3, <3>2 DEF Moves, IInv, TypeOK
    <3>4. ASSUME NEW name \in Names, schedulers[name] # None, name # target
          PROVE  state'[schedulers[name]] = "active"
      <4>1. schedulers[name] # schedulers[target]
        BY <2>3, <3>2, <3>4 DEF IInv, Slots
      <4> QED
        BY <2>1, <2>3, <3>4, <4>1 DEF Serving, IInv, TypeOK
    <3> QED
      BY <2>1, <3>1, <3>3, <3>4 DEF Serving
  <2> QED
    BY <1>6, <2>2, <2>3 DEF RestartFinds
<1>7. ASSUME RestartReplaces(t) PROVE Goal
  <2>1. Phase = "replacing" /\ UNCHANGED <<state, target>>
        /\ schedulers' = [schedulers EXCEPT ![target] = None]
    BY <1>0, <1>7 DEF RestartReplaces, Inside, objects, locals
  <2>2. \A name \in Names : schedulers'[name] # None =>
           name # target /\ schedulers'[name] = schedulers[name]
    BY <2>1 DEF IInv, TypeOK
  <2> QED
    BY <2>1, <2>2 DEF Serving, Moves
<1>8. ASSUME RestartStarts(t) PROVE Goal
  <2>1. Phase = "rebuilding"
    BY <1>0, <1>8 DEF RestartStarts, Inside
  <2>2. FirstOf(WithName(target)) \in Nodes
    <3>1. PICK m \in Nodes : Name[m] = target
      BY <2>1 DEF IInv, Rebuilds, WithName
    <3> QED
      BY <3>1, TheNode
  <2> QED
    BY <1>8, <2>1, <2>2, BystandersServe, BuildServes DEF RestartStarts, objects
<1> QED
  BY <1>1, <1>2, <1>3, <1>4, <1>5, <1>6, <1>7, <1>8 DEF CallStep

LEMMA StopsServe ==
    ASSUME IInv, Serving, NEW i \in Schedulers, SchedulerStep(i)
    PROVE  Serving' /\ \A j \in Schedulers : Moves(j)
<1>1. UNCHANGED <<op, holder, schedulers, target>>
  BY DEF SchedulerStep, StopCron, StopDrained, locals
<1>2. PICK next \in {"draining", "stuck", "stopped"} :
         /\ state' = [state EXCEPT ![i] = next]
         /\ \/ state[i] = "stopping" /\ next \in {"draining", "stuck"}
            \/ state[i] = "draining" /\ i \notin busy /\ next = "stopped"
  BY DEF SchedulerStep, StopCron, StopDrained
<1>3. \A j \in Schedulers : Moves(j)
  BY <1>2 DEF Moves, IInv, TypeOK
<1>4. \A name \in Names : schedulers[name] # None /\ state[schedulers[name]] = "active"
         => state'[schedulers[name]] = "active"
  BY <1>2 DEF IInv, TypeOK
<1>5. Phase' = Phase
  BY <1>1 DEF Phase
<1> QED
  BY <1>1, <1>3, <1>4, <1>5 DEF Serving

LEMMA CyclesServe ==
    ASSUME IInv, Serving, NEW i \in Schedulers, BeginCycle(i) \/ EndCycle(i)
    PROVE  /\ Serving'
           /\ \A j \in Schedulers : Life(j)!Next \/ UNCHANGED <<life[j], j \in busy>>
<1>1. UNCHANGED <<op, holder, schedulers, target, state>> /\ busy \subseteq Schedulers
  BY DEF BeginCycle, EndCycle, locals, objects, IInv, TypeOK
<1>2. Serving'
  BY <1>1 DEF Serving, Phase
<1>3. life' = life
  BY <1>1 DEF life
<1>4. ASSUME BeginCycle(i) PROVE life[i] = "active" /\ busy' = busy \union {i}
  BY <1>4 DEF BeginCycle, Dispatching, life
<1>5. ASSUME EndCycle(i) PROVE i \in busy /\ busy' = busy \ {i}
  BY <1>5 DEF EndCycle
<1>6. ASSUME NEW j \in Schedulers
      PROVE  Life(j)!Next \/ UNCHANGED <<life[j], j \in busy>>
  BY <1>3, <1>4, <1>5 DEF Life!Next, Life!BeginCycle, Life!EndCycle
<1> QED
  BY <1>2, <1>6

\* Every step of the manager is for each scheduler a step of the life that
\* RefundScheduler is shown to give it, or none: no restart revives one, and
\* none is said to have stopped with a cycle in progress.
THEOREM LivesOnce == ASSUME NamesDistinct PROVE Spec => SchedulersLiveOnce
<1> DEFINE Lives == \A i \in Schedulers : Life(i)!Next \/ UNCHANGED <<life[i], i \in busy>>
<1>1. Init => Serving
  BY DEF Init, Serving
<1>2. IInv /\ Serving /\ [Next]_vars => Serving' /\ [Lives]_vars
  <2> SUFFICES ASSUME IInv, Serving, [Next]_vars PROVE Serving' /\ [Lives]_vars
    OBVIOUS
  <2>1. CASE UNCHANGED vars
    BY <2>1 DEF vars, work, locals, objects, Serving, Phase
  <2>2. ASSUME NEW t \in Callers, Call(t) \/ CallStep(t) PROVE Serving' /\ Lives
    <3>1. busy' = busy
      BY <2>2 DEF CallStep, Call, Lock, Refuse, StartNode, StartEnds, StopAll,
                  StopEnds, RestartFinds, RestartReplaces, RestartStarts
    <3> QED
      BY <2>2, <3>1, CallsServe, MoveIsLife
  <2>3. ASSUME NEW i \in Schedulers, SchedulerStep(i) PROVE Serving' /\ Lives
    <3>1. busy' = busy
      BY <2>3 DEF SchedulerStep, StopCron, StopDrained
    <3> QED
      BY <2>3, <3>1, StopsServe, MoveIsLife
  <2>4. ASSUME NEW i \in Schedulers, BeginCycle(i) \/ EndCycle(i)
        PROVE  Serving' /\ Lives
    BY <2>4, CyclesServe
  <2> QED
    BY <2>1, <2>2, <2>3, <2>4 DEF Next
<1> QED
  BY <1>1, <1>2, Invariance, PTL DEF Spec, SchedulersLiveOnce
=============================================================================
