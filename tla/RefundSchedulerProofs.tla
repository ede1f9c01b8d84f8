----------------------- MODULE RefundSchedulerProofs -----------------------
(***************************************************************************)
(* Safety of RefundScheduler, for any number of goroutines and jobs and    *)
(* for both kinds of schedule.                                             *)
(***************************************************************************)
EXTENDS RefundScheduler, TLAPS

StartStates == {"start", "startWait", "starting"}
StopStates == {"stop", "stopWait", "stopping", "draining"}

\* The manager's mutex keeps calls of Start and calls of Stop apart.
Apart ==
    \A t, u \in Callers :
        op[t] \in StartStates => op[u] \notin StopStates /\ ~closed

\* What running stands for.  While Stop drains the jobs the scheduler is still
\* running, although cron no longer dispatches.
Registered ==
    /\ entries \in {0, 1}
    /\ cancelled => closed
    /\ running => entries = 1 /\ ~closed /\ ~cancelled
    /\ ~running => entries = 0 \/ closed
    /\ cronOn => running
    /\ \A t \in Callers : op[t] = "draining" => running /\ ~cronOn

JobsWhileRunning == \A j \in Jobs : job[j] # "none" => running

IInv == TypeOK /\ Apart /\ Registered /\ JobsWhileRunning

LEMMA InvInit == Init => IInv
  <1> SUFFICES ASSUME Init PROVE IInv
    OBVIOUS
  <1>1. readers = {t \in Callers : op[t] = "reading"}
                    \union {j \in Jobs : job[j] = "timing"}
    BY DEF Init
  <1>2. TypeOK
    BY <1>1, ThreadsAssumption DEF Init, TypeOK, CallerStates, JobStates
  <1>3. Apart /\ Registered /\ JobsWhileRunning
    BY DEF Init, Apart, StartStates, StopStates, Registered, JobsWhileRunning
  <1> QED
    BY <1>2, <1>3 DEF IInv

LEMMA InvNext == IInv /\ [Next]_vars => IInv'
  <1> SUFFICES ASSUME IInv, [Next]_vars PROVE IInv'
    OBVIOUS
  <1> USE ThreadsAssumption
      DEF IInv, TypeOK, CallerStates, JobStates, Apart, StartStates, StopStates,
          Registered, JobsWhileRunning, Goto
  <1> every' = every
    BY DEF Next, vars
  <1>1. ASSUME NEW t \in Callers, CallStart(t) PROVE IInv'
    BY <1>1 DEF CallStart, Calling, mutex, cron
  <1>2. ASSUME NEW t \in Callers, CallStop(t) PROVE IInv'
    BY <1>2 DEF CallStop, Calling, mutex, cron
  <1>3. ASSUME NEW t \in Callers, CallInfo(t) PROVE IInv'
    BY <1>3 DEF CallInfo, mutex, cron
  <1>4. ASSUME NEW t \in Callers, WaitForLock(t) PROVE IInv'
    BY <1>4 DEF WaitForLock, Announce, cron
  <1>5. ASSUME NEW t \in Callers, Lock(t) PROVE IInv'
    BY <1>5 DEF Lock, Acquire, cron
  <1>6. ASSUME NEW t \in Callers, StartLocked(t) PROVE IInv'
    <2>1. /\ op[t] = "starting" /\ op' = [op EXCEPT ![t] = "idle"]
          /\ announced' = None /\ writer' = None
          /\ UNCHANGED <<readers, job, cancelled, closed>>
      BY <1>6 DEF StartLocked, Unlock
    <2>2. \/ UNCHANGED <<running, entries, cronOn>>
          \/ ~running /\ entries' = entries + 1 /\ cronOn' = TRUE /\ running' = TRUE
      BY <1>6 DEF StartLocked, cron
    <2>3. entries' \in {0, 1}
      BY <2>1, <2>2
    <2>4. /\ \A u \in Callers : u # t => announced # u /\ writer # u
          /\ \A u \in Callers : u # t => op'[u] = op[u]
      BY <2>1
    <2>5. readers' = {u \in Callers : op'[u] = "reading"}
                       \union {j \in Jobs : job'[j] = "timing"}
      BY <2>1
    <2>6. entries' \in Nat
      BY <2>3
    <2>7. running' \in BOOLEAN /\ cronOn' \in BOOLEAN
      <3>1. running \in BOOLEAN /\ cronOn \in BOOLEAN
        OBVIOUS
      <3>2. CASE UNCHANGED <<running, entries, cronOn>>
        BY <3>1, <3>2
      <3>3. CASE running' = TRUE /\ cronOn' = TRUE
        BY <3>3
      <3> QED
        BY <2>2, <3>2, <3>3
    <2>8. TypeOK'
      BY <2>1, <2>7, <2>6, <2>4, <2>5
    <2>9. TypeOK' /\ Apart'
      BY <2>1, <2>8
    <2>10. Registered' /\ JobsWhileRunning'
      BY <2>1, <2>2
    <2> QED
      BY <2>9, <2>10
  <1>7. ASSUME NEW t \in Callers, StopCron(t) PROVE IInv'
    <2>1. CASE running
      <3>1. /\ op[t] = "stopping" /\ op' = [op EXCEPT ![t] = "draining"]
            /\ cronOn' = FALSE
            /\ UNCHANGED <<entries, announced, writer, readers, job, running,
                           cancelled, closed>>
        BY <1>7, <2>1 DEF StopCron, mutex
      <3> QED
        BY <2>1, <3>1
    <2>2. CASE ~running
      <3>1. /\ op[t] = "stopping" /\ op' = [op EXCEPT ![t] = "idle"]
            /\ announced' = None /\ writer' = None
            /\ UNCHANGED <<readers, entries, cronOn, job, running, cancelled,
                           closed>>
        BY <1>7, <2>2 DEF StopCron, Unlock, cron
      <3>2. TypeOK'
        BY <3>1
      <3> QED
        BY <3>1, <3>2
    <2> QED
      BY <2>1, <2>2
  <1>8. ASSUME NEW t \in Callers, StopDrained(t) PROVE IInv'
    BY <1>8 DEF StopDrained, Unlock, cron
  <1>9. ASSUME NEW t \in Callers, RLockForInfo(t) PROVE IInv'
    <2>1. /\ op' = [op EXCEPT ![t] = "reading"] /\ op[t] = "info"
          /\ announced = None /\ readers' = readers \union {t}
          /\ UNCHANGED <<job, announced, writer, running, entries, cronOn,
                         cancelled, closed>>
      BY <1>9 DEF RLockForInfo, RLock, cron
    <2>2. readers' = {u \in Callers : op'[u] = "reading"}
                       \union {j \in Jobs : job'[j] = "timing"}
      BY <2>1
    <2>3. writer = None
      BY <2>1
    <2>4. TypeOK'
      BY <2>1, <2>2, <2>3
    <2> QED
      BY <2>1, <2>4
  <1>10. ASSUME NEW t \in Callers, EndInfo(t) PROVE IInv'
    <2>1. /\ op' = [op EXCEPT ![t] = "idle"] /\ op[t] = "reading"
          /\ readers' = readers \ {t}
          /\ UNCHANGED <<job, announced, writer, running, entries, cronOn,
                         cancelled, closed>>
      BY <1>10 DEF EndInfo, RUnlock, cron
    <2>2. readers' = {u \in Callers : op'[u] = "reading"}
                       \union {j \in Jobs : job'[j] = "timing"}
      BY <2>1
    <2>3. TypeOK'
      BY <2>1, <2>2
    <2> QED
      BY <2>1, <2>3
  <1>11. ASSUME NEW j \in Jobs, Fire(j) PROVE IInv'
    BY <1>11 DEF Fire, mutex, cron
  <1>12. ASSUME NEW j \in Jobs, BeginTiming(j) PROVE IInv'
    BY <1>12 DEF BeginTiming, RLock, mutex, cron
  <1>13. ASSUME NEW j \in Jobs, EndTiming(j) PROVE IInv'
    BY <1>13 DEF EndTiming, RUnlock, cron
  <1>14. ASSUME NEW j \in Jobs, EndCycle(j) PROVE IInv'
    BY <1>14 DEF EndCycle, mutex, cron
  <1>15. CASE UNCHANGED vars
    BY <1>15 DEF vars, mutex, cron
  <1> QED
    BY <1>1, <1>2, <1>3, <1>4, <1>5, <1>6, <1>7, <1>8, <1>9, <1>10, <1>11,
       <1>12, <1>13, <1>14, <1>15
       DEF Next, Call, GoOn, JobStep, vars

LEMMA Invariance == Spec => []IInv
  BY InvInit, InvNext, PTL DEF Spec

\* rs.mutex is held by whoever is in a critical section, and by nobody else.
THEOREM TypeCorrect == Spec => []TypeOK
  <1>1. IInv => TypeOK
    BY DEF IInv
  <1> QED
    BY Invariance, <1>1, PTL

\* Stop leaves no refund in progress behind.
THEOREM StopQuiesces == Spec => []QuietWhenStopped
  <1>1. IInv => QuietWhenStopped
    BY DEF IInv, Registered, JobsWhileRunning, QuietWhenStopped
  <1> QED
    BY Invariance, <1>1, PTL

\* Stop closes the collector under no running cycle.
THEOREM CollectorOutlivesCycles == Spec => []WorksWithOpenCollector
  <1>1. IInv => WorksWithOpenCollector
    BY DEF IInv, Registered, JobsWhileRunning, WorksWithOpenCollector
  <1> QED
    BY Invariance, <1>1, PTL

\* However many goroutines call Start, the refund job is registered once.
THEOREM StartRegistersOnce == Spec => []OneEntry
  <1>1. IInv => OneEntry
    BY DEF IInv, Registered, OneEntry
  <1> QED
    BY Invariance, <1>1, PTL

\* However many calls and jobs there are, those that are at work can only get
\* stuck together in the wait of Stop for jobs with a cron expression: for an
\* "@every" schedule there is no deadlock, nor is there one between readers and
\* writers, or of two calls of Start or Stop.
THEOREM NoOtherDeadlock == Spec => []DeadlocksInStopOnly
  <1>1. IInv => DeadlocksInStopOnly
    <2> SUFFICES ASSUME TypeOK, AtWork,
                        \A t \in Callers : ~MayGoOn(t), \A j \in Jobs : ~JobMayGoOn(j)
                 PROVE  /\ ~every
                        /\ \E t \in Callers : op[t] = "draining"
                        /\ \E j \in Jobs : job[j] = "spawned"
      BY DEF IInv, DeadlocksInStopOnly
    <2>1. announced # None
      <3> SUFFICES ASSUME announced = None PROVE FALSE
        OBVIOUS
      <3>1. \A t \in Callers : op[t] \in {"idle", "start", "stop", "info", "reading"}
        BY ThreadsAssumption DEF TypeOK, CallerStates
      <3>2. \A t \in Callers : op[t] = "idle"
        BY <3>1 DEF MayGoOn
      <3>3. \A j \in Jobs : job[j] = "none"
        BY DEF JobMayGoOn, TypeOK, JobStates
      <3> QED
        BY <3>2, <3>3 DEF AtWork
    <2>2. PICK t \in Callers : announced = t
      BY <2>1 DEF TypeOK
    <2>3. readers = {}
      BY DEF TypeOK, MayGoOn, JobMayGoOn
    <2>4. op[t] \notin {"startWait", "stopWait"}
      <3> SUFFICES ASSUME op[t] \in {"startWait", "stopWait"} PROVE FALSE
        OBVIOUS
      <3>1. writer # None
        BY <2>3 DEF MayGoOn
      <3>2. PICK u \in Callers : writer = u
        BY <3>1 DEF TypeOK
      <3>3. u = t
        BY <2>2, <3>2 DEF TypeOK
      <3> QED
        BY <3>2, <3>3 DEF TypeOK
    <2>5. op[t] = "draining"
      BY <2>2, <2>4 DEF TypeOK, MayGoOn
    <2>6. PICK j \in Jobs : job[j] # "none"
      BY <2>5 DEF MayGoOn
    <2>7. job[j] = "spawned" /\ ~every
      BY <2>6 DEF JobMayGoOn, TypeOK, JobStates
    <2> QED
      BY <2>5, <2>7
  <1> QED
    BY <1>1, Invariance, PTL

(***************************************************************************)
(* The scheduler implements SchedulerLife.                                 *)
(***************************************************************************)
LEMMA RefinementInit == Init => Abstract!Init
  BY DEF Init, Abstract!Init, life

\* A step that leaves the scheduler's own variables alone begins a cycle, ends
\* one, or changes nothing that is seen from outside.
LEMMA JobsRefine ==
    ASSUME IInv, UNCHANGED <<running, cronOn, closed>>,
           \A j \in Jobs : job[j] = "none" /\ job'[j] # "none" => cronOn
    PROVE  [Abstract!Next]_(Abstract!lifeVars)
  <1> DEFINE busy == \E j \in Jobs : job[j] # "none"
  <1>1. life' = life
    BY DEF life
  <1>2. busy' = busy \/ (~busy /\ busy' /\ cronOn) \/ (busy /\ ~busy')
    OBVIOUS
  <1>3. CASE busy' = busy
    BY <1>1, <1>3 DEF Abstract!lifeVars
  <1>4. CASE ~busy /\ busy' /\ cronOn
    <2>1. life = "active"
      BY <1>4 DEF IInv, Registered, life
    <2> QED
      BY <1>1, <1>4, <2>1 DEF Abstract!Next, Abstract!BeginCycle
  <1>5. CASE busy /\ ~busy'
    BY <1>1, <1>5 DEF Abstract!Next, Abstract!EndCycle
  <1> QED
    BY <1>2, <1>3, <1>4, <1>5

LEMMA RefinementStep ==
    IInv /\ [Next]_vars => [Abstract!Next]_(Abstract!lifeVars)
  <1> SUFFICES ASSUME IInv, [Next]_vars
               PROVE  [Abstract!Next]_(Abstract!lifeVars)
    OBVIOUS
  <1>1. ASSUME NEW t \in Callers, StartLocked(t)
        PROVE  [Abstract!Next]_(Abstract!lifeVars)
    <2>1. UNCHANGED <<job, closed>> /\ ~closed
      BY <1>1 DEF StartLocked, IInv, Apart, StartStates
    <2>2. CASE UNCHANGED <<running, cronOn>>
      BY <2>1, <2>2, JobsRefine
    <2>3. CASE ~running /\ cronOn' = TRUE /\ running' = TRUE
      <3>1. life = "fresh" /\ life' = "active"
        BY <2>1, <2>3 DEF life
      <3> QED
        BY <2>1, <3>1 DEF Abstract!Next, Abstract!Start
    <2> QED
      BY <1>1, <2>2, <2>3 DEF StartLocked, cron
  <1>2. ASSUME NEW t \in Callers, StopCron(t)
        PROVE  [Abstract!Next]_(Abstract!lifeVars)
    <2>1. UNCHANGED <<job, closed, running>>
      BY <1>2 DEF StopCron
    <2>2. CASE UNCHANGED cronOn
      BY <2>1, <2>2, JobsRefine
    <2>3. CASE running /\ cronOn' = FALSE /\ cronOn' # cronOn
      <3>1. life = "active" /\ life' = "draining"
        BY <2>1, <2>3 DEF life, IInv, Registered, TypeOK
      <3> QED
        BY <2>1, <3>1 DEF Abstract!Next, Abstract!StopCron
    <2> QED
      BY <1>2, <2>2, <2>3 DEF StopCron, cron
  <1>3. ASSUME NEW t \in Callers, StopDrained(t)
        PROVE  [Abstract!Next]_(Abstract!lifeVars)
    <2>1. /\ op[t] = "draining" /\ closed' = TRUE
          /\ \A j \in Jobs : job[j] = "none"
          /\ UNCHANGED job
      BY <1>3 DEF StopDrained
    <2>2. life = "draining" /\ life' = "stopped"
      BY <2>1 DEF life, IInv, Registered
    <2> QED
      BY <2>1, <2>2 DEF Abstract!Next, Abstract!StopReturns
  <1>4. ASSUME NEW t \in Callers,
               \/ Call(t) \/ WaitForLock(t) \/ Lock(t)
               \/ RLockForInfo(t) \/ EndInfo(t)
        PROVE  [Abstract!Next]_(Abstract!lifeVars)
    <2>1. UNCHANGED <<job, running, cronOn, closed>>
      BY <1>4 DEF Call, CallStart, CallStop, CallInfo, WaitForLock, Lock,
           RLockForInfo, EndInfo, cron
    <2> QED
      BY <2>1, JobsRefine
  <1>5. ASSUME NEW j \in Jobs, Fire(j) \/ JobStep(j)
        PROVE  [Abstract!Next]_(Abstract!lifeVars)
    <2>1. /\ UNCHANGED <<running, cronOn, closed>>
          /\ \A k \in Jobs : job[k] = "none" /\ job'[k] # "none" => cronOn
      BY <1>5 DEF Fire, JobStep, BeginTiming, EndTiming, EndCycle, cron,
           IInv, TypeOK
    <2> QED
      BY <2>1, JobsRefine
  <1>6. CASE UNCHANGED vars
    BY <1>6, JobsRefine DEF vars, cron
  <1> QED
    BY <1>1, <1>2, <1>3, <1>4, <1>5, <1>6 DEF Next, GoOn, vars

\* Seen from outside, a scheduler with any number of callers and cycles is one
\* that starts once, has cycles until it is stopped, and none afterwards.
THEOREM Refinement == Spec => ImplementsSchedulerLife
  BY Invariance, RefinementInit, RefinementStep, PTL
     DEF Spec, ImplementsSchedulerLife, Abstract!Spec
=============================================================================
