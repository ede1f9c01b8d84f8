-------------------------- MODULE RefundScheduler --------------------------
(***************************************************************************)
(* The life of a RefundScheduler (pkg/scheduler/scheduler.go): goroutines  *)
(* that call Start, Stop, IsRunning and GetNextRun, the cron library that  *)
(* runs executeRefundCheck in goroutines of its own, and the RWMutex they  *)
(* share.                                                                  *)
(*                                                                         *)
(* Stop keeps the write lock while it waits for the running jobs.  A job   *)
(* needs the read lock when its schedule is not of the form "@every d".    *)
(***************************************************************************)
EXTENDS Naturals, FiniteSets

CONSTANTS
    Callers,    \* goroutines that use the scheduler
    Jobs,       \* goroutines of the cron library, at most so many at once
    None        \* nobody

ASSUME ThreadsAssumption == Callers \intersect Jobs = {} /\ None \notin Callers \union Jobs

VARIABLES
    every,      \* the schedule is "@every d"
    op,         \* caller -> the point it has reached in a call
    job,        \* job -> the point it has reached in executeRefundCheck
    announced,  \* rs.mutex: who waits for, or has, the write lock
    writer,     \* rs.mutex: who has the write lock
    readers,    \* rs.mutex: who has the read lock
    running,    \* rs.running
    entries,    \* how many jobs are registered with rs.cron
    cronOn,     \* rs.cron is dispatching
    cancelled,  \* rs.ctx is cancelled
    closed      \* rs.collector is closed

mutex == <<announced, writer, readers>>
cron == <<entries, cronOn>>
vars == <<every, op, job, mutex, running, cron, cancelled, closed>>

CallerStates == {"idle", "start", "startWait", "starting",
                 "stop", "stopWait", "stopping", "draining",
                 "info", "reading"}
JobStates == {"none", "spawned", "timing", "working"}

Init == /\ every \in BOOLEAN
        /\ op = [t \in Callers |-> "idle"]
        /\ job = [j \in Jobs |-> "none"]
        /\ announced = None /\ writer = None /\ readers = {}
        /\ running = FALSE
        /\ entries = 0 /\ cronOn = FALSE
        /\ cancelled = FALSE /\ closed = FALSE

(***************************************************************************)
(* sync.RWMutex: a writer first keeps later readers and writers out, then  *)
(* waits for the readers inside to leave.                                  *)
(***************************************************************************)
Announce(t) == /\ announced = None
               /\ announced' = t
               /\ UNCHANGED <<writer, readers>>

Acquire(t) == /\ announced = t /\ writer = None /\ readers = {}
              /\ writer' = t
              /\ UNCHANGED <<announced, readers>>

Unlock == /\ announced' = None /\ writer' = None
          /\ UNCHANGED readers

RLock(t) == /\ announced = None
            /\ readers' = readers \union {t}
            /\ UNCHANGED <<announced, writer>>

RUnlock(t) == /\ readers' = readers \ {t}
              /\ UNCHANGED <<announced, writer>>

Goto(t, place) == op' = [op EXCEPT ![t] = place]

(***************************************************************************)
(* Start and Stop take the write lock.  Several goroutines may call Start  *)
(* at once, or Stop.  The mutex of the SchedulerManager keeps the ones     *)
(* apart from the others, and nothing in the program starts a scheduler    *)
(* that was stopped: a restart builds a new RefundScheduler.               *)
(***************************************************************************)
Calling(states) == \E t \in Callers : op[t] \in states

CallStart(t) ==
    /\ op[t] = "idle"
    /\ ~closed /\ ~Calling({"stop", "stopWait", "stopping", "draining"})
    /\ Goto(t, "start")
    /\ UNCHANGED <<job, mutex, running, cron, cancelled, closed>>

CallStop(t) ==
    /\ op[t] = "idle"
    /\ ~Calling({"start", "startWait", "starting"})
    /\ Goto(t, "stop")
    /\ UNCHANGED <<job, mutex, running, cron, cancelled, closed>>

WaitForLock(t) ==
    /\ op[t] \in {"start", "stop"}
    /\ Announce(t)
    /\ Goto(t, IF op[t] = "start" THEN "startWait" ELSE "stopWait")
    /\ UNCHANGED <<job, running, cron, cancelled, closed>>

Lock(t) ==
    /\ op[t] \in {"startWait", "stopWait"}
    /\ Acquire(t)
    /\ Goto(t, IF op[t] = "startWait" THEN "starting" ELSE "stopping")
    /\ UNCHANGED <<job, running, cron, cancelled, closed>>

\* Mutant: Start does not look at running.
StartLockedAgain(t) ==
    /\ op[t] = "starting"
    /\ entries' = entries + 1 /\ cronOn' = TRUE
    /\ running' = TRUE
    /\ Unlock
    /\ Goto(t, "idle")
    /\ UNCHANGED <<job, cancelled, closed>>

\* The second Start is refused; the schedule may be one that cron refuses.
StartLocked(t) ==
    /\ op[t] = "starting"
    /\ \/ UNCHANGED <<running, cron>>
       \/ /\ ~running
          /\ entries' = entries + 1 /\ cronOn' = TRUE
          /\ running' = TRUE
    /\ Unlock
    /\ Goto(t, "idle")
    /\ UNCHANGED <<job, cancelled, closed>>

\* Mutant: the collector is closed before the jobs have ended.
StopCronAndClose(t) ==
    /\ op[t] = "stopping"
    /\ \/ /\ running
          /\ cronOn' = FALSE /\ closed' = TRUE
          /\ Goto(t, "draining")
          /\ UNCHANGED <<entries, mutex>>
       \/ /\ ~running
          /\ Unlock
          /\ Goto(t, "idle")
          /\ UNCHANGED <<cron, closed>>
    /\ UNCHANGED <<job, running, cancelled>>

\* Mutant: cron goes on dispatching while Stop waits.
StopCronLater(t) ==
    /\ op[t] = "stopping"
    /\ \/ /\ running
          /\ Goto(t, "draining")
          /\ UNCHANGED mutex
       \/ /\ ~running
          /\ Unlock
          /\ Goto(t, "idle")
    /\ UNCHANGED <<job, running, cron, cancelled, closed>>

\* Mutant: the early return leaves the mutex locked.
StopCronStaysLocked(t) ==
    /\ op[t] = "stopping"
    /\ \/ /\ running
          /\ cronOn' = FALSE
          /\ Goto(t, "draining")
          /\ UNCHANGED entries
       \/ /\ ~running
          /\ Goto(t, "idle")
          /\ UNCHANGED cron
    /\ UNCHANGED <<job, mutex, running, cancelled, closed>>

\* Nothing to do when the scheduler is not running.
StopCron(t) ==
    /\ op[t] = "stopping"
    /\ \/ /\ running
          /\ cronOn' = FALSE
          /\ Goto(t, "draining")
          /\ UNCHANGED <<entries, mutex>>
       \/ /\ ~running
          /\ Unlock
          /\ Goto(t, "idle")
          /\ UNCHANGED cron
    /\ UNCHANGED <<job, running, cancelled, closed>>

\* Mutant: Stop does not wait for the context that cron.Stop returns.
StopDrainedAtOnce(t) ==
    /\ op[t] = "draining"
    /\ cancelled' = TRUE /\ closed' = TRUE /\ running' = FALSE
    /\ Unlock
    /\ Goto(t, "idle")
    /\ UNCHANGED <<job, cron>>

\* <-ctx.Done() returns once no job is left, and Stop finishes.
StopDrained(t) ==
    /\ op[t] = "draining"
    /\ \A j \in Jobs : job[j] = "none"
    /\ cancelled' = TRUE /\ closed' = TRUE /\ running' = FALSE
    /\ Unlock
    /\ Goto(t, "idle")
    /\ UNCHANGED <<job, cron>>

(***************************************************************************)
(* IsRunning and GetNextRun read under the read lock and change nothing.   *)
(***************************************************************************)
CallInfo(t) ==
    /\ op[t] = "idle"
    /\ Goto(t, "info")
    /\ UNCHANGED <<job, mutex, running, cron, cancelled, closed>>

RLockForInfo(t) ==
    /\ op[t] = "info"
    /\ RLock(t)
    /\ Goto(t, "reading")
    /\ UNCHANGED <<job, running, cron, cancelled, closed>>

EndInfo(t) ==
    /\ op[t] = "reading"
    /\ RUnlock(t)
    /\ Goto(t, "idle")
    /\ UNCHANGED <<job, running, cron, cancelled, closed>>

(***************************************************************************)
(* The jobs.                                                               *)
(***************************************************************************)
\* Each registered entry gets a goroutine when it is due, whether or not the
\* one before has ended.
Fire(j) ==
    /\ cronOn /\ entries > 0
    /\ job[j] = "none"
    /\ job' = [job EXCEPT ![j] = "spawned"]
    /\ UNCHANGED <<op, mutex, running, cron, cancelled, closed>>

\* scheduleInterval returns early for "@every d"; for another schedule it
\* asks, under the read lock, when the next run is.
JobNeedsLock == ~every

BeginTiming(j) ==
    /\ job[j] = "spawned"
    /\ IF JobNeedsLock
       THEN RLock(j) /\ job' = [job EXCEPT ![j] = "timing"]
       ELSE UNCHANGED mutex /\ job' = [job EXCEPT ![j] = "working"]
    /\ UNCHANGED <<op, running, cron, cancelled, closed>>

EndTiming(j) ==
    /\ job[j] = "timing"
    /\ RUnlock(j)
    /\ job' = [job EXCEPT ![j] = "working"]
    /\ UNCHANGED <<op, running, cron, cancelled, closed>>

\* processAccounts returns; RefundCycle has the detail.
EndCycle(j) ==
    /\ job[j] = "working"
    /\ job' = [job EXCEPT ![j] = "none"]
    /\ UNCHANGED <<op, mutex, running, cron, cancelled, closed>>

Call(t) == CallStart(t) \/ CallStop(t) \/ CallInfo(t)

GoOn(t) == \/ WaitForLock(t) \/ Lock(t)
           \/ StartLocked(t) \/ StopCron(t) \/ StopDrained(t)
           \/ RLockForInfo(t) \/ EndInfo(t)

JobStep(j) == BeginTiming(j) \/ EndTiming(j) \/ EndCycle(j)

\* The schedule of a scheduler is fixed.
Next == /\ \/ \E t \in Callers : Call(t) \/ GoOn(t)
           \/ \E j \in Jobs : Fire(j) \/ JobStep(j)
        /\ UNCHANGED every

\* Goroutines that can run do.  The mutex lets nobody wait for ever while it
\* is handed from one to another, hence strong fairness.
Fairness == /\ \A t \in Callers : SF_vars(GoOn(t) /\ UNCHANGED every)
            /\ \A j \in Jobs : SF_vars(JobStep(j) /\ UNCHANGED every)

Spec == Init /\ [][Next]_vars /\ Fairness

(***************************************************************************)
(* Properties.                                                             *)
(***************************************************************************)
\* Types, and who holds rs.mutex: a call that returns has let go of it.
TypeOK == /\ every \in BOOLEAN
          /\ op \in [Callers -> CallerStates]
          /\ job \in [Jobs -> JobStates]
          /\ announced \in Callers \union {None}
          /\ writer \in Callers \union {None}
          /\ readers \subseteq Callers \union Jobs
          /\ running \in BOOLEAN
          /\ entries \in Nat
          /\ cronOn \in BOOLEAN
          /\ cancelled \in BOOLEAN /\ closed \in BOOLEAN
          /\ \A t \in Callers :
              /\ announced = t <=> op[t] \in {"startWait", "starting", "stopWait",
                                              "stopping", "draining"}
              /\ writer = t <=> op[t] \in {"starting", "stopping", "draining"}
          /\ readers = {t \in Callers : op[t] = "reading"}
                         \union {j \in Jobs : job[j] = "timing"}
          /\ writer # None => readers = {}

\* Once a scheduler says it is stopped, no refund is in progress and none
\* will begin, however the calls and the schedule interleave.
QuietWhenStopped ==
    ~running => ~cronOn /\ \A j \in Jobs : job[j] = "none"

\* A cycle never works with a collector that Stop has closed, nor with a
\* context it has cancelled: Stop lets running cycles finish.
WorksWithOpenCollector ==
    \A j \in Jobs : job[j] = "working" => ~closed /\ ~cancelled

\* Start registers the refund job once, even if two goroutines call it: with
\* a second entry every activation would refund twice.
OneEntry == entries <= 1

\* Who is held up by nobody: by neither the mutex nor, in Stop, the jobs.
MayGoOn(t) == \/ op[t] \in {"start", "stop", "info"} /\ announced = None
              \/ op[t] \in {"startWait", "stopWait"} /\ writer = None /\ readers = {}
              \/ op[t] \in {"starting", "stopping", "reading"}
              \/ op[t] = "draining" /\ \A j \in Jobs : job[j] = "none"

JobMayGoOn(j) == \/ job[j] = "spawned" /\ (every \/ announced = None)
                 \/ job[j] \in {"timing", "working"}

AtWork == (\E t \in Callers : op[t] # "idle") \/ (\E j \in Jobs : job[j] # "none")

\* All that work here wait for one another in one case only: Stop, which has
\* the write lock, waits for jobs of which each has yet to ask for the next run
\* of a cron expression under the read lock.
DeadlocksInStopOnly ==
    AtWork /\ (\A t \in Callers : ~MayGoOn(t)) /\ (\A j \in Jobs : ~JobMayGoOn(j))
        => /\ ~every
           /\ \E t \in Callers : op[t] = "draining"
           /\ \E j \in Jobs : job[j] = "spawned"

\* "Stop stops the refund scheduler": every call of Stop returns.
StopReturns ==
    \A t \in Callers :
        op[t] \in {"stop", "stopWait", "stopping", "draining"} ~> op[t] = "idle"

\* With an "@every" schedule, whose jobs need no lock, it really does.
EveryStopReturns ==
    \A t \in Callers :
        every /\ op[t] \in {"stop", "stopWait", "stopping", "draining"}
          ~> op[t] = "idle"

\* The scheduler seen from outside, as SchedulerLife describes it.
life ==
    IF closed THEN "stopped"
    ELSE IF ~running THEN "fresh"
    ELSE IF cronOn THEN "active"
    ELSE "draining"

Abstract == INSTANCE SchedulerLife
              WITH busy <- \E j \in Jobs : job[j] # "none"

\* The locks, the two callers and the jobs together keep the contract that the
\* manager counts on: cycles begin only between Start and Stop, and Stop comes
\* back after the last of them.
ImplementsSchedulerLife == Abstract!Spec
=============================================================================
