---------------------------- MODULE SchedulerLife ----------------------------
(***************************************************************************)
(* What a RefundScheduler (pkg/scheduler/scheduler.go) promises those who  *)
(* start and stop it, without its mutex, its goroutines and the cron       *)
(* library.  Cycles begin only while it is active.  A Stop first ends that *)
(* and returns once the last cycle has ended; a scheduler that has been    *)
(* stopped does nothing more.                                              *)
(***************************************************************************)

VARIABLES
    life,       \* how far the scheduler has come
    busy        \* a cycle is in progress

lifeVars == <<life, busy>>

Init == life = "fresh" /\ busy = FALSE

Start == /\ life = "fresh" /\ life' = "active"
         /\ UNCHANGED busy

BeginCycle == /\ life = "active" /\ busy' = TRUE
              /\ UNCHANGED life

EndCycle == /\ busy /\ busy' = FALSE
            /\ UNCHANGED life

\* Stop has told cron to start no other cycle.
StopCron == /\ life = "active" /\ life' = "draining"
            /\ UNCHANGED busy

StopReturns == /\ life = "draining" /\ ~busy
               /\ life' = "stopped"
               /\ UNCHANGED busy

Next == Start \/ BeginCycle \/ EndCycle \/ StopCron \/ StopReturns

Spec == Init /\ [][Next]_lifeVars
=============================================================================
