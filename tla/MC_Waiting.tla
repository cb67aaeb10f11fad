----------------------------- MODULE MC_Waiting -----------------------------
(***************************************************************************)
(* Who waits for whom in the kernel: callers for the thread of a queue     *)
(* (KthreadQ), waiters for the GPU and for a spin lock                     *)
(* (TrackingSemaphore), threads for isr_lock and for the bottom half       *)
(* (FaultIsr).  The three share no state: a behaviour is one of one of     *)
(* them, and the others stay as they start, where nothing of theirs that   *)
(* is fair is enabled.                                                     *)
(*                                                                         *)
(* The queue has an item that reschedules itself and two callers, of which *)
(* one flushes while the other schedules, flushes or stops; with the flush *)
(* items of the callers the list is up to three long.  The semaphore's     *)
(* payload wraps twice within the values that may be queued.  Of the three *)
(* threads one removes or retains the GPU, one holds isr_lock, one waits.  *)
(***************************************************************************)
EXTENDS KthreadQ, TrackingSemaphore, FaultIsr

VARIABLE part

MCInit ==
    /\ part \in {"queue", "semaphore", "interrupt"}
    /\ QueueInit /\ SemInit /\ IsrInit

MCNext ==
    /\ UNCHANGED part
    /\ \/ part = "queue" /\ QueueNext /\ UNCHANGED <<sem_vars, isr_vars>>
       \/ part = "semaphore" /\ SemNext /\ UNCHANGED <<q_vars, isr_vars>>
       \/ part = "interrupt" /\ IsrNext /\ UNCHANGED <<q_vars, sem_vars>>

MCSpec ==
    /\ MCInit /\ [][MCNext]_<<part, q_vars, sem_vars, isr_vars>>
    /\ QueueFairness /\ SemFairness /\ IsrFairness
=============================================================================
