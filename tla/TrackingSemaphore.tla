------------------------- MODULE TrackingSemaphore -------------------------
(***************************************************************************)
(* The tracking semaphore of uvm8_gpu_semaphore.c: a 32-bit payload that   *)
(* the GPU writes, and a 64-bit completed_value that the CPU derives from  *)
(* it.  Threads wait for a value by polling: an unlocked look at           *)
(* completed_value first, then an update under the semaphore's lock.       *)
(*                                                                         *)
(* The GPU writes the payload and other threads read completed_value while *)
(* an update is between its read of the payload and its store, so these    *)
(* are separate steps.                                                     *)
(***************************************************************************)
EXTENDS Integers

CONSTANTS PayloadRange,  \* 2^32: the payload is an NvU32
          Window,        \* pushes that may be pending on the channel at once
          MaxQueued,     \* bound on the pushes of a behaviour
          Waiters,
          NoThread

ASSUME TrackingSemaphoreAssumption ==
    /\ PayloadRange \in Nat
    /\ Window \in Nat
    /\ Window < PayloadRange
    /\ MaxQueued \in Nat
    /\ NoThread \notin Waiters

VARIABLES
    queued_value,     \* last value the channel asked the GPU to release
    released,         \* last value the GPU has released, at full width
    payload,          \* the semaphore's memory
    completed_value,  \* atomic64
    lock,             \* holder of the semaphore's spin lock
    s_pc,
    value,            \* the value a thread waits for, or was last told is done
                      \* (0: it only updates completed_value)
    old_value,        \* update_completed_value_locked's locals, 0 outside
    new_sem_value

sem_vars == <<queued_value, released, payload, completed_value, lock, s_pc, value,
          old_value, new_sem_value>>

SemInit ==
    /\ queued_value = 0
    /\ released = 0
    /\ payload = 0
    /\ completed_value = 0
    /\ lock = NoThread
    /\ s_pc = [t \in Waiters |-> "idle"]
    /\ value = [t \in Waiters |-> 0]
    /\ old_value = [t \in Waiters |-> 0]
    /\ new_sem_value = [t \in Waiters |-> 0]
-----------------------------------------------------------------------------
(***************************************************************************)
(* uvm_channel_end_push queues a release of the next value.  A channel has *)
(* one push per GPFIFO entry at most, and an entry is only reused after    *)
(* completed_value has passed it: that is the window.                      *)
(***************************************************************************)
QueueRelease ==
    /\ queued_value < MaxQueued
    /\ queued_value - completed_value < Window
    /\ queued_value' = queued_value + 1
    /\ UNCHANGED <<released, payload, completed_value, lock, s_pc, value,
                   old_value, new_sem_value>>

\* The GPU finishes the next push: semaphore_release writes (NvU32)value.
GpuRelease ==
    /\ released < queued_value
    /\ released' = released + 1
    /\ payload' = (released + 1) % PayloadRange
    /\ UNCHANGED <<queued_value, completed_value, lock, s_pc, value, old_value,
                   new_sem_value>>
-----------------------------------------------------------------------------
WaiterGoto(t, l) == s_pc' = [s_pc EXCEPT ![t] = l]

\* A thread starts to wait for a value it has queued.
uvm_tracker_wait_for_entry(t, v) ==
    /\ s_pc[t] = "idle"
    /\ WaiterGoto(t, "poll")
    /\ value' = [value EXCEPT ![t] = v]
    /\ UNCHANGED <<queued_value, released, payload, completed_value, lock,
                   old_value, new_sem_value>>

\* uvm_channel_update_progress only wants completed_value brought up to date.
uvm_gpu_tracking_semaphore_update_completed_value(t) ==
    /\ s_pc[t] = "idle"
    /\ WaiterGoto(t, "lock")
    /\ value' = [value EXCEPT ![t] = 0]
    /\ UNCHANGED <<queued_value, released, payload, completed_value, lock,
                   old_value, new_sem_value>>

\* Mutant: off by one in the unlocked comparison.
PollOneEarly(t) ==
    /\ s_pc[t] = "poll"
    /\ WaiterGoto(t, IF completed_value + 1 >= value[t] THEN "idle" ELSE "lock")
    /\ UNCHANGED <<queued_value, released, payload, completed_value, lock,
                   value, old_value, new_sem_value>>

\* The unlocked look at completed_value.
uvm_gpu_tracking_semaphore_is_value_completed(t) ==
    /\ s_pc[t] = "poll"
    /\ WaiterGoto(t, IF completed_value >= value[t] THEN "idle" ELSE "lock")
    /\ UNCHANGED <<queued_value, released, payload, completed_value, lock,
                   value, old_value, new_sem_value>>

AcquireLock(t) ==
    /\ s_pc[t] = "lock"
    /\ lock = NoThread
    /\ lock' = t
    /\ WaiterGoto(t, "read")
    /\ UNCHANGED <<queued_value, released, payload, completed_value, value,
                   old_value, new_sem_value>>

ReadPayload(t) ==
    /\ s_pc[t] = "read"
    /\ old_value' = [old_value EXCEPT ![t] = completed_value]
    /\ new_sem_value' = [new_sem_value EXCEPT ![t] = payload]
    /\ WaiterGoto(t, "set")
    /\ UNCHANGED <<queued_value, released, payload, completed_value, lock,
                   value>>

\* Mutants: the wrap is not noticed; no change is taken for a wrap.
ExtendNoWrap(old, sem) == (old - (old % PayloadRange)) + sem
ExtendEqualWraps(old, sem) ==
    (old - (old % PayloadRange)) + sem
        + (IF sem <= old % PayloadRange THEN PayloadRange ELSE 0)

\* Replace the bottom 32 bits of old by the payload; if that went backwards
\* the payload has wrapped, and 2^32 is added.
Extend(old, sem) ==
    (old - (old % PayloadRange)) + sem
        + (IF sem < old % PayloadRange THEN PayloadRange ELSE 0)

\* Store the new value, unlock and compare: done, or poll again.
update_completed_value_locked(t) ==
    LET new_value == Extend(old_value[t], new_sem_value[t]) IN
    /\ s_pc[t] = "set"
    /\ completed_value' = new_value
    /\ lock' = NoThread
    /\ WaiterGoto(t, IF new_value >= value[t] THEN "idle" ELSE "poll")
    /\ old_value' = [old_value EXCEPT ![t] = 0]
    /\ new_sem_value' = [new_sem_value EXCEPT ![t] = 0]
    /\ UNCHANGED <<queued_value, released, payload, value>>
-----------------------------------------------------------------------------
WaiterStep(t) ==
    \/ uvm_gpu_tracking_semaphore_is_value_completed(t)
    \/ AcquireLock(t)
    \/ ReadPayload(t)
    \/ update_completed_value_locked(t)

SemCall(t) ==
    \/ \E v \in 1 .. queued_value : uvm_tracker_wait_for_entry(t, v)
    \/ uvm_gpu_tracking_semaphore_update_completed_value(t)

SemNext ==
    \/ QueueRelease
    \/ GpuRelease
    \/ \E t \in Waiters : WaiterStep(t) \/ SemCall(t)

(***************************************************************************)
(* The GPU works off its queue and the kernel schedules spinning threads.  *)
(* The spin lock is not fair, so a thread is only sure to get it if it     *)
(* finds it free again and again: strong fairness, for the acquisition.    *)
(***************************************************************************)
SemFairness ==
    /\ WF_sem_vars(GpuRelease)
    /\ \A t \in Waiters : WF_sem_vars(WaiterStep(t)) /\ SF_sem_vars(AcquireLock(t))

SemSpec == SemInit /\ [][SemNext]_sem_vars
FairSemSpec == SemSpec /\ SemFairness
-----------------------------------------------------------------------------
SemTypeOK ==
    /\ queued_value \in Nat
    /\ released \in Nat
    /\ payload \in 0 .. (PayloadRange - 1)
    /\ completed_value \in Nat
    /\ lock \in Waiters \cup {NoThread}
    /\ s_pc \in [Waiters -> {"idle", "poll", "lock", "read", "set"}]
    /\ value \in [Waiters -> Nat]
    /\ old_value \in [Waiters -> Nat]
    /\ new_sem_value \in [Waiters -> 0 .. (PayloadRange - 1)]

(***************************************************************************)
(* A wait that returned is truthful: the GPU has released every value a    *)
(* thread was told is complete, across every wrap of the 32-bit payload    *)
(* and whatever other threads update in between.                           *)
(***************************************************************************)
ToldIsReleased ==
    \A t \in Waiters : s_pc[t] = "idle" => value[t] <= released

(***************************************************************************)
(* completed_value is read outside the lock, so it never decreases: a      *)
(* value once seen complete stays complete for every thread.               *)
(***************************************************************************)
CompletedNeverDecreases == [][completed_value' >= completed_value]_sem_vars

(***************************************************************************)
(* A thread that waits for a queued value stops waiting.                   *)
(***************************************************************************)
WaitReturns == \A t \in Waiters : s_pc[t] = "poll" ~> s_pc[t] = "idle"

\* The tracking semaphore implements the counter it stands for.
Counter == INSTANCE CompletionSpec
             WITH queued <- queued_value, known <- completed_value

(***************************************************************************)
(* The wrapped payload and the concurrent updates are invisible: the       *)
(* driver's view only moves forward and never past the GPU.                *)
(***************************************************************************)
ImplementsCounter == Counter!CSpec
=============================================================================
