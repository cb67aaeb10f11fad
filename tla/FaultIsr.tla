----------------------------- MODULE FaultIsr ------------------------------
(***************************************************************************)
(* The interrupt of one GPU's replayable faults against the life cycle of  *)
(* the GPU object (uvm8_gpu_page_fault.c, uvm8_gpu.c).  The top half takes *)
(* isr_lock and leaves it to the bottom half, which runs on the GPU's work *)
(* queue; threads take it after raising disable_intr_ref_count; the last   *)
(* release of the GPU removes the object while interrupts still arrive.    *)
(*                                                                         *)
(* A physical GPU is added and removed any number of times, each time with *)
(* a new uvm_gpu_t at an address that nobody uses.  A section under        *)
(* page_fault_interrupts_lock or gpu_table_lock is one step.               *)
(***************************************************************************)
EXTENDS Integers, FiniteSets

CONSTANTS
  Threads,      \* threads of the processes that use the GPU
  Objects,      \* addresses of uvm_gpu_t
  AddFailures   \* steps of add_gpu that may fail

None == "none"
NoGpu == "no gpu"
BottomHalf == "bottom half"
AddSteps == {"init", "queue", "register"}

ASSUME FaultIsrAssumption ==
  /\ IsFiniteSet(Threads) /\ None \notin Threads /\ BottomHalf \notin Threads
  /\ NoGpu \notin Objects
  /\ AddFailures \subseteq AddSteps

VARIABLES
  gpu_table,       \* the GPU's entry in g_uvm_global.gpus
  global_lock,     \* the thread holding g_uvm_global.global_lock
  intr_enabled,    \* the GPU raises an interrupt for replayable faults
  intr_owned,      \* UVM owns the interrupt, not RM
  gpu_kref, retained_count,
  handling_replayable_faults, disable_intr_ref_count,
  isr_lock,        \* object -> holder of the mutex
  scheduled,       \* object -> bottom_half_q_item is on bottom_half_q
  bh_pc,           \* object -> what the work queue's thread is doing
  top,             \* the top half: [pc, gpu]
  pc, gpu_of,      \* thread -> what it is doing, and with which object
  retains          \* thread -> whether it has gpu_of retained

object_vars == <<gpu_kref, retained_count, handling_replayable_faults,
                 disable_intr_ref_count, isr_lock, scheduled, bh_pc>>
thread_vars == <<global_lock, pc, gpu_of, retains>>
isr_vars == <<gpu_table, intr_enabled, intr_owned, top, object_vars, thread_vars>>

IsrInit ==
  /\ gpu_table = NoGpu /\ global_lock = None
  /\ intr_enabled = FALSE /\ intr_owned = FALSE
  /\ gpu_kref = [g \in Objects |-> 0]
  /\ retained_count = [g \in Objects |-> 0]
  /\ handling_replayable_faults = [g \in Objects |-> FALSE]
  /\ disable_intr_ref_count = [g \in Objects |-> 0]
  /\ isr_lock = [g \in Objects |-> None]
  /\ scheduled = [g \in Objects |-> FALSE]
  /\ bh_pc = [g \in Objects |-> "idle"]
  /\ top = [pc |-> "idle", gpu |-> NoGpu]
  /\ pc = [t \in Threads |-> "idle"]
  /\ gpu_of = [t \in Threads |-> NoGpu]
  /\ retains = [t \in Threads |-> FALSE]

Goto(t, label) == pc' = [pc EXCEPT ![t] = label]

-----------------------------------------------------------------------------
(* Helpers called under page_fault_interrupts_lock.                        *)

uvm_gpu_disable_replayable_faults(g) ==
  /\ disable_intr_ref_count' = [disable_intr_ref_count EXCEPT ![g] = @ + 1]
  /\ intr_enabled' = (intr_enabled /\ disable_intr_ref_count[g] # 0)

EnableAtOnce(g) ==
  /\ disable_intr_ref_count' = [disable_intr_ref_count EXCEPT ![g] = @ - 1]
  /\ intr_enabled' = TRUE
uvm_gpu_enable_replayable_faults(g) ==
  /\ disable_intr_ref_count' = [disable_intr_ref_count EXCEPT ![g] = @ - 1]
  /\ intr_enabled' = (intr_enabled \/ disable_intr_ref_count[g] = 1)

uvm_gpu_kref_put(g) == gpu_kref' = [gpu_kref EXCEPT ![g] = @ - 1]

-----------------------------------------------------------------------------
(* The top half, called by RM for every interrupt of the GPU.              *)

top_half_get_gpu ==
  /\ top.pc = "idle" /\ gpu_table # NoGpu
  /\ gpu_kref' = [gpu_kref EXCEPT ![gpu_table] = @ + 1]
  /\ top' = [pc |-> "locked", gpu |-> gpu_table]
  /\ UNCHANGED <<gpu_table, intr_enabled, intr_owned, retained_count,
                 handling_replayable_faults, disable_intr_ref_count, isr_lock,
                 scheduled, bh_pc, thread_vars>>

(* pending is what uvm_replayable_faults_pending returns.                  *)
uvm8_isr_top_half(pending) ==
  LET g == top.gpu
  IN /\ top.pc = "locked"
     /\ \/ /\ handling_replayable_faults[g] /\ isr_lock[g] = None /\ pending
           /\ isr_lock' = [isr_lock EXCEPT ![g] = BottomHalf]
           /\ scheduled' = [scheduled EXCEPT ![g] = TRUE]
           /\ uvm_gpu_disable_replayable_faults(g)
           /\ top' = [pc |-> "idle", gpu |-> NoGpu]
        \/ /\ ~(handling_replayable_faults[g] /\ isr_lock[g] = None /\ pending)
           /\ top' = [top EXCEPT !.pc = "put"]
           /\ UNCHANGED <<isr_lock, scheduled, disable_intr_ref_count, intr_enabled>>
     /\ UNCHANGED <<gpu_table, intr_owned, gpu_kref, retained_count,
                    handling_replayable_faults, bh_pc, thread_vars>>

top_half_done ==
  /\ top.pc = "put"
  /\ uvm_gpu_kref_put(top.gpu)
  /\ top' = [pc |-> "idle", gpu |-> NoGpu]
  /\ UNCHANGED <<gpu_table, intr_enabled, intr_owned, retained_count,
                 handling_replayable_faults, disable_intr_ref_count, isr_lock,
                 scheduled, bh_pc, thread_vars>>

-----------------------------------------------------------------------------
UnlockOnlyIfHandling(g) ==
  \/ /\ handling_replayable_faults[g]
     /\ uvm_gpu_enable_replayable_faults(g)
     /\ isr_lock' = [isr_lock EXCEPT ![g] = None]
  \/ /\ ~handling_replayable_faults[g]
     /\ UNCHANGED <<disable_intr_ref_count, intr_enabled, isr_lock>>

(* uvm_gpu_isr_unlock, the tail of the bottom half and of a thread's use.  *)
uvm_gpu_isr_unlock(g) ==
  /\ \/ /\ handling_replayable_faults[g]
        /\ uvm_gpu_enable_replayable_faults(g)
     \/ /\ ~handling_replayable_faults[g]
        /\ UNCHANGED <<disable_intr_ref_count, intr_enabled>>
  /\ isr_lock' = [isr_lock EXCEPT ![g] = None]

StartUnlessWaitedFor(g) ==
  /\ scheduled[g] /\ bh_pc[g] = "idle" /\ \A t \in Threads : pc[t] # "lock"
  /\ scheduled' = [scheduled EXCEPT ![g] = FALSE]
  /\ bh_pc' = [bh_pc EXCEPT ![g] = "service"]
  /\ UNCHANGED <<gpu_table, intr_enabled, intr_owned, top, gpu_kref,
                 retained_count, handling_replayable_faults,
                 disable_intr_ref_count, isr_lock, thread_vars>>

(* The work queue takes the item off its list and calls it; the item may   *)
(* be scheduled again from then on.                                        *)
bottom_half_start(g) ==
  /\ scheduled[g] /\ bh_pc[g] = "idle"
  /\ scheduled' = [scheduled EXCEPT ![g] = FALSE]
  /\ bh_pc' = [bh_pc EXCEPT ![g] = "service"]
  /\ UNCHANGED <<gpu_table, intr_enabled, intr_owned, top, gpu_kref,
                 retained_count, handling_replayable_faults,
                 disable_intr_ref_count, isr_lock, thread_vars>>

(* The end of service_fault_buffer and the uvm_gpu_isr_unlock after it.    *)
bottom_half_unlock(g) ==
  /\ bh_pc[g] = "service"
  /\ uvm_gpu_isr_unlock(g)
  /\ bh_pc' = [bh_pc EXCEPT ![g] = "put"]
  /\ UNCHANGED <<gpu_table, intr_owned, top, gpu_kref, retained_count,
                 handling_replayable_faults, scheduled, thread_vars>>

DoneWithoutPut(g) ==
  /\ bh_pc[g] = "put"
  /\ bh_pc' = [bh_pc EXCEPT ![g] = "idle"]
  /\ UNCHANGED <<gpu_table, intr_enabled, intr_owned, top, gpu_kref, retained_count,
                 handling_replayable_faults, disable_intr_ref_count, isr_lock,
                 scheduled, thread_vars>>
bottom_half_done(g) ==
  /\ bh_pc[g] = "put"
  /\ uvm_gpu_kref_put(g)
  /\ bh_pc' = [bh_pc EXCEPT ![g] = "idle"]
  /\ UNCHANGED <<gpu_table, intr_enabled, intr_owned, top, retained_count,
                 handling_replayable_faults, disable_intr_ref_count, isr_lock,
                 scheduled, thread_vars>>

-----------------------------------------------------------------------------
(* Threads that take isr_lock: a thread that has the GPU retained flushes  *)
(* the fault buffer; one that removes another GPU (remove_gpus_from_gpu),  *)
(* and so holds the global lock, waits for the replay tracker.             *)

isr_lock_disable(g) ==
  \/ handling_replayable_faults[g] /\ uvm_gpu_disable_replayable_faults(g)
  \/ ~handling_replayable_faults[g] /\ UNCHANGED <<disable_intr_ref_count, intr_enabled>>

uvm_gpu_fault_buffer_flush(t) ==
  /\ pc[t] = "idle" /\ retains[t]
  /\ isr_lock_disable(gpu_of[t])
  /\ Goto(t, "lock")
  /\ UNCHANGED <<gpu_table, intr_owned, top, gpu_kref, retained_count,
                 handling_replayable_faults, isr_lock, scheduled, bh_pc,
                 global_lock, gpu_of, retains>>

remove_gpus_from_gpu(t) ==
  /\ pc[t] = "idle" /\ ~retains[t]
  /\ global_lock = None /\ gpu_table # NoGpu
  /\ handling_replayable_faults[gpu_table]
  /\ isr_lock_disable(gpu_table)
  /\ global_lock' = t
  /\ gpu_of' = [gpu_of EXCEPT ![t] = gpu_table]
  /\ Goto(t, "lock")
  /\ UNCHANGED <<gpu_table, intr_owned, top, gpu_kref, retained_count,
                 handling_replayable_faults, isr_lock, scheduled, bh_pc, retains>>

isr_lock_mutex(t) ==
  /\ pc[t] = "lock" /\ isr_lock[gpu_of[t]] = None
  /\ isr_lock' = [isr_lock EXCEPT ![gpu_of[t]] = t]
  /\ Goto(t, "locked")
  /\ UNCHANGED <<gpu_table, intr_enabled, intr_owned, top, gpu_kref,
                 retained_count, handling_replayable_faults,
                 disable_intr_ref_count, scheduled, bh_pc, global_lock, gpu_of, retains>>

thread_isr_unlock(t) ==
  /\ pc[t] = "locked"
  /\ uvm_gpu_isr_unlock(gpu_of[t])
  /\ global_lock' = IF global_lock = t THEN None ELSE global_lock
  /\ Goto(t, "idle")
  /\ UNCHANGED <<gpu_table, intr_owned, top, gpu_kref, retained_count,
                 handling_replayable_faults, scheduled, bh_pc, gpu_of, retains>>

-----------------------------------------------------------------------------
(* uvm_gpu_retain_by_uuid, and uvm_gpu_retain by a thread of the process.  *)
uvm_gpu_retain_by_uuid(t) ==
  /\ pc[t] = "idle" /\ ~retains[t]
  /\ global_lock = None /\ gpu_table # NoGpu
  /\ retained_count' = [retained_count EXCEPT ![gpu_table] = @ + 1]
  /\ gpu_of' = [gpu_of EXCEPT ![t] = gpu_table]
  /\ retains' = [retains EXCEPT ![t] = TRUE]
  /\ UNCHANGED <<gpu_table, intr_enabled, intr_owned, top, gpu_kref,
                 handling_replayable_faults, disable_intr_ref_count, isr_lock,
                 scheduled, bh_pc, global_lock, pc>>

(* The new object, zeroed, is invisible to others until it is in the       *)
(* table.  The order is: fault buffer (which takes the interrupt from RM), *)
(* work queue, handling_replayable_faults, registrations, table and        *)
(* interrupt; every failure ends in remove_gpu.                            *)
alloc_gpu(t, g) ==
  /\ gpu_kref[g] = 0
  /\ gpu_of' = [gpu_of EXCEPT ![t] = g]
  /\ gpu_kref' = [gpu_kref EXCEPT ![g] = 1]
  /\ disable_intr_ref_count' = [disable_intr_ref_count EXCEPT ![g] = 0]
  /\ isr_lock' = [isr_lock EXCEPT ![g] = None]

add_gpu(t, g) ==
  /\ pc[t] = "idle" /\ ~retains[t]
  /\ global_lock = None /\ gpu_table = NoGpu
  /\ alloc_gpu(t, g)
  /\ handling_replayable_faults' = [handling_replayable_faults EXCEPT ![g] = TRUE]
  /\ intr_owned' = TRUE /\ intr_enabled' = TRUE
  /\ gpu_table' = g
  /\ retained_count' = [retained_count EXCEPT ![g] = 1]
  /\ retains' = [retains EXCEPT ![t] = TRUE]
  /\ UNCHANGED <<top, scheduled, bh_pc, pc, global_lock>>

add_gpu_fails(t, g, step) ==
  /\ pc[t] = "idle" /\ ~retains[t]
  /\ global_lock = None /\ gpu_table = NoGpu
  /\ alloc_gpu(t, g)
  /\ handling_replayable_faults' = [handling_replayable_faults EXCEPT ![g] = (step = "register")]
  /\ intr_owned' \in IF step = "init" THEN {intr_owned, FALSE} ELSE {TRUE}
  /\ retained_count' = [retained_count EXCEPT ![g] = 0]
  /\ Goto(t, "remove")
  /\ global_lock' = t
  /\ UNCHANGED <<top, intr_enabled, gpu_table, scheduled, bh_pc, retains>>

uvm_gpu_release(t) ==
  LET g == gpu_of[t]
  IN /\ pc[t] = "idle" /\ retains[t] /\ global_lock = None
     /\ retained_count' = [retained_count EXCEPT ![g] = @ - 1]
     /\ retains' = [retains EXCEPT ![t] = FALSE]
     /\ \/ /\ retained_count[g] = 1
           /\ global_lock' = t
           /\ Goto(t, "remove")
        \/ /\ retained_count[g] # 1
           /\ UNCHANGED <<global_lock, pc>>
     /\ UNCHANGED <<gpu_table, intr_enabled, intr_owned, top, gpu_kref,
                    handling_replayable_faults, disable_intr_ref_count, isr_lock,
                    scheduled, bh_pc, gpu_of>>

-----------------------------------------------------------------------------
(* remove_gpu, with global_lock held.                                      *)

remove_from_table(t) ==
  /\ pc[t] = "remove"
  /\ gpu_table' = NoGpu
  /\ Goto(t, "mute")
  /\ UNCHANGED <<intr_enabled, intr_owned, top, object_vars, global_lock, gpu_of, retains>>

(* The rest of remove_gpu depends on was_handling_replayable_faults.       *)
remove_stop_handling(t) ==
  LET g == gpu_of[t]
  IN /\ pc[t] = "mute"
     /\ isr_lock_disable(g)
     /\ Goto(t, IF handling_replayable_faults[g] THEN "stop" ELSE "put")
     /\ handling_replayable_faults' = [handling_replayable_faults EXCEPT ![g] = FALSE]
     /\ UNCHANGED <<gpu_table, intr_owned, top, gpu_kref, retained_count,
                    isr_lock, scheduled, bh_pc, global_lock, gpu_of, retains>>

StopWithoutDraining(t) ==
  /\ pc[t] = "stop"
  /\ Goto(t, "deinit")
  /\ UNCHANGED <<gpu_table, intr_enabled, intr_owned, top, object_vars,
                 global_lock, gpu_of, retains>>

(* nv_kthread_q_stop returns when the item has run and the thread is gone  *)
(* (StopDrains of KthreadQ).                                               *)
remove_stop_queue(t) ==
  /\ pc[t] = "stop" /\ ~scheduled[gpu_of[t]] /\ bh_pc[gpu_of[t]] = "idle"
  /\ Goto(t, "deinit")
  /\ UNCHANGED <<gpu_table, intr_enabled, intr_owned, top, object_vars,
                 global_lock, gpu_of, retains>>

(* uvm_gpu_fault_buffer_deinit gives the interrupt back to RM.             *)
remove_deinit(t) ==
  /\ pc[t] = "deinit"
  /\ intr_owned' = FALSE
  /\ Goto(t, "put")
  /\ UNCHANGED <<gpu_table, intr_enabled, top, object_vars, global_lock, gpu_of, retains>>

remove_done(t) ==
  /\ pc[t] = "put"
  /\ uvm_gpu_kref_put(gpu_of[t])
  /\ global_lock' = None
  /\ Goto(t, "idle")
  /\ gpu_of' = [gpu_of EXCEPT ![t] = NoGpu]
  /\ UNCHANGED <<gpu_table, intr_enabled, intr_owned, top, retained_count,
                 handling_replayable_faults, disable_intr_ref_count, isr_lock,
                 scheduled, bh_pc, retains>>

-----------------------------------------------------------------------------
remove_gpu(t) ==
  \/ remove_from_table(t) \/ remove_stop_handling(t) \/ remove_stop_queue(t)
  \/ remove_deinit(t) \/ remove_done(t)
uvm8_isr_bottom_half(g) == bottom_half_start(g) \/ bottom_half_unlock(g) \/ bottom_half_done(g)
ThreadCall(t) ==
  \/ uvm_gpu_fault_buffer_flush(t) \/ remove_gpus_from_gpu(t)
  \/ uvm_gpu_retain_by_uuid(t) \/ uvm_gpu_release(t)
  \/ \E g \in Objects : add_gpu(t, g) \/ \E step \in AddFailures : add_gpu_fails(t, g, step)

IsrNext ==
  \/ top_half_get_gpu \/ top_half_done
  \/ \E pending \in BOOLEAN : uvm8_isr_top_half(pending)
  \/ \E g \in Objects : uvm8_isr_bottom_half(g)
  \/ \E t \in Threads : ThreadCall(t) \/ isr_lock_mutex(t) \/ thread_isr_unlock(t) \/ remove_gpu(t)
IsrSpec == IsrInit /\ [][IsrNext]_isr_vars

(* The kernel runs a thread inside a call, the work queue's thread and the *)
(* top half; a mutex that is free again and again is got in the end.       *)
IsrFairness ==
  /\ WF_isr_vars(top_half_done) /\ WF_isr_vars(\E pending \in BOOLEAN : uvm8_isr_top_half(pending))
  /\ \A g \in Objects : WF_isr_vars(uvm8_isr_bottom_half(g))
  /\ \A t \in Threads :
       /\ WF_isr_vars(thread_isr_unlock(t)) /\ WF_isr_vars(remove_gpu(t))
       /\ SF_isr_vars(isr_lock_mutex(t))
FairIsrSpec == IsrSpec /\ IsrFairness

-----------------------------------------------------------------------------
ThreadPCs == {"idle", "lock", "locked", "remove", "mute", "stop", "deinit", "put"}
IsrTypeOK ==
  /\ gpu_table \in Objects \cup {NoGpu} /\ global_lock \in Threads \cup {None}
  /\ intr_enabled \in BOOLEAN /\ intr_owned \in BOOLEAN
  /\ gpu_kref \in [Objects -> Nat] /\ retained_count \in [Objects -> Nat]
  /\ handling_replayable_faults \in [Objects -> BOOLEAN]
  /\ disable_intr_ref_count \in [Objects -> Nat]
  /\ isr_lock \in [Objects -> Threads \cup {None, BottomHalf}]
  /\ scheduled \in [Objects -> BOOLEAN]
  /\ bh_pc \in [Objects -> {"idle", "service", "put"}]
  /\ top \in [pc : {"idle", "locked", "put"}, gpu : Objects \cup {NoGpu}]
  /\ pc \in [Threads -> ThreadPCs]
  /\ gpu_of \in [Threads -> Objects \cup {NoGpu}]
  /\ retains \in [Threads -> BOOLEAN]

Waiting(g) == {t \in Threads : pc[t] \in {"lock", "locked"} /\ gpu_of[t] = g}
Serving(g) == IF isr_lock[g] = BottomHalf THEN {BottomHalf} ELSE {}
Holders(g) == Waiting(g) \cup Serving(g)
Removed(t) == pc[t] \in {"deinit", "put"}
Exists(g) ==
  \/ gpu_table = g
  \/ \E t \in Threads : gpu_of[t] = g /\ pc[t] \in {"remove", "mute", "stop", "deinit", "put"}
One(condition) == IF condition THEN 1 ELSE 0

(* Only one actor at a time works on the fault buffer: the mutex that the  *)
(* top half took belongs to the bottom half exactly from then until its    *)
(* uvm_gpu_isr_unlock, and to a thread while that thread is in its section *)
(* (uvm8_isr_top_half, uvm8_isr_bottom_half, uvm_gpu_isr_lock).            *)
LockHandedOver ==
  \A g \in Objects :
    /\ isr_lock[g] = BottomHalf <=> scheduled[g] \/ bh_pc[g] = "service"
    /\ ~(scheduled[g] /\ bh_pc[g] = "service")
    /\ \A t \in Threads : isr_lock[g] = t <=> pc[t] = "locked" /\ gpu_of[t] = g

(* disable_intr_ref_count of an object that handles faults counts those    *)
(* who hold isr_lock or wait for it, so that the GPU interrupts exactly    *)
(* when there is none, and never on behalf of an object that is no longer  *)
(* handled (uvm_gpu_disable/enable_replayable_faults, remove_gpu).         *)
InterruptsFollowHolders ==
  /\ \A g \in Objects :
       handling_replayable_faults[g] => disable_intr_ref_count[g] = Cardinality(Holders(g))
  /\ gpu_table # NoGpu /\ handling_replayable_faults[gpu_table] =>
       (intr_enabled <=> Holders(gpu_table) = {})
  /\ intr_enabled => \E g \in Objects : handling_replayable_faults[g] /\ Holders(g) = {}

(* Once the removal of a GPU has stopped the queue nobody is or comes in   *)
(* the middle of handling its faults, interrupts are off, and the count is *)
(* still positive, as remove_gpu asserts.                                  *)
RemovedIsQuiet ==
  \A t \in Threads : Removed(t) =>
    LET g == gpu_of[t]
    IN /\ ~intr_enabled /\ ~handling_replayable_faults[g]
       /\ Holders(g) = {} /\ ~scheduled[g] /\ bh_pc[g] = "idle"
       /\ pc[t] = "deinit" => disable_intr_ref_count[g] > 0

(* gpu_kref counts the table's owner, the top half and the bottom halves   *)
(* that were scheduled: nobody uses an object that was freed, and nobody   *)
(* forgets one (uvm8_isr_top_half, uvm8_isr_bottom_half, remove_gpu).      *)
KrefExact ==
  \A g \in Objects :
    gpu_kref[g] = One(Exists(g)) + One(top.gpu = g) + One(scheduled[g]) + One(bh_pc[g] # "idle")

(* Every call returns, whatever the interrupts do meanwhile: a thread gets *)
(* isr_lock, and the last release gets to the end of remove_gpu, which     *)
(* waits for the work queue with the global lock held.                     *)
CallsReturn == \A t \in Threads : pc[t] # "idle" ~> pc[t] = "idle"
============================================================================
