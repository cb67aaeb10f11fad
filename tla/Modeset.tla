------------------------------- MODULE Modeset -------------------------------
(***************************************************************************)
(* nvidia-modeset.ko's Linux half (nvidia-modeset-linux.c): what the       *)
(* display core NVKMS, a library without source, asks of the kernel.       *)
(* Timers that become work items, reference-counted pointers, clients and  *)
(* their event work, references to GPUs, loading and unloading.            *)
(*                                                                         *)
(* The core runs under nvkms_lock: inside an ioctl, an open, a close, a    *)
(* suspend or a resume, which are one step each, or inside the proc of a   *)
(* timer, which is a state of the timer's worker.  The shared workqueue    *)
(* runs different work items at the same time and never one item twice at  *)
(* once.                                                                   *)
(***************************************************************************)
EXTENDS Naturals, FiniteSets

CONSTANTS KmsTimer,    \* timers; none is used twice
          KmsOpen,     \* struct nvkms_per_open of the clients
          KmsNone,     \* no holder of nvkms_lock
          KmsMaxGpu,   \* bound on the references to the GPU
          KmsSetups    \* the setups to explore, see KmsAssumption

(* timers, opens, gpu: which services NVKMS uses; fails: allocations fail; *)
(* unregistered: nvidia_register_module may fail.                          *)
ASSUME KmsAssumption ==
    /\ KmsNone \notin KmsTimer \union KmsOpen /\ KmsTimer \cap KmsOpen = {}
    /\ KmsMaxGpu \in Nat
    /\ \A s \in KmsSetups : {s.timers, s.opens, s.gpu, s.fails, s.unregistered} \subseteq BOOLEAN

VARIABLES
    kmsTimer,  \* [KmsTimer -> struct nvkms_timer_t and where it is]
    kmsRef,    \* the one nvkms_ref_ptr: [count, ptr, owned, used]
    kmsOpen,   \* [KmsOpen -> struct nvkms_per_open and its work]
    kms,       \* [phase, lock, callbacks, flush, asked, held]
    kmsSetup

kmsVars == <<kmsTimer, kmsRef, kmsOpen, kms, kmsSetup>>

(* mem: the allocation; at: where the timer is: nowhere, armed as a kernel *)
(* timer, queued as work, or at a place of nvkms_workqueue_callback; cb:   *)
(* nvkms_timer_callback has queued the work and not returned; handle: NVKMS*)
(* will still call nvkms_free_timer.                                       *)
NoTimer == [mem |-> "unused", at |-> "none", listed |-> FALSE, cb |-> FALSE, created |-> FALSE,
            ref |-> FALSE, cancel |-> FALSE, complete |-> FALSE, handle |-> FALSE]
NoOpen == [mem |-> "unused", type |-> "user", data |-> FALSE, queued |-> FALSE, running |-> FALSE,
           available |-> FALSE, closing |-> FALSE]
NoRef == [count |-> 0, ptr |-> FALSE, owned |-> FALSE, used |-> FALSE]

KmsInit ==
    /\ kmsTimer = [t \in KmsTimer |-> NoTimer]
    /\ kmsRef = NoRef
    /\ kmsOpen = [o \in KmsOpen |-> NoOpen]
    /\ kms = [phase |-> "unloaded", lock |-> KmsNone, callbacks |-> FALSE, flush |-> {}, asked |-> 0, held |-> 0]
    /\ kmsSetup \in KmsSetups

KmsLive == kms.phase = "live"
(* The core runs: the lock is free for an entry point, or a proc has it.   *)
InCore == KmsLive /\ (kms.lock = KmsNone \/ \E t \in KmsTimer : kmsTimer[t].at = "proc")

Freed(m) == IF m = "live" THEN "freed" ELSE "broken"

(***************************************************************************)
(* Timers                                                                  *)
(***************************************************************************)
(* nvkms_init_timer: listed and started under nvkms_timers.lock.           *)
nvkms_init_timer(t, isRefPtr, usec) ==
    kmsTimer' = [kmsTimer EXCEPT ![t] = [NoTimer EXCEPT
        !.mem = "live", !.listed = TRUE, !.ref = isRefPtr, !.handle = ~isRefPtr,
        !.created = usec # 0, !.at = IF usec = 0 THEN "queued" ELSE "armed"]]

nvkms_alloc_timer(t, usec) ==
    /\ InCore /\ kmsSetup.timers /\ kmsTimer[t].mem = "unused"
    /\ nvkms_init_timer(t, FALSE, usec)
    /\ UNCHANGED <<kmsRef, kmsOpen, kms, kmsSetup>>

(* Called from an interrupt's bottom half, without nvkms_lock, while the   *)
(* core owns the reference.                                                *)
nvkms_alloc_timer_with_ref_ptr(t, usec) ==
    /\ KmsLive /\ kmsSetup.timers /\ kmsTimer[t].mem = "unused" /\ kmsRef.owned
    /\ kmsRef' = [kmsRef EXCEPT !.count = @ + 1]
    /\ nvkms_init_timer(t, TRUE, usec)
    /\ UNCHANGED <<kmsOpen, kms, kmsSetup>>

(* nvkms_free_timer of every timer of S.                                   *)
Release(S) ==
    kmsTimer' = [t \in KmsTimer |->
        IF t \notin S THEN kmsTimer[t]
        ELSE [kmsTimer[t] EXCEPT !.handle = FALSE,
                                 !.mem = IF kmsTimer[t].complete THEN Freed(@) ELSE @,
                                 !.cancel = IF kmsTimer[t].complete THEN @ ELSE TRUE]]

nvkms_free_timer(t) ==
    /\ InCore /\ kmsTimer[t].handle
    /\ Release({t})
    /\ UNCHANGED <<kmsRef, kmsOpen, kms, kmsSetup>>

(* Softirq: the kernel timer expires and the work is queued.               *)
nvkms_timer_callback(t) ==
    \/ /\ kmsTimer[t].at = "armed"
       /\ kmsTimer' = [kmsTimer EXCEPT ![t].at = "queued", ![t].cb = TRUE]
       /\ UNCHANGED <<kmsRef, kmsOpen, kms, kmsSetup>>
    \/ /\ kmsTimer[t].cb
       /\ kmsTimer' = [kmsTimer EXCEPT ![t].cb = FALSE]
       /\ UNCHANGED <<kmsRef, kmsOpen, kms, kmsSetup>>

(* nvkms_workqueue_callback, first step: off the list.  nvkms_exit looks at*)
(* the list within one step, so nvkms_timers.lock is always free here.     *)
WorkUnlists(t) ==
    /\ kmsTimer[t].at = "queued"
    /\ kmsTimer' = [kmsTimer EXCEPT ![t].at = "del_timer", ![t].listed = FALSE]
    /\ UNCHANGED <<kmsRef, kmsOpen, kms, kmsSetup>>

(* Mutant: the work does not wait for the timer's callback.                *)
work_forgets_del_timer(t) ==
    /\ kmsTimer[t].at = "del_timer"
    /\ kmsTimer' = [kmsTimer EXCEPT ![t].at = "lock"]
    /\ UNCHANGED <<kmsRef, kmsOpen, kms, kmsSetup>>

(* del_timer_sync waits for nvkms_timer_callback to return.                *)
WorkDelTimer(t) ==
    /\ kmsTimer[t].at = "del_timer" /\ (kmsTimer[t].created => ~kmsTimer[t].cb)
    /\ kmsTimer' = [kmsTimer EXCEPT ![t].at = "lock"]
    /\ UNCHANGED <<kmsRef, kmsOpen, kms, kmsSetup>>

nvkms_dec_ref == kmsRef' = [kmsRef EXCEPT !.count = @ - 1]

(* Under nvkms_lock: the pointer is read and given back, and the proc is   *)
(* called unless the timer was cancelled or the pointer is NULL.           *)
WorkCalls(t) ==
    /\ kmsTimer[t].at = "lock" /\ kms.lock = KmsNone
    /\ IF kmsTimer[t].ref THEN nvkms_dec_ref ELSE UNCHANGED kmsRef
    /\ LET cancel == kmsTimer[t].cancel \/ (kmsTimer[t].ref /\ ~kmsRef.ptr)
       IN  kmsTimer' = [kmsTimer EXCEPT ![t].cancel = cancel, ![t].at = IF cancel THEN "end" ELSE "proc"]
    /\ kms' = [kms EXCEPT !.lock = t]
    /\ UNCHANGED <<kmsOpen, kmsSetup>>

(* The proc returns: the timer is complete, also if the proc freed it.     *)
WorkReturns(t) ==
    /\ kmsTimer[t].at = "proc"
    /\ kmsTimer' = [kmsTimer EXCEPT ![t].complete = TRUE, ![t].at = "end"]
    /\ UNCHANGED <<kmsRef, kmsOpen, kms, kmsSetup>>

nvkms_workqueue_callback(t) ==
    /\ kmsTimer[t].at = "end"
    /\ kmsTimer' = [kmsTimer EXCEPT ![t].at = "none",
                                    ![t].mem = IF kmsTimer[t].ref \/ kmsTimer[t].cancel THEN Freed(@) ELSE @]
    /\ kms' = [kms EXCEPT !.lock = KmsNone, !.flush = @ \ {t}]
    /\ UNCHANGED <<kmsRef, kmsOpen, kmsSetup>>

(***************************************************************************)
(* Reference-counted pointers                                              *)
(***************************************************************************)
nvkms_alloc_ref_ptr ==
    /\ InCore /\ kmsSetup.timers /\ ~kmsRef.used
    /\ kmsRef' = [count |-> 1, ptr |-> TRUE, owned |-> TRUE, used |-> TRUE]
    /\ UNCHANGED <<kmsTimer, kmsOpen, kms, kmsSetup>>

nvkms_free_ref_ptr ==
    /\ InCore /\ kmsRef.owned
    /\ kmsRef' = [kmsRef EXCEPT !.ptr = FALSE, !.owned = FALSE, !.count = @ - 1]
    /\ UNCHANGED <<kmsTimer, kmsOpen, kms, kmsSetup>>

(***************************************************************************)
(* Clients and their events                                                *)
(***************************************************************************)
nvkms_open_common(o, type) ==
    /\ KmsLive /\ kmsSetup.opens /\ kmsOpen[o].mem = "unused" /\ kms.lock = KmsNone
    /\ \/ kmsOpen' = [kmsOpen EXCEPT ![o] = [NoOpen EXCEPT !.mem = "live", !.type = type, !.data = TRUE]]
       \/ kmsSetup.fails /\ kmsOpen' = [kmsOpen EXCEPT ![o].mem = "freed"]
    /\ UNCHANGED <<kmsTimer, kmsRef, kms, kmsSetup>>

(* The core reports events only to clients it has not closed.              *)
nvkms_event_queue_changed(o, eventsAvailable) ==
    /\ InCore /\ kmsOpen[o].data
    /\ kmsOpen' = IF kmsOpen[o].type = "user" THEN [kmsOpen EXCEPT ![o].available = eventsAvailable]
                  ELSE IF eventsAvailable THEN [kmsOpen EXCEPT ![o].queued = TRUE]
                  ELSE kmsOpen
    /\ UNCHANGED <<kmsTimer, kmsRef, kms, kmsSetup>>

EventWorkStarts(o) ==
    /\ kmsOpen[o].queued /\ ~kmsOpen[o].running
    /\ kmsOpen' = [kmsOpen EXCEPT ![o].queued = FALSE, ![o].running = TRUE]
    /\ UNCHANGED <<kmsTimer, kmsRef, kms, kmsSetup>>

(* The event queue is read through nvkms_ioctl_common, which finds data or *)
(* NULL there; the work item dereferences popen all the same.              *)
nvkms_kapi_event_work_queue_callback(o) ==
    /\ kmsOpen[o].running /\ kms.lock = KmsNone
    /\ kmsOpen' = [kmsOpen EXCEPT ![o].running = FALSE]
    /\ kms' = [kms EXCEPT !.flush = IF kmsOpen[o].queued THEN @ ELSE @ \ {o}]
    /\ UNCHANGED <<kmsTimer, kmsRef, kmsSetup>>

(* What flush_scheduled_work waits for: the items queued or running now.   *)
Scheduled == {t \in KmsTimer : kmsTimer[t].at \notin {"none", "armed"}}
             \union {o \in KmsOpen : kmsOpen[o].queued \/ kmsOpen[o].running}

nvkms_close_common(o) ==
    /\ KmsLive /\ kmsOpen[o].data /\ kms.lock = KmsNone
    /\ kmsOpen' = [kmsOpen EXCEPT ![o].data = FALSE, ![o].closing = TRUE]
    /\ UNCHANGED <<kmsTimer, kmsRef, kms, kmsSetup>>

(* A kernel client waits for its work item: the flush of a close is        *)
(* weakened to the item it is there for.                                   *)
CloseFrees(o) ==
    /\ kmsOpen[o].closing
    /\ kmsOpen[o].type = "kernel" => ~kmsOpen[o].queued /\ ~kmsOpen[o].running
    /\ kmsOpen' = [kmsOpen EXCEPT ![o].mem = Freed(@), ![o].closing = FALSE]
    /\ UNCHANGED <<kmsTimer, kmsRef, kms, kmsSetup>>

(***************************************************************************)
(* GPUs: each call needs a stack of RM's, and returns silently without one *)
(***************************************************************************)
nvkms_open_gpu ==
    /\ InCore /\ kmsSetup.gpu /\ kms.held < KmsMaxGpu
    /\ kms' = [kms EXCEPT !.asked = @ + 1, !.held = @ + 1]
    /\ UNCHANGED <<kmsTimer, kmsRef, kmsOpen, kmsSetup>>

nvkms_close_gpu ==
    /\ InCore /\ kms.asked > 0
    /\ \/ kms' = [kms EXCEPT !.asked = @ - 1, !.held = @ - 1]
       \/ kmsSetup.fails /\ kms' = [kms EXCEPT !.asked = @ - 1]
    /\ UNCHANGED <<kmsTimer, kmsRef, kmsOpen, kmsSetup>>

(***************************************************************************)
(* Loading and unloading                                                   *)
(***************************************************************************)
nvidia_modeset_set_callbacks_ok(set) == kms.callbacks # set

(* nvkms_init: a failed registration leaves RM's callbacks in place, after *)
(* which they cannot be set again.                                         *)
nvkms_init ==
    /\ kms.phase = "unloaded" /\ nvidia_modeset_set_callbacks_ok(TRUE)
    /\ \A t \in KmsTimer : kmsTimer[t].mem = "unused"
    /\ \/ kms' = [kms EXCEPT !.phase = "live", !.callbacks = TRUE]
       \/ kmsSetup.unregistered /\ kms' = [kms EXCEPT !.callbacks = TRUE]
    /\ UNCHANGED <<kmsTimer, kmsRef, kmsOpen, kmsSetup>>

(* The clients hold the module, so they are gone.  nvKmsModuleUnload       *)
(* cancels the timers and gives up what the core still has.                *)
nvKmsModuleUnload ==
    /\ KmsLive /\ kms.lock = KmsNone
    /\ \A o \in KmsOpen : kmsOpen[o].mem # "live" /\ ~kmsOpen[o].closing
    /\ Release({t \in KmsTimer : kmsTimer[t].handle})
    /\ kmsRef' = [kmsRef EXCEPT !.ptr = FALSE, !.owned = FALSE, !.count = IF kmsRef.owned THEN @ - 1 ELSE @]
    /\ kms' = [kms EXCEPT !.phase = "draining", !.asked = 0, !.held = @ - kms.asked]
    /\ UNCHANGED <<kmsOpen, kmsSetup>>

(* One pass from restart: under nvkms_timers.lock a timer that had not     *)
(* fired is taken off the list, then given back; del_timer_sync waits for  *)
(* callbacks that run.                                                     *)
ExitDeletes(t) ==
    /\ kms.phase = "draining" /\ kmsTimer[t].listed /\ kmsTimer[t].at = "armed"
    /\ \A u \in KmsTimer : ~(kmsTimer[u].listed /\ kmsTimer[u].cb)
    /\ kmsTimer' = [kmsTimer EXCEPT ![t].listed = FALSE, ![t].at = "none", ![t].mem = Freed(@)]
    /\ IF kmsTimer[t].ref THEN nvkms_dec_ref ELSE UNCHANGED kmsRef
    /\ UNCHANGED <<kmsOpen, kms, kmsSetup>>

(* No timer of the list can be deactivated any more.                       *)
ExitFlushes ==
    /\ kms.phase = "draining"
    /\ \A t \in KmsTimer : kmsTimer[t].listed => kmsTimer[t].at # "armed" /\ ~kmsTimer[t].cb
    /\ kms' = [kms EXCEPT !.phase = "flushing", !.flush = Scheduled]
    /\ UNCHANGED <<kmsTimer, kmsRef, kmsOpen, kmsSetup>>

nvkms_exit ==
    /\ kms.phase = "flushing" /\ kms.flush = {}
    /\ kms' = [kms EXCEPT !.phase = "unloaded", !.callbacks = FALSE]
    /\ UNCHANGED <<kmsTimer, kmsRef, kmsOpen, kmsSetup>>

KmsNext ==
    \/ \E t \in KmsTimer :
         \/ \E usec \in {0, 1} : nvkms_alloc_timer(t, usec) \/ nvkms_alloc_timer_with_ref_ptr(t, usec)
         \/ nvkms_free_timer(t) \/ nvkms_timer_callback(t)
         \/ WorkUnlists(t) \/ WorkDelTimer(t) \/ WorkCalls(t) \/ WorkReturns(t) \/ nvkms_workqueue_callback(t)
         \/ ExitDeletes(t)
    \/ nvkms_alloc_ref_ptr \/ nvkms_free_ref_ptr
    \/ \E o \in KmsOpen :
         \/ \E type \in {"user", "kernel"} : nvkms_open_common(o, type)
         \/ \E e \in BOOLEAN : nvkms_event_queue_changed(o, e)
         \/ EventWorkStarts(o) \/ nvkms_kapi_event_work_queue_callback(o)
         \/ nvkms_close_common(o) \/ CloseFrees(o)
    \/ nvkms_open_gpu \/ nvkms_close_gpu
    \/ nvkms_init \/ nvKmsModuleUnload \/ ExitFlushes \/ nvkms_exit

KmsSpec == KmsInit /\ [][KmsNext]_kmsVars

(***************************************************************************)
(* Properties                                                              *)
(***************************************************************************)
(* A timer is freed once, after the list, the kernel timer, its callback,  *)
(* the workqueue and the core have let go of it, and it is never lost; a   *)
(* reference pointer has one reference for its owner and one for every     *)
(* timer whose work has not run (nvkms_workqueue_callback, nvkms_free_timer*)
(* and nvkms_exit all free timers).                                        *)
TimersExact ==
    /\ \A t \in KmsTimer : LET r == kmsTimer[t] IN
         /\ r.mem # "broken"
         /\ r.mem # "live" => r.at = "none" /\ ~r.listed /\ ~r.cb /\ ~r.handle
         /\ r.mem = "live" => r.at # "none" \/ (r.complete /\ r.handle)
         /\ r.listed <=> r.at \in {"armed", "queued"}
         /\ r.handle => ~r.cancel
    /\ kmsRef.count = (IF kmsRef.owned THEN 1 ELSE 0)
                      + Cardinality({t \in KmsTimer : kmsTimer[t].ref
                                                      /\ kmsTimer[t].at \in {"armed", "queued", "del_timer", "lock"}})

(* No work item touches a client that was freed (nvkms_close_common        *)
(* flushes), and when the module is gone so are its timers, its work and   *)
(* its clients: nothing runs in unloaded code.                             *)
UnloadedRunsNothing ==
    /\ \A o \in KmsOpen : kmsOpen[o].mem # "live" => ~kmsOpen[o].queued /\ ~kmsOpen[o].running
    /\ \A o \in KmsOpen : kmsOpen[o].mem # "broken"
    /\ kms.phase = "unloaded" =>
         /\ \A t \in KmsTimer : kmsTimer[t].mem # "live"
         /\ kmsRef.count = 0 /\ kms.lock = KmsNone
         /\ kmsSetup.fails \/ kms.held = 0
         /\ kmsSetup.unregistered \/ ~kms.callbacks

ModesetExact == TimersExact /\ UnloadedRunsNothing
===============================================================================
