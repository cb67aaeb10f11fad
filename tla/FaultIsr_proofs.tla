-------------------------- MODULE FaultIsr_proofs --------------------------
(***************************************************************************)
(* For any number of threads and objects: the fault interrupt of a GPU is  *)
(* enabled exactly when nobody holds isr_lock or waits for it, the lock is *)
(* handed from the top half to the bottom half without a gap, and the      *)
(* reference counts of the GPU object are exact.                           *)
(***************************************************************************)
EXTENDS FaultIsr, FiniteSetTheorems, TLAPS

Removing == {"remove", "mute", "stop", "deinit", "put"}
Retainers == {t \in Threads : retains[t]}

(* Who retains the GPU, and who may use or remove it.                      *)
RetainInv ==
  /\ \A t \in Threads : retains[t] =>
       gpu_table # NoGpu /\ gpu_of[t] = gpu_table /\ pc[t] \in {"idle", "lock", "locked"}
  /\ gpu_table # NoGpu => retained_count[gpu_table] = Cardinality(Retainers)
UseInv ==
  \A t \in Threads :
    /\ pc[t] \in {"lock", "locked"} =>
         gpu_table # NoGpu /\ gpu_of[t] = gpu_table /\ (retains[t] \/ global_lock = t)
    /\ pc[t] \in Removing =>
         /\ global_lock = t /\ gpu_of[t] # NoGpu
         /\ \A u \in Threads : ~retains[u]
    /\ pc[t] = "remove" => gpu_table \in {NoGpu, gpu_of[t]}
    /\ pc[t] \in {"mute", "stop", "deinit", "put"} => gpu_table = NoGpu
    /\ pc[t] \in {"stop", "deinit", "put"} => ~handling_replayable_faults[gpu_of[t]]
    /\ pc[t] \in {"stop", "deinit"} => disable_intr_ref_count[gpu_of[t]] > 0
    /\ pc[t] \in {"remove", "mute"} /\ ~handling_replayable_faults[gpu_of[t]] =>
         ~scheduled[gpu_of[t]] /\ bh_pc[gpu_of[t]] = "idle"
    /\ pc[t] \in {"deinit", "put"} => ~scheduled[gpu_of[t]] /\ bh_pc[gpu_of[t]] = "idle"

(* Only an object in the table, or on its way out of it, handles faults.   *)
HandleInv ==
  /\ gpu_table # NoGpu => handling_replayable_faults[gpu_table]
  /\ \A g \in Objects : handling_replayable_faults[g] =>
       gpu_table = g \/ \E t \in Threads : gpu_of[t] = g /\ pc[t] \in {"remove", "mute"}
TopInv == top.pc = "idle" <=> top.gpu = NoGpu

IInv ==
  /\ IsrTypeOK /\ RetainInv /\ UseInv /\ HandleInv /\ TopInv
  /\ LockHandedOver /\ KrefExact /\ InterruptsFollowHolders

-----------------------------------------------------------------------------
(* The two holders of isr_lock that are no thread.                         *)
LEMMA Distinct == None # BottomHalf /\ None \notin Threads /\ BottomHalf \notin Threads
  BY FaultIsrAssumption DEF None, BottomHalf

(* Counts that are about to be decremented are positive.                   *)
LEMMA KrefPositive ==
  ASSUME IsrTypeOK, KrefExact, NEW g \in Objects,
         top.gpu = g \/ bh_pc[g] # "idle" \/ Exists(g)
  PROVE  gpu_kref[g] >= 1
<1>1. gpu_kref[g] = One(Exists(g)) + One(top.gpu = g) + One(scheduled[g]) + One(bh_pc[g] # "idle")
  BY DEF KrefExact
<1>2. One(scheduled[g]) \in 0 .. 1 /\ One(Exists(g)) \in 0 .. 1
  BY DEF One
<1>3. One(top.gpu = g) \in 0 .. 1 /\ One(bh_pc[g] # "idle") \in 0 .. 1
  BY DEF One
<1>4. One(Exists(g)) = 1 \/ One(top.gpu = g) = 1 \/ One(bh_pc[g] # "idle") = 1
  BY DEF One
<1>5. QED
  BY <1>1, <1>2, <1>3, <1>4

(* Nobody uses an object whose memory is free.                             *)
LEMMA FreeUnused ==
  ASSUME IsrTypeOK, KrefExact, NEW g \in Objects, gpu_kref[g] = 0
  PROVE  ~Exists(g) /\ top.gpu # g /\ ~scheduled[g] /\ bh_pc[g] = "idle"
<1>1. One(Exists(g)) + One(top.gpu = g) + One(scheduled[g]) + One(bh_pc[g] # "idle") = 0
  BY DEF KrefExact
<1>2. One(scheduled[g]) \in 0 .. 1 /\ One(Exists(g)) \in 0 .. 1
  BY DEF One
<1>3. One(top.gpu = g) \in 0 .. 1 /\ One(bh_pc[g] # "idle") \in 0 .. 1
  BY DEF One
<1>4. /\ One(Exists(g)) = 0 /\ One(top.gpu = g) = 0
      /\ One(scheduled[g]) = 0 /\ One(bh_pc[g] # "idle") = 0
  BY <1>1, <1>2, <1>3
<1>5. QED
  BY <1>4 DEF One

(* The sets that are counted are finite.                                   *)
LEMMA HoldersFinite == ASSUME NEW g \in Objects PROVE IsFiniteSet(Holders(g))
<1>1. IsFiniteSet(Waiting(g))
  BY FaultIsrAssumption, FS_Subset DEF Waiting
<1>2. IsFiniteSet(Serving(g))
  BY FS_EmptySet, FS_Singleton DEF Serving
<1>3. QED
  BY <1>1, <1>2, FS_Union DEF Holders

(* Those who retain the GPU are finitely many.                             *)
LEMMA RetainersFinite == IsFiniteSet(Retainers)
  BY FaultIsrAssumption, FS_Subset DEF Retainers

(* A lock holder that leaves finds the disable count above zero.           *)
LEMMA CountPositive ==
  ASSUME IsrTypeOK, InterruptsFollowHolders, NEW g \in Objects, NEW a \in Holders(g),
         handling_replayable_faults[g]
  PROVE  disable_intr_ref_count[g] >= 1
<1>1. Cardinality(Holders(g)) \in Nat /\ Cardinality(Holders(g)) # 0
  BY HoldersFinite, FS_CardinalityType, FS_EmptySet
<1>2. QED
  BY <1>1 DEF InterruptsFollowHolders

(* A thread that releases finds retained_count above zero.                 *)
LEMMA RetainedPositive ==
  ASSUME RetainInv, NEW t \in Threads, retains[t]
  PROVE  /\ gpu_of[t] = gpu_table /\ gpu_table # NoGpu
         /\ retained_count[gpu_of[t]] = Cardinality(Retainers)
         /\ Cardinality(Retainers) \in Nat \ {0}
<1>1. IsFiniteSet(Retainers) /\ t \in Retainers
  BY RetainersFinite DEF Retainers
<1>2. Cardinality(Retainers) \in Nat /\ Cardinality(Retainers) # 0
  BY <1>1, FS_CardinalityType, FS_EmptySet
<1>3. QED
  BY <1>2 DEF RetainInv

-----------------------------------------------------------------------------
(* Types.                                                                  *)

(* uvm_gpu_disable_replayable_faults keeps the types.                      *)
LEMMA DisableType ==
  ASSUME IsrTypeOK, NEW g \in Objects, isr_lock_disable(g)
  PROVE  disable_intr_ref_count' \in [Objects -> Nat] /\ intr_enabled' \in BOOLEAN
<1>1. CASE handling_replayable_faults[g] /\ uvm_gpu_disable_replayable_faults(g)
  <2>1. disable_intr_ref_count' \in [Objects -> Nat]
    BY <1>1 DEF IsrTypeOK, uvm_gpu_disable_replayable_faults
  <2>2. intr_enabled' \in BOOLEAN
    BY <1>1 DEF uvm_gpu_disable_replayable_faults
  <2>3. QED
    BY <2>1, <2>2
<1>2. CASE UNCHANGED <<disable_intr_ref_count, intr_enabled>>
  BY <1>2 DEF IsrTypeOK
<1>3. QED
  BY <1>1, <1>2 DEF isr_lock_disable

(* uvm_gpu_isr_unlock keeps the types: the count stays a natural.          *)
LEMMA UnlockType ==
  ASSUME IsrTypeOK, InterruptsFollowHolders, NEW g \in Objects, NEW a \in Holders(g),
         uvm_gpu_isr_unlock(g)
  PROVE  /\ disable_intr_ref_count' \in [Objects -> Nat] /\ intr_enabled' \in BOOLEAN
         /\ isr_lock' \in [Objects -> Threads \cup {None, BottomHalf}]
<1>0. isr_lock' \in [Objects -> Threads \cup {None, BottomHalf}]
  BY DEF IsrTypeOK, uvm_gpu_isr_unlock
<1>1. CASE handling_replayable_faults[g] /\ uvm_gpu_enable_replayable_faults(g)
  <2>1. disable_intr_ref_count[g] >= 1
    BY <1>1, CountPositive
  <2>2. disable_intr_ref_count' \in [Objects -> Nat]
    BY <1>1, <2>1 DEF IsrTypeOK, uvm_gpu_enable_replayable_faults
  <2>3. intr_enabled' \in BOOLEAN
    BY <1>1 DEF uvm_gpu_enable_replayable_faults
  <2>4. QED
    BY <1>0, <2>2, <2>3
<1>2. CASE UNCHANGED <<disable_intr_ref_count, intr_enabled>>
  BY <1>0, <1>2 DEF IsrTypeOK
<1>3. QED
  BY <1>1, <1>2 DEF uvm_gpu_isr_unlock

(* Every step keeps the types: no count goes below zero.                   *)
LEMMA TypeStep ==
  ASSUME IInv, [IsrNext]_isr_vars
  PROVE  IsrTypeOK'
<1> USE FaultIsrAssumption DEF IInv
<1>1. ASSUME top_half_get_gpu PROVE IsrTypeOK'
  BY <1>1 DEF IsrTypeOK, ThreadPCs, top_half_get_gpu, thread_vars
<1>2. ASSUME top_half_done PROVE IsrTypeOK'
  <2>1. top.gpu \in Objects /\ gpu_kref[top.gpu] >= 1
    BY <1>2, KrefPositive DEF top_half_done, TopInv, IsrTypeOK
  <2>2. gpu_kref' \in [Objects -> Nat]
    BY <1>2, <2>1 DEF IsrTypeOK, top_half_done, uvm_gpu_kref_put
  <2>3. QED
    BY <1>2, <2>2 DEF IsrTypeOK, top_half_done, thread_vars
<1>3. ASSUME NEW pending \in BOOLEAN, uvm8_isr_top_half(pending) PROVE IsrTypeOK'
  <2>1. top.gpu \in Objects
    BY <1>3 DEF uvm8_isr_top_half, TopInv, IsrTypeOK
  <2>2. disable_intr_ref_count' \in [Objects -> Nat] /\ intr_enabled' \in BOOLEAN
    <3>1. CASE uvm_gpu_disable_replayable_faults(top.gpu) /\ handling_replayable_faults[top.gpu]
      BY <3>1, <2>1, DisableType DEF isr_lock_disable
    <3>2. CASE UNCHANGED <<disable_intr_ref_count, intr_enabled>>
      BY <3>2 DEF IsrTypeOK
    <3>3. QED
      BY <1>3, <3>1, <3>2 DEF uvm8_isr_top_half
  <2>3. top' \in [pc : {"idle", "locked", "put"}, gpu : Objects \cup {NoGpu}]
    BY <1>3 DEF IsrTypeOK, uvm8_isr_top_half
  <2>4. /\ scheduled' \in [Objects -> BOOLEAN]
        /\ isr_lock' \in [Objects -> Threads \cup {None, BottomHalf}]
    BY <1>3, <2>1 DEF IsrTypeOK, uvm8_isr_top_half
  <2>5. QED
    BY <1>3, <2>2, <2>3, <2>4 DEF IsrTypeOK, uvm8_isr_top_half, thread_vars
<1>4. ASSUME NEW g \in Objects, bottom_half_start(g) PROVE IsrTypeOK'
  BY <1>4 DEF IsrTypeOK, ThreadPCs, bottom_half_start, thread_vars
<1>5. ASSUME NEW g \in Objects, bottom_half_unlock(g) PROVE IsrTypeOK'
  <2>1. BottomHalf \in Holders(g)
    BY <1>5 DEF bottom_half_unlock, LockHandedOver, Holders, Serving
  <2>2. uvm_gpu_isr_unlock(g)
    BY <1>5 DEF bottom_half_unlock
  <2>3. QED
    BY <1>5, <2>1, <2>2, UnlockType DEF IsrTypeOK, bottom_half_unlock, thread_vars
<1>6. ASSUME NEW g \in Objects, bottom_half_done(g) PROVE IsrTypeOK'
  <2>1. gpu_kref[g] >= 1
    BY <1>6, KrefPositive DEF bottom_half_done
  <2>2. gpu_kref' \in [Objects -> Nat]
    BY <1>6, <2>1 DEF IsrTypeOK, bottom_half_done, uvm_gpu_kref_put
  <2>3. QED
    BY <1>6, <2>2 DEF IsrTypeOK, bottom_half_done, thread_vars
<1>7. ASSUME NEW t \in Threads, uvm_gpu_fault_buffer_flush(t) PROVE IsrTypeOK'
  <2>1. gpu_of[t] \in Objects /\ isr_lock_disable(gpu_of[t])
    BY <1>7 DEF uvm_gpu_fault_buffer_flush, RetainInv, IsrTypeOK
  <2>2. QED
    BY <1>7, <2>1, DisableType DEF IsrTypeOK, ThreadPCs, uvm_gpu_fault_buffer_flush, Goto
<1>8. ASSUME NEW t \in Threads, remove_gpus_from_gpu(t) PROVE IsrTypeOK'
  <2>1. gpu_table \in Objects /\ isr_lock_disable(gpu_table)
    BY <1>8 DEF remove_gpus_from_gpu, IsrTypeOK
  <2>2. QED
    BY <1>8, <2>1, DisableType DEF IsrTypeOK, ThreadPCs, remove_gpus_from_gpu, Goto
<1>9. ASSUME NEW t \in Threads, uvm_gpu_retain_by_uuid(t) PROVE IsrTypeOK'
  BY <1>9 DEF IsrTypeOK, ThreadPCs, uvm_gpu_retain_by_uuid
<1>10. ASSUME NEW t \in Threads, uvm_gpu_release(t) PROVE IsrTypeOK'
  <2>1. retained_count[gpu_of[t]] \in Nat \ {0} /\ gpu_of[t] \in Objects
    BY <1>10, RetainedPositive DEF uvm_gpu_release, IsrTypeOK
  <2>2. retained_count' \in [Objects -> Nat]
    BY <1>10, <2>1 DEF IsrTypeOK, uvm_gpu_release
  <2>3. QED
    BY <1>10, <2>2 DEF IsrTypeOK, ThreadPCs, uvm_gpu_release, Goto
<1>11. ASSUME NEW t \in Threads, NEW g \in Objects, add_gpu(t, g) PROVE IsrTypeOK'
  <2>1. /\ gpu_kref' \in [Objects -> Nat] /\ disable_intr_ref_count' \in [Objects -> Nat]
        /\ isr_lock' \in [Objects -> Threads \cup {None, BottomHalf}]
        /\ gpu_of' \in [Threads -> Objects \cup {NoGpu}]
    BY <1>11 DEF IsrTypeOK, add_gpu, alloc_gpu
  <2>2. /\ handling_replayable_faults' \in [Objects -> BOOLEAN]
        /\ retained_count' \in [Objects -> Nat] /\ retains' \in [Threads -> BOOLEAN]
    BY <1>11 DEF IsrTypeOK, add_gpu
  <2>3. QED
    BY <1>11, <2>1, <2>2 DEF IsrTypeOK, add_gpu
<1>12. ASSUME NEW t \in Threads, NEW g \in Objects, NEW step \in AddFailures, add_gpu_fails(t, g, step) PROVE IsrTypeOK'
  <2>1. /\ gpu_kref' \in [Objects -> Nat] /\ disable_intr_ref_count' \in [Objects -> Nat]
        /\ isr_lock' \in [Objects -> Threads \cup {None, BottomHalf}]
        /\ gpu_of' \in [Threads -> Objects \cup {NoGpu}]
    BY <1>12 DEF IsrTypeOK, add_gpu_fails, alloc_gpu
  <2>2. handling_replayable_faults' \in [Objects -> BOOLEAN] /\ intr_owned' \in BOOLEAN
    BY <1>12 DEF IsrTypeOK, add_gpu_fails
  <2>3. retained_count' \in [Objects -> Nat] /\ pc' \in [Threads -> ThreadPCs]
    BY <1>12 DEF IsrTypeOK, add_gpu_fails, Goto, ThreadPCs
  <2>4. QED
    BY <1>12, <2>1, <2>2, <2>3 DEF IsrTypeOK, add_gpu_fails
<1>13. ASSUME NEW t \in Threads, isr_lock_mutex(t) PROVE IsrTypeOK'
  BY <1>13 DEF IsrTypeOK, ThreadPCs, isr_lock_mutex, Goto
<1>14. ASSUME NEW t \in Threads, thread_isr_unlock(t) PROVE IsrTypeOK'
  <2>1. gpu_of[t] \in Objects /\ t \in Holders(gpu_of[t]) /\ uvm_gpu_isr_unlock(gpu_of[t])
    BY <1>14 DEF thread_isr_unlock, UseInv, Holders, Waiting, IsrTypeOK
  <2>2. QED
    BY <1>14, <2>1, UnlockType DEF IsrTypeOK, ThreadPCs, thread_isr_unlock, Goto
<1>15. ASSUME NEW t \in Threads, remove_from_table(t) PROVE IsrTypeOK'
  BY <1>15 DEF IsrTypeOK, ThreadPCs, remove_from_table, Goto, object_vars
<1>16. ASSUME NEW t \in Threads, remove_stop_handling(t) PROVE IsrTypeOK'
  <2>1. gpu_of[t] \in Objects /\ isr_lock_disable(gpu_of[t])
    BY <1>16 DEF remove_stop_handling, UseInv, Removing, IsrTypeOK
  <2>2. handling_replayable_faults' \in [Objects -> BOOLEAN] /\ pc' \in [Threads -> ThreadPCs]
    BY <1>16 DEF IsrTypeOK, ThreadPCs, remove_stop_handling, Goto
  <2>3. QED
    BY <1>16, <2>1, <2>2, DisableType DEF IsrTypeOK, remove_stop_handling
<1>17. ASSUME NEW t \in Threads, remove_stop_queue(t) PROVE IsrTypeOK'
  BY <1>17 DEF IsrTypeOK, ThreadPCs, remove_stop_queue, Goto, object_vars
<1>18. ASSUME NEW t \in Threads, remove_deinit(t) PROVE IsrTypeOK'
  BY <1>18 DEF IsrTypeOK, ThreadPCs, remove_deinit, Goto, object_vars
<1>19. ASSUME NEW t \in Threads, remove_done(t) PROVE IsrTypeOK'
  <2>1. gpu_of[t] \in Objects /\ Exists(gpu_of[t])
    BY <1>19 DEF remove_done, UseInv, Removing, IsrTypeOK, Exists
  <2>2. gpu_kref' \in [Objects -> Nat]
    BY <1>19, <2>1, KrefPositive DEF IsrTypeOK, remove_done, uvm_gpu_kref_put
  <2>3. QED
    BY <1>19, <2>2 DEF IsrTypeOK, ThreadPCs, remove_done, Goto
<1>20. ASSUME UNCHANGED isr_vars PROVE IsrTypeOK'
  BY <1>20 DEF IsrTypeOK, ThreadPCs, isr_vars, object_vars, thread_vars
<1>21. QED
  BY <1>1, <1>2, <1>3, <1>4, <1>5, <1>6, <1>7, <1>8, <1>9, <1>10, <1>11, <1>12, <1>13, <1>14,
    <1>15, <1>16, <1>17, <1>18, <1>19, <1>20 DEF IsrNext, ThreadCall, remove_gpu,
    uvm8_isr_bottom_half

-----------------------------------------------------------------------------
(* At most one object handles faults, and one thread removes an object.    *)
LEMMA OneHandled ==
  ASSUME IInv, NEW g \in Objects, NEW h \in Objects,
         handling_replayable_faults[g], handling_replayable_faults[h]
  PROVE  g = h
  BY FaultIsrAssumption DEF IInv, HandleInv, UseInv, Removing

(* While one thread removes the GPU no other retains it or is in a call.   *)
LEMMA NobodyElse ==
  ASSUME IInv, NEW t \in Threads, pc[t] \in Removing
  PROVE  \A u \in Threads \ {t} : pc[u] = "idle" /\ ~retains[u]
<1> USE FaultIsrAssumption DEF IInv
<1>1. global_lock = t /\ \A u \in Threads : ~retains[u]
  BY DEF UseInv
<1>2. ASSUME NEW u \in Threads, u # t PROVE pc[u] = "idle"
  BY <1>1, <1>2 DEF UseInv, Removing, IsrTypeOK, ThreadPCs
<1>3. QED
  BY <1>1, <1>2

(* The release that finds a count of one is the last retainer.             *)
LEMMA LastRetainer ==
  ASSUME RetainInv, NEW t \in Threads, retains[t], retained_count[gpu_of[t]] = 1
  PROVE  \A u \in Threads : retains[u] => u = t
<1>1. IsFiniteSet(Retainers) /\ t \in Retainers
  BY FaultIsrAssumption, FS_Subset DEF Retainers
<1>2. \E x : Retainers = {x}
  BY <1>1, RetainedPositive, FS_Singleton
<1>3. QED
  BY <1>1, <1>2 DEF Retainers

(* Who retains and who uses the GPU.                                       *)
LEMMA UseStep ==
  ASSUME IInv, [IsrNext]_isr_vars
  PROVE  UseInv'
<1> USE FaultIsrAssumption DEF IInv, IsrTypeOK, Removing
<1>1. ASSUME top_half_get_gpu PROVE UseInv'
  BY <1>1 DEF UseInv, top_half_get_gpu, thread_vars
<1>2. ASSUME top_half_done PROVE UseInv'
  BY <1>2 DEF UseInv, top_half_done, uvm_gpu_kref_put, thread_vars
<1>3. ASSUME NEW pending \in BOOLEAN, uvm8_isr_top_half(pending) PROVE UseInv'
  BY <1>3 DEF UseInv, uvm8_isr_top_half, uvm_gpu_disable_replayable_faults, thread_vars
<1>4. ASSUME NEW g \in Objects, bottom_half_start(g) PROVE UseInv'
  BY <1>4 DEF UseInv, bottom_half_start, thread_vars
<1>5. ASSUME NEW g \in Objects, bottom_half_unlock(g) PROVE UseInv'
  BY <1>5 DEF UseInv, bottom_half_unlock, uvm_gpu_isr_unlock, uvm_gpu_enable_replayable_faults,
    thread_vars
<1>6. ASSUME NEW g \in Objects, bottom_half_done(g) PROVE UseInv'
  BY <1>6 DEF UseInv, bottom_half_done, uvm_gpu_kref_put, thread_vars
<1>7. ASSUME NEW t \in Threads, uvm_gpu_fault_buffer_flush(t) PROVE UseInv'
  <2>1. gpu_table # NoGpu /\ gpu_of[t] = gpu_table /\ retains[t]
    BY <1>7 DEF uvm_gpu_fault_buffer_flush, RetainInv
  <2>2. \A u \in Threads : pc[u] \notin Removing
    BY <2>1 DEF UseInv
  <2>3. \A u \in Threads : pc'[u] = IF u = t THEN "lock" ELSE pc[u]
    BY <1>7 DEF uvm_gpu_fault_buffer_flush, Goto
  <2>4. QED
    BY <1>7, <2>1, <2>2, <2>3 DEF UseInv, uvm_gpu_fault_buffer_flush
<1>8. ASSUME NEW t \in Threads, remove_gpus_from_gpu(t) PROVE UseInv'
  BY <1>8 DEF UseInv, remove_gpus_from_gpu, isr_lock_disable, uvm_gpu_disable_replayable_faults,
    Goto
<1>9. ASSUME NEW t \in Threads, uvm_gpu_retain_by_uuid(t) PROVE UseInv'
  BY <1>9 DEF UseInv, uvm_gpu_retain_by_uuid
<1>10. ASSUME NEW t \in Threads, uvm_gpu_release(t) PROVE UseInv'
  <2>1. gpu_table # NoGpu /\ gpu_of[t] = gpu_table /\ retains[t] /\ pc[t] = "idle"
    BY <1>10 DEF uvm_gpu_release, RetainInv
  <2>2. \A u \in Threads : pc[u] \notin Removing
    BY <2>1 DEF UseInv
  <2>3. \A u \in Threads : retains'[u] <=> retains[u] /\ u # t
    BY <1>10 DEF uvm_gpu_release
  <2>4. CASE retained_count[gpu_of[t]] = 1
    <3>1. \A u \in Threads : ~retains'[u] /\ (u # t => ~retains[u])
      BY <2>1, <2>3, <2>4, LastRetainer
    <3>2. global_lock = None /\ global_lock' = t /\ UNCHANGED <<gpu_table, gpu_of>>
      BY <1>10, <2>4 DEF uvm_gpu_release
    <3>3. \A u \in Threads : pc'[u] = IF u = t THEN "remove" ELSE "idle"
      BY <1>10, <2>2, <2>4, <3>1, <3>2 DEF uvm_gpu_release, Goto, UseInv, ThreadPCs
    <3>4. QED
      BY <1>10, <2>1, <3>1, <3>2, <3>3 DEF UseInv, HandleInv, uvm_gpu_release
  <2>5. CASE retained_count[gpu_of[t]] # 1
    <3>1. UNCHANGED <<global_lock, pc, gpu_table, gpu_of>>
      BY <1>10, <2>5 DEF uvm_gpu_release
    <3>2. QED
      BY <2>1, <2>2, <2>3, <3>1 DEF UseInv
  <2>6. QED
    BY <2>4, <2>5
<1>11. ASSUME NEW t \in Threads, NEW g \in Objects, add_gpu(t, g) PROVE UseInv'
  BY <1>11 DEF UseInv, add_gpu, alloc_gpu
<1>12. ASSUME NEW t \in Threads, NEW g \in Objects, NEW step \in AddFailures, add_gpu_fails(t, g, step) PROVE UseInv'
  <2>1. gpu_table = NoGpu /\ \A u \in Threads : ~retains[u]
    BY <1>12 DEF add_gpu_fails, RetainInv
  <2>2. \A u \in Threads : pc[u] = "idle"
    BY <1>12, <2>1 DEF add_gpu_fails, UseInv, ThreadPCs
  <2>3. \A u \in Threads : pc'[u] = IF u = t THEN "remove" ELSE "idle"
    BY <1>12, <2>2 DEF add_gpu_fails, Goto
  <2>4. gpu_of'[t] = g /\ gpu_table' = NoGpu /\ global_lock' = t /\ retains' = retains
    BY <1>12, <2>1 DEF add_gpu_fails, alloc_gpu
  <2>5. ~scheduled'[g] /\ bh_pc'[g] = "idle"
    BY <1>12, FreeUnused DEF add_gpu_fails, alloc_gpu
  <2>6. QED
    BY <2>1, <2>3, <2>4, <2>5 DEF UseInv
<1>13. ASSUME NEW t \in Threads, isr_lock_mutex(t) PROVE UseInv'
  BY <1>13 DEF UseInv, isr_lock_mutex, Goto
<1>14. ASSUME NEW t \in Threads, thread_isr_unlock(t) PROVE UseInv'
  BY <1>14 DEF UseInv, thread_isr_unlock, uvm_gpu_isr_unlock, uvm_gpu_enable_replayable_faults, Goto
<1>15. ASSUME NEW t \in Threads, remove_from_table(t) PROVE UseInv'
  BY <1>15 DEF UseInv, remove_from_table, Goto, object_vars
<1>16. ASSUME NEW t \in Threads, remove_stop_handling(t) PROVE UseInv'
  <2>1. pc[t] = "mute" /\ gpu_of[t] \in Objects /\ gpu_table = NoGpu /\ global_lock = t
    BY <1>16 DEF remove_stop_handling, UseInv
  <2>2. \A u \in Threads : ~retains[u] /\ (u # t => pc[u] = "idle")
    BY <2>1, NobodyElse DEF UseInv
  <2>3. pc'[t] = IF handling_replayable_faults[gpu_of[t]] THEN "stop" ELSE "put"
    BY <1>16 DEF remove_stop_handling, Goto
  <2>4. \A u \in Threads \ {t} : pc'[u] = "idle"
    BY <1>16, <2>2 DEF remove_stop_handling, Goto
  <2>5. ~handling_replayable_faults'[gpu_of[t]]
    BY <1>16, <2>1 DEF remove_stop_handling
  <2>6. UNCHANGED <<gpu_table, global_lock, gpu_of, retains, scheduled, bh_pc>>
    BY <1>16 DEF remove_stop_handling
  <2>7. pc'[t] = "stop" => disable_intr_ref_count'[gpu_of[t]] > 0
    BY <1>16, <2>1, <2>3 DEF remove_stop_handling, isr_lock_disable, uvm_gpu_disable_replayable_faults
  <2>8. pc'[t] = "put" => ~scheduled[gpu_of[t]] /\ bh_pc[gpu_of[t]] = "idle"
    BY <2>1, <2>3 DEF UseInv
  <2>9. QED
    BY <2>1, <2>2, <2>3, <2>4, <2>5, <2>6, <2>7, <2>8 DEF UseInv
<1>17. ASSUME NEW t \in Threads, remove_stop_queue(t) PROVE UseInv'
  BY <1>17 DEF UseInv, remove_stop_queue, Goto, object_vars
<1>18. ASSUME NEW t \in Threads, remove_deinit(t) PROVE UseInv'
  BY <1>18 DEF UseInv, remove_deinit, Goto, object_vars
<1>19. ASSUME NEW t \in Threads, remove_done(t) PROVE UseInv'
  BY <1>19 DEF UseInv, remove_done, uvm_gpu_kref_put, Goto
<1>20. ASSUME UNCHANGED isr_vars PROVE UseInv'
  BY <1>20 DEF UseInv, isr_vars, object_vars, thread_vars
<1>21. QED
  BY <1>1, <1>2, <1>3, <1>4, <1>5, <1>6, <1>7, <1>8, <1>9, <1>10, <1>11, <1>12, <1>13, <1>14,
    <1>15, <1>16, <1>17, <1>18, <1>19, <1>20 DEF IsrNext, ThreadCall, remove_gpu,
    uvm8_isr_bottom_half

(* Which objects handle faults.                                            *)
LEMMA HandleStep ==
  ASSUME IInv, [IsrNext]_isr_vars
  PROVE  HandleInv'
<1> USE FaultIsrAssumption DEF IInv, IsrTypeOK, Removing
<1>1. ASSUME top_half_get_gpu PROVE HandleInv'
  BY <1>1 DEF HandleInv, top_half_get_gpu, thread_vars
<1>2. ASSUME top_half_done PROVE HandleInv'
  BY <1>2 DEF HandleInv, top_half_done, uvm_gpu_kref_put, thread_vars
<1>3. ASSUME NEW pending \in BOOLEAN, uvm8_isr_top_half(pending) PROVE HandleInv'
  BY <1>3 DEF HandleInv, uvm8_isr_top_half, uvm_gpu_disable_replayable_faults, thread_vars
<1>4. ASSUME NEW g \in Objects, bottom_half_start(g) PROVE HandleInv'
  BY <1>4 DEF HandleInv, bottom_half_start, thread_vars
<1>5. ASSUME NEW g \in Objects, bottom_half_unlock(g) PROVE HandleInv'
  BY <1>5 DEF HandleInv, bottom_half_unlock, uvm_gpu_isr_unlock, uvm_gpu_enable_replayable_faults,
    thread_vars
<1>6. ASSUME NEW g \in Objects, bottom_half_done(g) PROVE HandleInv'
  BY <1>6 DEF HandleInv, bottom_half_done, uvm_gpu_kref_put, thread_vars
<1>7. ASSUME NEW t \in Threads, uvm_gpu_fault_buffer_flush(t) PROVE HandleInv'
  BY <1>7 DEF HandleInv, uvm_gpu_fault_buffer_flush, isr_lock_disable,
    uvm_gpu_disable_replayable_faults, Goto
<1>8. ASSUME NEW t \in Threads, remove_gpus_from_gpu(t) PROVE HandleInv'
  BY <1>8 DEF HandleInv, remove_gpus_from_gpu, isr_lock_disable, uvm_gpu_disable_replayable_faults,
    Goto
<1>9. ASSUME NEW t \in Threads, uvm_gpu_retain_by_uuid(t) PROVE HandleInv'
  BY <1>9 DEF HandleInv, uvm_gpu_retain_by_uuid
<1>10. ASSUME NEW t \in Threads, uvm_gpu_release(t) PROVE HandleInv'
  BY <1>10 DEF HandleInv, uvm_gpu_release, Goto
<1>11. ASSUME NEW t \in Threads, NEW g \in Objects, add_gpu(t, g) PROVE HandleInv'
  BY <1>11 DEF HandleInv, add_gpu, alloc_gpu
<1>12. ASSUME NEW t \in Threads, NEW g \in Objects, NEW step \in AddFailures, add_gpu_fails(t, g, step) PROVE HandleInv'
  BY <1>12 DEF HandleInv, add_gpu_fails, alloc_gpu, Goto, AddSteps
<1>13. ASSUME NEW t \in Threads, isr_lock_mutex(t) PROVE HandleInv'
  BY <1>13 DEF HandleInv, isr_lock_mutex, Goto
<1>14. ASSUME NEW t \in Threads, thread_isr_unlock(t) PROVE HandleInv'
  BY <1>14 DEF HandleInv, thread_isr_unlock, uvm_gpu_isr_unlock, uvm_gpu_enable_replayable_faults,
    Goto
<1>15. ASSUME NEW t \in Threads, remove_from_table(t) PROVE HandleInv'
  <2>1. ASSUME NEW g \in Objects, handling_replayable_faults[g] PROVE gpu_of[t] = g
    BY <1>15, <2>1, NobodyElse DEF remove_from_table, HandleInv, UseInv
  <2>2. pc'[t] = "mute"
    BY <1>15 DEF remove_from_table, Goto
  <2>3. QED
    BY <1>15, <2>1, <2>2 DEF HandleInv, remove_from_table, object_vars
<1>16. ASSUME NEW t \in Threads, remove_stop_handling(t) PROVE HandleInv'
  <2>1. ASSUME NEW g \in Objects, handling_replayable_faults[g] PROVE gpu_of[t] = g
    BY <1>16, <2>1, NobodyElse DEF remove_stop_handling, HandleInv, UseInv
  <2>2. \A g \in Objects : ~handling_replayable_faults'[g]
    BY <1>16, <2>1 DEF remove_stop_handling
  <2>3. gpu_table' = NoGpu
    BY <1>16 DEF remove_stop_handling, UseInv
  <2>4. QED
    BY <2>2, <2>3 DEF HandleInv
<1>17. ASSUME NEW t \in Threads, remove_stop_queue(t) PROVE HandleInv'
  BY <1>17 DEF HandleInv, remove_stop_queue, Goto, object_vars
<1>18. ASSUME NEW t \in Threads, remove_deinit(t) PROVE HandleInv'
  BY <1>18 DEF HandleInv, remove_deinit, Goto, object_vars
<1>19. ASSUME NEW t \in Threads, remove_done(t) PROVE HandleInv'
  BY <1>19 DEF HandleInv, remove_done, uvm_gpu_kref_put, Goto
<1>20. ASSUME UNCHANGED isr_vars PROVE HandleInv'
  BY <1>20 DEF HandleInv, isr_vars, object_vars, thread_vars
<1>21. QED
  BY <1>1, <1>2, <1>3, <1>4, <1>5, <1>6, <1>7, <1>8, <1>9, <1>10, <1>11, <1>12, <1>13, <1>14,
    <1>15, <1>16, <1>17, <1>18, <1>19, <1>20 DEF IsrNext, ThreadCall, remove_gpu,
    uvm8_isr_bottom_half

(* The top half and its object.                                            *)
LEMMA TopStep ==
  ASSUME IInv, [IsrNext]_isr_vars
  PROVE  TopInv'
<1> USE FaultIsrAssumption DEF IInv, IsrTypeOK
<1>1. ASSUME top_half_get_gpu PROVE TopInv'
  BY <1>1 DEF TopInv, top_half_get_gpu, thread_vars
<1>2. ASSUME top_half_done PROVE TopInv'
  BY <1>2 DEF TopInv, top_half_done, uvm_gpu_kref_put, thread_vars
<1>3. ASSUME NEW pending \in BOOLEAN, uvm8_isr_top_half(pending) PROVE TopInv'
  BY <1>3 DEF TopInv, uvm8_isr_top_half, uvm_gpu_disable_replayable_faults, thread_vars
<1>4. ASSUME NEW g \in Objects, bottom_half_start(g) PROVE TopInv'
  BY <1>4 DEF TopInv, bottom_half_start, thread_vars
<1>5. ASSUME NEW g \in Objects, bottom_half_unlock(g) PROVE TopInv'
  BY <1>5 DEF TopInv, bottom_half_unlock, uvm_gpu_isr_unlock, uvm_gpu_enable_replayable_faults,
    thread_vars
<1>6. ASSUME NEW g \in Objects, bottom_half_done(g) PROVE TopInv'
  BY <1>6 DEF TopInv, bottom_half_done, uvm_gpu_kref_put, thread_vars
<1>7. ASSUME NEW t \in Threads, uvm_gpu_fault_buffer_flush(t) PROVE TopInv'
  BY <1>7 DEF TopInv, uvm_gpu_fault_buffer_flush, isr_lock_disable,
    uvm_gpu_disable_replayable_faults, Goto
<1>8. ASSUME NEW t \in Threads, remove_gpus_from_gpu(t) PROVE TopInv'
  BY <1>8 DEF TopInv, remove_gpus_from_gpu, isr_lock_disable, uvm_gpu_disable_replayable_faults,
    Goto
<1>9. ASSUME NEW t \in Threads, uvm_gpu_retain_by_uuid(t) PROVE TopInv'
  BY <1>9 DEF TopInv, uvm_gpu_retain_by_uuid
<1>10. ASSUME NEW t \in Threads, uvm_gpu_release(t) PROVE TopInv'
  BY <1>10 DEF TopInv, uvm_gpu_release, Goto
<1>11. ASSUME NEW t \in Threads, NEW g \in Objects, add_gpu(t, g) PROVE TopInv'
  BY <1>11 DEF TopInv, add_gpu, alloc_gpu
<1>12. ASSUME NEW t \in Threads, NEW g \in Objects, NEW step \in AddFailures, add_gpu_fails(t, g, step) PROVE TopInv'
  BY <1>12 DEF TopInv, add_gpu_fails, alloc_gpu, Goto, AddSteps
<1>13. ASSUME NEW t \in Threads, isr_lock_mutex(t) PROVE TopInv'
  BY <1>13 DEF TopInv, isr_lock_mutex, Goto
<1>14. ASSUME NEW t \in Threads, thread_isr_unlock(t) PROVE TopInv'
  BY <1>14 DEF TopInv, thread_isr_unlock, uvm_gpu_isr_unlock, uvm_gpu_enable_replayable_faults, Goto
<1>15. ASSUME NEW t \in Threads, remove_from_table(t) PROVE TopInv'
  BY <1>15 DEF TopInv, remove_from_table, Goto, object_vars
<1>16. ASSUME NEW t \in Threads, remove_stop_handling(t) PROVE TopInv'
  BY <1>16 DEF TopInv, remove_stop_handling, isr_lock_disable, uvm_gpu_disable_replayable_faults,
    Goto
<1>17. ASSUME NEW t \in Threads, remove_stop_queue(t) PROVE TopInv'
  BY <1>17 DEF TopInv, remove_stop_queue, Goto, object_vars
<1>18. ASSUME NEW t \in Threads, remove_deinit(t) PROVE TopInv'
  BY <1>18 DEF TopInv, remove_deinit, Goto, object_vars
<1>19. ASSUME NEW t \in Threads, remove_done(t) PROVE TopInv'
  BY <1>19 DEF TopInv, remove_done, uvm_gpu_kref_put, Goto
<1>20. ASSUME UNCHANGED isr_vars PROVE TopInv'
  BY <1>20 DEF TopInv, isr_vars, object_vars, thread_vars
<1>21. QED
  BY <1>1, <1>2, <1>3, <1>4, <1>5, <1>6, <1>7, <1>8, <1>9, <1>10, <1>11, <1>12, <1>13, <1>14,
    <1>15, <1>16, <1>17, <1>18, <1>19, <1>20 DEF IsrNext, ThreadCall, remove_gpu,
    uvm8_isr_bottom_half

(* The mutex and those who hold it.                                        *)
LEMMA LockStep ==
  ASSUME IInv, [IsrNext]_isr_vars
  PROVE  LockHandedOver'
<1> USE Distinct DEF IInv, IsrTypeOK
<1>1. ASSUME top_half_get_gpu PROVE LockHandedOver'
  BY <1>1 DEF LockHandedOver, top_half_get_gpu, thread_vars
<1>2. ASSUME top_half_done PROVE LockHandedOver'
  BY <1>2 DEF LockHandedOver, top_half_done, uvm_gpu_kref_put, thread_vars
<1>3. ASSUME NEW pending \in BOOLEAN, uvm8_isr_top_half(pending) PROVE LockHandedOver'
  <2>1. top.gpu \in Objects
    BY <1>3 DEF uvm8_isr_top_half, TopInv
  <2>2. CASE UNCHANGED <<isr_lock, scheduled>>
    BY <1>3, <2>2 DEF LockHandedOver, uvm8_isr_top_half, thread_vars
  <2>3. CASE /\ isr_lock[top.gpu] = None
             /\ isr_lock' = [isr_lock EXCEPT ![top.gpu] = BottomHalf]
             /\ scheduled' = [scheduled EXCEPT ![top.gpu] = TRUE]
    <3>1. ~scheduled[top.gpu] /\ bh_pc[top.gpu] # "service"
      BY <2>1, <2>3 DEF LockHandedOver
    <3>2. \A u \in Threads : ~(pc[u] = "locked" /\ gpu_of[u] = top.gpu)
      BY <2>1, <2>3 DEF LockHandedOver
    <3>3. QED
      BY <1>3, <2>1, <2>3, <3>1, <3>2 DEF LockHandedOver, uvm8_isr_top_half, thread_vars
  <2>4. QED
    BY <1>3, <2>2, <2>3 DEF uvm8_isr_top_half
<1>4. ASSUME NEW g \in Objects, bottom_half_start(g) PROVE LockHandedOver'
  BY <1>4 DEF LockHandedOver, bottom_half_start, thread_vars
<1>5. ASSUME NEW g \in Objects, bottom_half_unlock(g) PROVE LockHandedOver'
  <2>1. isr_lock[g] = BottomHalf /\ ~scheduled[g]
    BY <1>5 DEF LockHandedOver, bottom_half_unlock
  <2>2. \A u \in Threads : ~(pc[u] = "locked" /\ gpu_of[u] = g)
    BY <2>1 DEF LockHandedOver
  <2>3. isr_lock' = [isr_lock EXCEPT ![g] = None] /\ bh_pc' = [bh_pc EXCEPT ![g] = "put"]
    BY <1>5 DEF bottom_half_unlock, uvm_gpu_isr_unlock
  <2>4. UNCHANGED <<scheduled, pc, gpu_of>>
    BY <1>5 DEF bottom_half_unlock, thread_vars
  <2>5. QED
    BY <2>1, <2>2, <2>3, <2>4 DEF LockHandedOver
<1>6. ASSUME NEW g \in Objects, bottom_half_done(g) PROVE LockHandedOver'
  BY <1>6 DEF LockHandedOver, bottom_half_done, uvm_gpu_kref_put, thread_vars
<1>7. ASSUME NEW t \in Threads, uvm_gpu_fault_buffer_flush(t) PROVE LockHandedOver'
  BY <1>7 DEF LockHandedOver, uvm_gpu_fault_buffer_flush, isr_lock_disable,
    uvm_gpu_disable_replayable_faults, Goto
<1>8. ASSUME NEW t \in Threads, remove_gpus_from_gpu(t) PROVE LockHandedOver'
  BY <1>8 DEF LockHandedOver, remove_gpus_from_gpu, isr_lock_disable,
    uvm_gpu_disable_replayable_faults, Goto
<1>9. ASSUME NEW t \in Threads, uvm_gpu_retain_by_uuid(t) PROVE LockHandedOver'
  BY <1>9 DEF LockHandedOver, uvm_gpu_retain_by_uuid
<1>10. ASSUME NEW t \in Threads, uvm_gpu_release(t) PROVE LockHandedOver'
  BY <1>10 DEF LockHandedOver, uvm_gpu_release, Goto
<1>11. ASSUME NEW t \in Threads, NEW g \in Objects, add_gpu(t, g) PROVE LockHandedOver'
  <2>1. \A u \in Threads : pc[u] # "locked"
    BY <1>11 DEF add_gpu, UseInv
  <2>2. ~scheduled[g] /\ bh_pc[g] = "idle"
    BY <1>11, FreeUnused DEF add_gpu, alloc_gpu
  <2>3. QED
    BY <1>11, <2>1, <2>2 DEF LockHandedOver, add_gpu, alloc_gpu
<1>12. ASSUME NEW t \in Threads, NEW g \in Objects, NEW step \in AddFailures, add_gpu_fails(t, g, step) PROVE LockHandedOver'
  <2>1. \A u \in Threads : pc[u] # "locked" /\ pc'[u] # "locked"
    BY <1>12 DEF add_gpu_fails, UseInv, Goto
  <2>2. ~scheduled[g] /\ bh_pc[g] = "idle"
    BY <1>12, FreeUnused DEF add_gpu_fails, alloc_gpu
  <2>3. QED
    BY <1>12, <2>1, <2>2 DEF LockHandedOver, add_gpu_fails, alloc_gpu
<1>13. ASSUME NEW t \in Threads, isr_lock_mutex(t) PROVE LockHandedOver'
  <2>1. gpu_of[t] \in Objects
    BY <1>13 DEF isr_lock_mutex, UseInv
  <2>2. \A u \in Threads : pc'[u] = IF u = t THEN "locked" ELSE pc[u]
    BY <1>13 DEF isr_lock_mutex, Goto
  <2>3. \A g \in Objects : isr_lock'[g] = IF g = gpu_of[t] THEN t ELSE isr_lock[g]
    BY <1>13 DEF isr_lock_mutex
  <2>4. QED
    BY <1>13, <2>1, <2>2, <2>3 DEF LockHandedOver, isr_lock_mutex
<1>14. ASSUME NEW t \in Threads, thread_isr_unlock(t) PROVE LockHandedOver'
  <2>1. gpu_of[t] \in Objects /\ isr_lock[gpu_of[t]] = t
    BY <1>14 DEF thread_isr_unlock, UseInv, LockHandedOver
  <2>2. \A u \in Threads : pc'[u] = IF u = t THEN "idle" ELSE pc[u]
    BY <1>14 DEF thread_isr_unlock, Goto
  <2>3. \A g \in Objects : isr_lock'[g] = IF g = gpu_of[t] THEN None ELSE isr_lock[g]
    BY <1>14 DEF thread_isr_unlock, uvm_gpu_isr_unlock
  <2>4. UNCHANGED <<scheduled, bh_pc, gpu_of>>
    BY <1>14 DEF thread_isr_unlock
  <2>5. QED
    BY <2>1, <2>2, <2>3, <2>4 DEF LockHandedOver
<1>15. ASSUME NEW t \in Threads, remove_from_table(t) PROVE LockHandedOver'
  BY <1>15 DEF LockHandedOver, remove_from_table, Goto, object_vars
<1>16. ASSUME NEW t \in Threads, remove_stop_handling(t) PROVE LockHandedOver'
  BY <1>16 DEF LockHandedOver, remove_stop_handling, isr_lock_disable,
    uvm_gpu_disable_replayable_faults, Goto
<1>17. ASSUME NEW t \in Threads, remove_stop_queue(t) PROVE LockHandedOver'
  BY <1>17 DEF LockHandedOver, remove_stop_queue, Goto, object_vars
<1>18. ASSUME NEW t \in Threads, remove_deinit(t) PROVE LockHandedOver'
  BY <1>18 DEF LockHandedOver, remove_deinit, Goto, object_vars
<1>19. ASSUME NEW t \in Threads, remove_done(t) PROVE LockHandedOver'
  BY <1>19 DEF LockHandedOver, remove_done, uvm_gpu_kref_put, Goto
<1>20. ASSUME UNCHANGED isr_vars PROVE LockHandedOver'
  BY <1>20 DEF LockHandedOver, isr_vars, object_vars, thread_vars
<1>21. QED
  BY <1>1, <1>2, <1>3, <1>4, <1>5, <1>6, <1>7, <1>8, <1>9, <1>10, <1>11, <1>12, <1>13, <1>14,
    <1>15, <1>16, <1>17, <1>18, <1>19, <1>20 DEF IsrNext, ThreadCall, remove_gpu,
    uvm8_isr_bottom_half

(* The count of those who retain the GPU.                                  *)
LEMMA RetainStep ==
  ASSUME IInv, [IsrNext]_isr_vars
  PROVE  RetainInv'
<1> USE FaultIsrAssumption DEF IInv, IsrTypeOK
<1>1. ASSUME top_half_get_gpu PROVE RetainInv'
  BY <1>1 DEF RetainInv, Retainers, top_half_get_gpu, thread_vars
<1>2. ASSUME top_half_done PROVE RetainInv'
  BY <1>2 DEF RetainInv, Retainers, top_half_done, uvm_gpu_kref_put, thread_vars
<1>3. ASSUME NEW pending \in BOOLEAN, uvm8_isr_top_half(pending) PROVE RetainInv'
  BY <1>3 DEF RetainInv, Retainers, uvm8_isr_top_half, uvm_gpu_disable_replayable_faults,
    thread_vars
<1>4. ASSUME NEW g \in Objects, bottom_half_start(g) PROVE RetainInv'
  BY <1>4 DEF RetainInv, Retainers, bottom_half_start, thread_vars
<1>5. ASSUME NEW g \in Objects, bottom_half_unlock(g) PROVE RetainInv'
  BY <1>5 DEF RetainInv, Retainers, bottom_half_unlock, uvm_gpu_isr_unlock,
    uvm_gpu_enable_replayable_faults, thread_vars
<1>6. ASSUME NEW g \in Objects, bottom_half_done(g) PROVE RetainInv'
  BY <1>6 DEF RetainInv, Retainers, bottom_half_done, uvm_gpu_kref_put, thread_vars
<1>7. ASSUME NEW t \in Threads, uvm_gpu_fault_buffer_flush(t) PROVE RetainInv'
  BY <1>7 DEF RetainInv, Retainers, uvm_gpu_fault_buffer_flush, isr_lock_disable,
    uvm_gpu_disable_replayable_faults, Goto
<1>8. ASSUME NEW t \in Threads, remove_gpus_from_gpu(t) PROVE RetainInv'
  BY <1>8 DEF RetainInv, Retainers, remove_gpus_from_gpu, isr_lock_disable,
    uvm_gpu_disable_replayable_faults, Goto
<1>9. ASSUME NEW t \in Threads, uvm_gpu_retain_by_uuid(t) PROVE RetainInv'
  <2>1. Retainers' = Retainers \cup {t} /\ t \notin Retainers
    BY <1>9 DEF uvm_gpu_retain_by_uuid, Retainers
  <2>2. Cardinality(Retainers') = Cardinality(Retainers) + 1
    BY <2>1, RetainersFinite, FS_AddElement
  <2>3. gpu_table' = gpu_table /\ retained_count'[gpu_table] = retained_count[gpu_table] + 1
    BY <1>9 DEF uvm_gpu_retain_by_uuid
  <2>4. gpu_table' # NoGpu => retained_count'[gpu_table'] = Cardinality(Retainers')
    BY <2>2, <2>3 DEF RetainInv
  <2>5. \A u \in Threads : retains'[u] =>
          gpu_table' # NoGpu /\ gpu_of'[u] = gpu_table' /\ pc'[u] \in {"idle", "lock", "locked"}
    BY <1>9 DEF uvm_gpu_retain_by_uuid, RetainInv
  <2>6. QED
    BY <2>4, <2>5 DEF RetainInv
<1>10. ASSUME NEW t \in Threads, uvm_gpu_release(t) PROVE RetainInv'
  <2>1. Retainers' = Retainers \ {t} /\ t \in Retainers
    BY <1>10 DEF uvm_gpu_release, Retainers
  <2>2. Cardinality(Retainers') = Cardinality(Retainers) - 1
    BY <2>1, RetainersFinite, FS_RemoveElement
  <2>3. gpu_table \in Objects /\ gpu_of[t] = gpu_table /\ gpu_table' = gpu_table
    BY <1>10 DEF uvm_gpu_release, RetainInv
  <2>4. retained_count'[gpu_table] = retained_count[gpu_table] - 1
    BY <1>10, <2>3 DEF uvm_gpu_release
  <2>5. gpu_table' # NoGpu => retained_count'[gpu_table'] = Cardinality(Retainers')
    BY <2>2, <2>3, <2>4 DEF RetainInv
  <2>6. \A u \in Threads : retains'[u] =>
          gpu_table' # NoGpu /\ gpu_of'[u] = gpu_table' /\ pc'[u] \in {"idle", "lock", "locked"}
    BY <1>10 DEF uvm_gpu_release, RetainInv, Goto
  <2>7. QED
    BY <2>5, <2>6 DEF RetainInv
<1>11. ASSUME NEW t \in Threads, NEW g \in Objects, add_gpu(t, g) PROVE RetainInv'
  <2>1. Retainers' = {t}
    BY <1>11 DEF add_gpu, RetainInv, Retainers
  <2>2. Cardinality(Retainers') = 1
    BY <2>1, FS_Singleton
  <2>3. gpu_table' = g /\ retained_count'[g] = 1
    BY <1>11 DEF add_gpu
  <2>4. \A u \in Threads : retains'[u] =>
          gpu_table' # NoGpu /\ gpu_of'[u] = gpu_table' /\ pc'[u] \in {"idle", "lock", "locked"}
    BY <1>11 DEF add_gpu, alloc_gpu, RetainInv
  <2>5. QED
    BY <2>2, <2>3, <2>4 DEF RetainInv
<1>12. ASSUME NEW t \in Threads, NEW g \in Objects, NEW step \in AddFailures, add_gpu_fails(t, g, step) PROVE RetainInv'
  BY <1>12 DEF RetainInv, Retainers, add_gpu_fails, alloc_gpu, Goto, AddSteps
<1>13. ASSUME NEW t \in Threads, isr_lock_mutex(t) PROVE RetainInv'
  BY <1>13 DEF RetainInv, Retainers, isr_lock_mutex, Goto
<1>14. ASSUME NEW t \in Threads, thread_isr_unlock(t) PROVE RetainInv'
  BY <1>14 DEF RetainInv, Retainers, thread_isr_unlock, uvm_gpu_isr_unlock,
    uvm_gpu_enable_replayable_faults, Goto
<1>15. ASSUME NEW t \in Threads, remove_from_table(t) PROVE RetainInv'
  <2>1. \A u \in Threads : ~retains[u]
    BY <1>15 DEF remove_from_table, UseInv, Removing
  <2>2. QED
    BY <1>15, <2>1 DEF RetainInv, remove_from_table
<1>16. ASSUME NEW t \in Threads, remove_stop_handling(t) PROVE RetainInv'
  BY <1>16 DEF RetainInv, Retainers, remove_stop_handling, isr_lock_disable,
    uvm_gpu_disable_replayable_faults, Goto
<1>17. ASSUME NEW t \in Threads, remove_stop_queue(t) PROVE RetainInv'
  BY <1>17 DEF RetainInv, Retainers, remove_stop_queue, Goto, object_vars
<1>18. ASSUME NEW t \in Threads, remove_deinit(t) PROVE RetainInv'
  BY <1>18 DEF RetainInv, Retainers, remove_deinit, Goto, object_vars
<1>19. ASSUME NEW t \in Threads, remove_done(t) PROVE RetainInv'
  BY <1>19 DEF RetainInv, Retainers, remove_done, uvm_gpu_kref_put, Goto
<1>20. ASSUME UNCHANGED isr_vars PROVE RetainInv'
  BY <1>20 DEF RetainInv, Retainers, isr_vars, object_vars, thread_vars
<1>21. QED
  BY <1>1, <1>2, <1>3, <1>4, <1>5, <1>6, <1>7, <1>8, <1>9, <1>10, <1>11, <1>12, <1>13, <1>14,
    <1>15, <1>16, <1>17, <1>18, <1>19, <1>20 DEF IsrNext, ThreadCall, remove_gpu,
    uvm8_isr_bottom_half

(* The references to each object.                                          *)
LEMMA KrefStep ==
  ASSUME IInv, [IsrNext]_isr_vars
  PROVE  KrefExact'
<1> USE FaultIsrAssumption DEF IInv, IsrTypeOK
<1>1. ASSUME top_half_get_gpu PROVE KrefExact'
  <2>1. top.gpu = NoGpu /\ gpu_table \in Objects /\ top'.gpu = gpu_table
    BY <1>1 DEF top_half_get_gpu, TopInv
  <2>2. \A h \in Objects : Exists(h)' <=> Exists(h)
    BY <1>1 DEF top_half_get_gpu, Exists, thread_vars
  <2>3. QED
    BY <1>1, <2>1, <2>2 DEF KrefExact, One, top_half_get_gpu
<1>2. ASSUME top_half_done PROVE KrefExact'
  BY <1>2 DEF KrefExact, One, Exists, top_half_done, uvm_gpu_kref_put, thread_vars
<1>3. ASSUME NEW pending \in BOOLEAN, uvm8_isr_top_half(pending) PROVE KrefExact'
  <2>1. top.gpu \in Objects
    BY <1>3 DEF uvm8_isr_top_half, TopInv
  <2>2. \A h \in Objects : Exists(h)' <=> Exists(h)
    BY <1>3 DEF uvm8_isr_top_half, Exists, thread_vars
  <2>3. CASE scheduled' = scheduled /\ top' = [top EXCEPT !.pc = "put"]
    <3>1. top'.gpu = top.gpu
      BY <2>3
    <3>2. QED
      BY <1>3, <2>2, <2>3, <3>1 DEF KrefExact, One, uvm8_isr_top_half
  <2>4. CASE /\ isr_lock[top.gpu] = None /\ scheduled' = [scheduled EXCEPT ![top.gpu] = TRUE]
             /\ top' = [pc |-> "idle", gpu |-> NoGpu]
    <3>1. ~scheduled[top.gpu]
      BY <2>1, <2>4, Distinct DEF LockHandedOver
    <3>2. \A h \in Objects : scheduled'[h] <=> scheduled[h] \/ h = top.gpu
      BY <2>1, <2>4
    <3>3. \A h \in Objects : top'.gpu # h
      BY <2>4
    <3>4. QED
      BY <1>3, <2>2, <3>1, <3>2, <3>3 DEF KrefExact, One, uvm8_isr_top_half
  <2>5. QED
    BY <1>3, <2>3, <2>4 DEF uvm8_isr_top_half
<1>4. ASSUME NEW g \in Objects, bottom_half_start(g) PROVE KrefExact'
  BY <1>4 DEF KrefExact, One, Exists, bottom_half_start, thread_vars
<1>5. ASSUME NEW g \in Objects, bottom_half_unlock(g) PROVE KrefExact'
  BY <1>5 DEF KrefExact, One, Exists, bottom_half_unlock, uvm_gpu_isr_unlock,
    uvm_gpu_enable_replayable_faults, thread_vars
<1>6. ASSUME NEW g \in Objects, bottom_half_done(g) PROVE KrefExact'
  BY <1>6 DEF KrefExact, One, Exists, bottom_half_done, uvm_gpu_kref_put, thread_vars
<1>7. ASSUME NEW t \in Threads, uvm_gpu_fault_buffer_flush(t) PROVE KrefExact'
  BY <1>7 DEF KrefExact, One, Exists, uvm_gpu_fault_buffer_flush, isr_lock_disable,
    uvm_gpu_disable_replayable_faults, Goto
<1>8. ASSUME NEW t \in Threads, remove_gpus_from_gpu(t) PROVE KrefExact'
  BY <1>8 DEF KrefExact, One, Exists, remove_gpus_from_gpu, isr_lock_disable,
    uvm_gpu_disable_replayable_faults, Goto
<1>9. ASSUME NEW t \in Threads, uvm_gpu_retain_by_uuid(t) PROVE KrefExact'
  BY <1>9 DEF KrefExact, One, Exists, uvm_gpu_retain_by_uuid
<1>10. ASSUME NEW t \in Threads, uvm_gpu_release(t) PROVE KrefExact'
  <2>1. gpu_table # NoGpu /\ gpu_of[t] = gpu_table /\ pc[t] = "idle"
    BY <1>10 DEF uvm_gpu_release, RetainInv
  <2>2. \A h \in Objects : Exists(h)' <=> Exists(h)
    BY <1>10, <2>1 DEF uvm_gpu_release, Exists, Goto
  <2>3. QED
    BY <1>10, <2>2 DEF KrefExact, One, uvm_gpu_release
<1>11. ASSUME NEW t \in Threads, NEW g \in Objects, add_gpu(t, g) PROVE KrefExact'
  BY <1>11 DEF KrefExact, One, Exists, add_gpu, alloc_gpu
<1>12. ASSUME NEW t \in Threads, NEW g \in Objects, NEW step \in AddFailures, add_gpu_fails(t, g, step) PROVE KrefExact'
  BY <1>12 DEF KrefExact, One, Exists, add_gpu_fails, alloc_gpu, Goto, AddSteps
<1>13. ASSUME NEW t \in Threads, isr_lock_mutex(t) PROVE KrefExact'
  BY <1>13 DEF KrefExact, One, Exists, isr_lock_mutex, Goto
<1>14. ASSUME NEW t \in Threads, thread_isr_unlock(t) PROVE KrefExact'
  BY <1>14 DEF KrefExact, One, Exists, thread_isr_unlock, uvm_gpu_isr_unlock,
    uvm_gpu_enable_replayable_faults, Goto
<1>15. ASSUME NEW t \in Threads, remove_from_table(t) PROVE KrefExact'
  <2>1. gpu_table \in {NoGpu, gpu_of[t]}
    BY <1>15 DEF remove_from_table, UseInv
  <2>2. pc'[t] = "mute" /\ \A u \in Threads \ {t} : pc'[u] = pc[u]
    BY <1>15 DEF remove_from_table, Goto
  <2>3. \A h \in Objects : Exists(h)' <=> Exists(h)
    BY <1>15, <2>1, <2>2 DEF remove_from_table, Exists
  <2>4. QED
    BY <1>15, <2>3 DEF KrefExact, One, remove_from_table, object_vars
<1>16. ASSUME NEW t \in Threads, remove_stop_handling(t) PROVE KrefExact'
  BY <1>16 DEF KrefExact, One, Exists, remove_stop_handling, isr_lock_disable,
    uvm_gpu_disable_replayable_faults, Goto
<1>17. ASSUME NEW t \in Threads, remove_stop_queue(t) PROVE KrefExact'
  BY <1>17 DEF KrefExact, One, Exists, remove_stop_queue, Goto, object_vars
<1>18. ASSUME NEW t \in Threads, remove_deinit(t) PROVE KrefExact'
  BY <1>18 DEF KrefExact, One, Exists, remove_deinit, Goto, object_vars
<1>19. ASSUME NEW t \in Threads, remove_done(t) PROVE KrefExact'
  <2>1. gpu_of[t] \in Objects /\ gpu_table = NoGpu /\ pc[t] = "put"
    BY <1>19 DEF remove_done, UseInv, Removing
  <2>2. \A u \in Threads : u # t => pc[u] = "idle"
    BY <2>1, NobodyElse DEF Removing
  <2>3. \A h \in Objects : Exists(h) <=> h = gpu_of[t]
    BY <2>1, <2>2 DEF Exists
  <2>4. \A u \in Threads : pc'[u] = "idle"
    BY <1>19, <2>2 DEF remove_done, Goto
  <2>5. \A h \in Objects : ~Exists(h)'
    BY <1>19, <2>1, <2>4 DEF Exists, remove_done
  <2>6. QED
    BY <1>19, <2>1, <2>3, <2>5 DEF KrefExact, One, remove_done, uvm_gpu_kref_put
<1>20. ASSUME UNCHANGED isr_vars PROVE KrefExact'
  BY <1>20 DEF KrefExact, One, Exists, isr_vars, object_vars, thread_vars
<1>21. QED
  BY <1>1, <1>2, <1>3, <1>4, <1>5, <1>6, <1>7, <1>8, <1>9, <1>10, <1>11, <1>12, <1>13, <1>14,
    <1>15, <1>16, <1>17, <1>18, <1>19, <1>20 DEF IsrNext, ThreadCall, remove_gpu,
    uvm8_isr_bottom_half

-----------------------------------------------------------------------------
(* The interrupt and those who hold or wait for the lock.                  *)

(* The GPU does not interrupt while somebody holds the lock.               *)
LEMMA QuietWhenHeld ==
  ASSUME IInv, NEW g \in Objects, handling_replayable_faults[g],
         disable_intr_ref_count[g] # 0
  PROVE  ~intr_enabled
<1>1. SUFFICES ASSUME intr_enabled PROVE FALSE
  OBVIOUS
<1>2. PICK h \in Objects : handling_replayable_faults[h] /\ Holders(h) = {}
  BY <1>1 DEF IInv, InterruptsFollowHolders
<1>3. h = g
  BY <1>2, OneHandled
<1>4. disable_intr_ref_count[g] = Cardinality({})
  BY <1>2, <1>3 DEF IInv, InterruptsFollowHolders
<1>5. QED
  BY <1>4, FS_EmptySet

(* The table holds no other object than the one that handles faults.       *)
LEMMA OnlyHandled ==
  ASSUME IInv, NEW g \in Objects, handling_replayable_faults[g]
  PROVE  gpu_table \in {NoGpu, g}
  BY OneHandled DEF IInv, HandleInv, IsrTypeOK

(* Another actor joins: a thread that will wait for the lock, or the       *)
(* bottom half that the top half takes it for.                             *)
LEMMA Join ==
  ASSUME IInv, NEW g \in Objects, NEW a, handling_replayable_faults[g],
         uvm_gpu_disable_replayable_faults(g),
         a \notin Holders(g), Holders(g)' = Holders(g) \cup {a},
         UNCHANGED <<handling_replayable_faults, gpu_table>>
  PROVE  InterruptsFollowHolders'
<1> USE DEF IInv
<1>1. disable_intr_ref_count[g] = Cardinality(Holders(g)) /\ Cardinality(Holders(g)) \in Nat
  BY HoldersFinite, FS_CardinalityType DEF InterruptsFollowHolders
<1>2. Cardinality(Holders(g)') = Cardinality(Holders(g)) + 1
  BY HoldersFinite, FS_AddElement
<1>3. disable_intr_ref_count'[g] = Cardinality(Holders(g)')
  BY <1>1, <1>2 DEF uvm_gpu_disable_replayable_faults, IsrTypeOK
<1>4. ~intr_enabled'
  BY QuietWhenHeld DEF uvm_gpu_disable_replayable_faults
<1>5. \A h \in Objects : handling_replayable_faults'[h] => h = g
  BY OneHandled
<1>6. gpu_table' # NoGpu => gpu_table' = g
  BY OnlyHandled
<1>7. Holders(g)' # {}
  OBVIOUS
<1>8. QED
  BY <1>3, <1>4, <1>5, <1>6, <1>7 DEF InterruptsFollowHolders

(* The lock holder leaves.                                                 *)
LEMMA Leave ==
  ASSUME IInv, NEW g \in Objects, NEW a \in Holders(g), handling_replayable_faults[g],
         uvm_gpu_enable_replayable_faults(g), Holders(g)' = Holders(g) \ {a},
         UNCHANGED <<handling_replayable_faults, gpu_table>>
  PROVE  InterruptsFollowHolders'
<1> USE DEF IInv
<1>1. disable_intr_ref_count[g] = Cardinality(Holders(g)) /\ Cardinality(Holders(g)) \in Nat
  BY HoldersFinite, FS_CardinalityType DEF InterruptsFollowHolders
<1>2. Cardinality(Holders(g)') = Cardinality(Holders(g)) - 1 /\ IsFiniteSet(Holders(g)')
  BY HoldersFinite, FS_RemoveElement
<1>3. disable_intr_ref_count'[g] = Cardinality(Holders(g)')
  BY <1>1, <1>2 DEF uvm_gpu_enable_replayable_faults, IsrTypeOK
<1>4. disable_intr_ref_count[g] # 0
  BY CountPositive DEF IsrTypeOK
<1>5. intr_enabled' <=> disable_intr_ref_count[g] = 1
  BY <1>4, QuietWhenHeld DEF uvm_gpu_enable_replayable_faults
<1>6. Cardinality(Holders(g)') = 0 <=> Holders(g)' = {}
  BY <1>2, FS_EmptySet
<1>7. intr_enabled' <=> Holders(g)' = {}
  BY <1>1, <1>2, <1>5, <1>6
<1>8. \A h \in Objects : handling_replayable_faults'[h] => h = g
  BY OneHandled
<1>9. gpu_table' # NoGpu => gpu_table' = g
  BY OnlyHandled
<1>10. QED
  BY <1>3, <1>7, <1>8, <1>9 DEF InterruptsFollowHolders

(* Nothing changes for an object that handles faults.                      *)
LEMMA Stay ==
  ASSUME IInv, UNCHANGED <<handling_replayable_faults, disable_intr_ref_count, intr_enabled>>,
         gpu_table' \in {NoGpu, gpu_table},
         \A h \in Objects : handling_replayable_faults[h] => Holders(h)' = Holders(h)
  PROVE  InterruptsFollowHolders'
<1> USE DEF IInv
<1>1. \A h \in Objects : handling_replayable_faults'[h] =>
        disable_intr_ref_count'[h] = Cardinality(Holders(h)')
  BY DEF InterruptsFollowHolders
<1>2. intr_enabled' => \E h \in Objects : handling_replayable_faults'[h] /\ Holders(h)' = {}
  BY DEF InterruptsFollowHolders
<1>3. ASSUME NEW h \in Objects, gpu_table' = h, handling_replayable_faults'[h]
      PROVE  intr_enabled' <=> Holders(h)' = {}
  <2>1. NoGpu # h /\ gpu_table = h
    BY <1>3, FaultIsrAssumption
  <2>2. QED
    BY <1>3, <2>1 DEF InterruptsFollowHolders
<1>4. gpu_table' # NoGpu => gpu_table' \in Objects
  BY DEF IsrTypeOK
<1>5. QED
  BY <1>1, <1>2, <1>3, <1>4 DEF InterruptsFollowHolders

(* The count of holders and the state of the interrupt.                    *)
LEMMA InterruptStep ==
  ASSUME IInv, [IsrNext]_isr_vars
  PROVE  InterruptsFollowHolders'
<1> USE FaultIsrAssumption DEF IInv, IsrTypeOK
<1>1. ASSUME top_half_get_gpu PROVE InterruptsFollowHolders'
  <2>1. \A h \in Objects : Holders(h)' = Holders(h)
    BY <1>1 DEF top_half_get_gpu, thread_vars, Holders, Waiting, Serving
  <2>2. QED
    BY <1>1, <2>1, Stay DEF top_half_get_gpu, thread_vars
<1>2. ASSUME top_half_done PROVE InterruptsFollowHolders'
  <2>1. \A h \in Objects : Holders(h)' = Holders(h)
    BY <1>2 DEF top_half_done, uvm_gpu_kref_put, thread_vars, Holders, Waiting, Serving
  <2>2. QED
    BY <1>2, <2>1, Stay DEF top_half_done, uvm_gpu_kref_put, thread_vars
<1>3. ASSUME NEW pending \in BOOLEAN, uvm8_isr_top_half(pending) PROVE InterruptsFollowHolders'
  <2>1. PICK g \in Objects : g = top.gpu
    BY <1>3 DEF uvm8_isr_top_half, TopInv
  <2>2. \A h \in Objects : Waiting(h)' = Waiting(h)
    BY <1>3 DEF uvm8_isr_top_half, Waiting, thread_vars
  <2>3. CASE UNCHANGED <<isr_lock, disable_intr_ref_count, intr_enabled>>
    <3>1. \A h \in Objects : Holders(h)' = Holders(h)
      BY <2>2, <2>3 DEF Holders, Serving
    <3>2. QED
      BY <1>3, <2>3, <3>1, Stay DEF uvm8_isr_top_half
  <2>4. CASE /\ handling_replayable_faults[g] /\ isr_lock[g] = None
             /\ isr_lock' = [isr_lock EXCEPT ![g] = BottomHalf]
             /\ uvm_gpu_disable_replayable_faults(g)
    <3>1. Serving(g) = {} /\ Serving(g)' = {BottomHalf}
      BY <2>1, <2>4, Distinct DEF Serving
    <3>2. BottomHalf \notin Waiting(g)
      BY Distinct DEF Waiting
    <3>3. BottomHalf \notin Holders(g) /\ Holders(g)' = Holders(g) \cup {BottomHalf}
      BY <2>1, <2>2, <3>1, <3>2 DEF Holders
    <3>4. QED
      BY <1>3, <2>1, <2>4, <3>3, Join DEF uvm8_isr_top_half
  <2>5. QED
    BY <1>3, <2>1, <2>3, <2>4 DEF uvm8_isr_top_half
<1>4. ASSUME NEW g \in Objects, bottom_half_start(g) PROVE InterruptsFollowHolders'
  <2>1. \A h \in Objects : Holders(h)' = Holders(h)
    BY <1>4 DEF bottom_half_start, thread_vars, Holders, Waiting, Serving
  <2>2. QED
    BY <1>4, <2>1, Stay DEF bottom_half_start, thread_vars
<1>5. ASSUME NEW g \in Objects, bottom_half_unlock(g) PROVE InterruptsFollowHolders'
  <2>1. isr_lock[g] = BottomHalf /\ isr_lock' = [isr_lock EXCEPT ![g] = None]
    BY <1>5 DEF bottom_half_unlock, LockHandedOver, uvm_gpu_isr_unlock
  <2>2. \A h \in Objects : Waiting(h)' = Waiting(h)
    BY <1>5 DEF bottom_half_unlock, Waiting, thread_vars
  <2>3. Serving(g) = {BottomHalf} /\ Serving(g)' = {} /\ BottomHalf \notin Waiting(g)
    BY <2>1, Distinct DEF Serving, Waiting
  <2>4. CASE handling_replayable_faults[g] /\ uvm_gpu_enable_replayable_faults(g)
    <3>1. BottomHalf \in Holders(g) /\ Holders(g)' = Holders(g) \ {BottomHalf}
      BY <2>2, <2>3 DEF Holders
    <3>2. QED
      BY <1>5, <2>4, <3>1, Leave DEF bottom_half_unlock
  <2>5. CASE ~handling_replayable_faults[g] /\ UNCHANGED <<disable_intr_ref_count, intr_enabled>>
    <3>1. \A h \in Objects \ {g} : Holders(h)' = Holders(h)
      BY <2>1, <2>2 DEF Holders, Serving
    <3>2. QED
      BY <1>5, <2>5, <3>1, Stay DEF bottom_half_unlock
  <2>6. QED
    BY <1>5, <2>4, <2>5 DEF bottom_half_unlock, uvm_gpu_isr_unlock
<1>6. ASSUME NEW g \in Objects, bottom_half_done(g) PROVE InterruptsFollowHolders'
  <2>1. \A h \in Objects : Holders(h)' = Holders(h)
    BY <1>6 DEF bottom_half_done, uvm_gpu_kref_put, thread_vars, Holders, Waiting, Serving
  <2>2. QED
    BY <1>6, <2>1, Stay DEF bottom_half_done, uvm_gpu_kref_put, thread_vars
<1>7. ASSUME NEW t \in Threads, uvm_gpu_fault_buffer_flush(t) PROVE InterruptsFollowHolders'
  <2>0. PICK g \in Objects : g = gpu_of[t]
    BY <1>7 DEF uvm_gpu_fault_buffer_flush, RetainInv
  <2>1. /\ handling_replayable_faults[g]
        /\ uvm_gpu_disable_replayable_faults(g) /\ gpu_of'[t] = g
    BY <1>7, <2>0 DEF uvm_gpu_fault_buffer_flush, RetainInv, HandleInv, isr_lock_disable
  <2>2. \A u \in Threads \ {t} : pc'[u] = pc[u] /\ gpu_of'[u] = gpu_of[u]
    BY <1>7 DEF uvm_gpu_fault_buffer_flush, Goto
  <2>3. pc[t] = "idle" /\ pc'[t] = "lock" /\ isr_lock' = isr_lock
    BY <1>7 DEF uvm_gpu_fault_buffer_flush, Goto
  <2>4. Waiting(g)' = Waiting(g) \cup {t} /\ t \notin Waiting(g)
    BY <2>1, <2>2, <2>3 DEF Waiting
  <2>5. Serving(g)' = Serving(g) /\ t \notin Serving(g)
    BY <2>3, Distinct DEF Serving
  <2>6. Holders(g)' = Holders(g) \cup {t} /\ t \notin Holders(g)
    BY <2>4, <2>5 DEF Holders
  <2>7. QED
    BY <1>7, <2>1, <2>6, Join DEF uvm_gpu_fault_buffer_flush
<1>8. ASSUME NEW t \in Threads, remove_gpus_from_gpu(t) PROVE InterruptsFollowHolders'
  <2>0. PICK g \in Objects : g = gpu_table
    BY <1>8 DEF remove_gpus_from_gpu, RetainInv
  <2>1. /\ handling_replayable_faults[g]
        /\ uvm_gpu_disable_replayable_faults(g) /\ gpu_of'[t] = g
    BY <1>8, <2>0 DEF remove_gpus_from_gpu, RetainInv, HandleInv, isr_lock_disable
  <2>2. \A u \in Threads \ {t} : pc'[u] = pc[u] /\ gpu_of'[u] = gpu_of[u]
    BY <1>8 DEF remove_gpus_from_gpu, Goto
  <2>3. pc[t] = "idle" /\ pc'[t] = "lock" /\ isr_lock' = isr_lock
    BY <1>8 DEF remove_gpus_from_gpu, Goto
  <2>4. Waiting(g)' = Waiting(g) \cup {t} /\ t \notin Waiting(g)
    BY <2>1, <2>2, <2>3 DEF Waiting
  <2>5. Serving(g)' = Serving(g) /\ t \notin Serving(g)
    BY <2>3, Distinct DEF Serving
  <2>6. Holders(g)' = Holders(g) \cup {t} /\ t \notin Holders(g)
    BY <2>4, <2>5 DEF Holders
  <2>7. QED
    BY <1>8, <2>1, <2>6, Join DEF remove_gpus_from_gpu
<1>9. ASSUME NEW t \in Threads, uvm_gpu_retain_by_uuid(t) PROVE InterruptsFollowHolders'
  <2>1. \A h \in Objects : Holders(h)' = Holders(h)
    BY <1>9 DEF uvm_gpu_retain_by_uuid, Holders, Waiting, Serving
  <2>2. QED
    BY <1>9, <2>1, Stay DEF uvm_gpu_retain_by_uuid
<1>10. ASSUME NEW t \in Threads, uvm_gpu_release(t) PROVE InterruptsFollowHolders'
  <2>1. \A h \in Objects : Holders(h)' = Holders(h)
    BY <1>10 DEF uvm_gpu_release, Goto, Holders, Waiting, Serving
  <2>2. QED
    BY <1>10, <2>1, Stay DEF uvm_gpu_release, Goto
<1>11. ASSUME NEW t \in Threads, NEW g \in Objects, add_gpu(t, g) PROVE InterruptsFollowHolders'
  <2>1. \A u \in Threads : pc[u] = "idle"
    BY <1>11 DEF add_gpu, UseInv, ThreadPCs, Removing
  <2>2. \A h \in Objects : ~handling_replayable_faults[h]
    BY <1>11, <2>1 DEF add_gpu, HandleInv
  <2>3. ~intr_enabled
    BY <2>2 DEF InterruptsFollowHolders
  <2>4. \A h \in Objects : handling_replayable_faults'[h] => h = g
    BY <1>11, <2>2 DEF add_gpu
  <2>5. Holders(g)' = {}
    BY <1>11, <2>1, Distinct DEF add_gpu, alloc_gpu, Holders, Waiting, Serving, Goto
  <2>6. disable_intr_ref_count'[g] = 0 /\ Cardinality({}) = 0
    BY <1>11, FS_EmptySet DEF add_gpu, alloc_gpu
  <2>7. gpu_table' = g /\ intr_enabled' = TRUE /\ handling_replayable_faults'[g]
    BY <1>11 DEF add_gpu
  <2>8. QED
    BY <2>4, <2>5, <2>6, <2>7 DEF InterruptsFollowHolders
<1>12. ASSUME NEW t \in Threads, NEW g \in Objects, NEW step \in AddFailures, add_gpu_fails(t, g, step) PROVE InterruptsFollowHolders'
  <2>1. \A u \in Threads : pc[u] = "idle"
    BY <1>12 DEF add_gpu_fails, UseInv, ThreadPCs, Removing
  <2>2. \A h \in Objects : ~handling_replayable_faults[h]
    BY <1>12, <2>1 DEF add_gpu_fails, HandleInv
  <2>3. ~intr_enabled
    BY <2>2 DEF InterruptsFollowHolders
  <2>4. \A h \in Objects : handling_replayable_faults'[h] => h = g
    BY <1>12, <2>2 DEF add_gpu_fails
  <2>5. Holders(g)' = {}
    BY <1>12, <2>1, Distinct DEF add_gpu_fails, alloc_gpu, Holders, Waiting, Serving, Goto
  <2>6. disable_intr_ref_count'[g] = 0 /\ Cardinality({}) = 0
    BY <1>12, FS_EmptySet DEF add_gpu_fails, alloc_gpu
  <2>7. gpu_table' = NoGpu /\ ~intr_enabled'
    BY <1>12, <2>3 DEF add_gpu_fails
  <2>8. QED
    BY <2>4, <2>5, <2>6, <2>7 DEF InterruptsFollowHolders
<1>13. ASSUME NEW t \in Threads, isr_lock_mutex(t) PROVE InterruptsFollowHolders'
  <2>1. gpu_of[t] \in Objects /\ isr_lock[gpu_of[t]] = None
    BY <1>13 DEF isr_lock_mutex, UseInv
  <2>2. \A h \in Objects : Serving(h)' = Serving(h)
    BY <1>13, <2>1, Distinct DEF isr_lock_mutex, Serving
  <2>3. \A u \in Threads : pc'[u] = IF u = t THEN "locked" ELSE pc[u]
    BY <1>13 DEF isr_lock_mutex, Goto
  <2>4. \A h \in Objects : Waiting(h)' = Waiting(h)
    BY <1>13, <2>3 DEF isr_lock_mutex, Waiting
  <2>5. QED
    BY <1>13, <2>2, <2>4, Stay DEF isr_lock_mutex, Holders
<1>14. ASSUME NEW t \in Threads, thread_isr_unlock(t) PROVE InterruptsFollowHolders'
  <2>1. gpu_of[t] \in Objects /\ handling_replayable_faults[gpu_of[t]]
    BY <1>14 DEF thread_isr_unlock, UseInv, HandleInv
  <2>2. uvm_gpu_enable_replayable_faults(gpu_of[t])
    BY <1>14, <2>1 DEF thread_isr_unlock, uvm_gpu_isr_unlock
  <2>3. isr_lock[gpu_of[t]] = t /\ isr_lock' = [isr_lock EXCEPT ![gpu_of[t]] = None]
    BY <1>14, <2>1 DEF thread_isr_unlock, uvm_gpu_isr_unlock, LockHandedOver
  <2>4. Serving(gpu_of[t]) = {} /\ isr_lock'[gpu_of[t]] # BottomHalf
    BY <2>1, <2>3, Distinct DEF Serving
  <2>5. \A u \in Threads : pc'[u] = IF u = t THEN "idle" ELSE pc[u]
    BY <1>14 DEF thread_isr_unlock, Goto
  <2>6. \A h \in Objects : Waiting(h)' = Waiting(h) \ {t}
    BY <1>14, <2>5 DEF thread_isr_unlock, Waiting
  <2>7. t \in Waiting(gpu_of[t]) /\ gpu_of' = gpu_of
    BY <1>14 DEF thread_isr_unlock, Waiting
  <2>8. ASSUME NEW h \in Objects, h = gpu_of[t]
        PROVE  t \in Holders(h) /\ Holders(h)' = Holders(h) \ {t}
    BY <2>4, <2>6, <2>7, <2>8 DEF Holders, Serving
  <2>9. QED
    BY <1>14, <2>1, <2>2, <2>8, Leave DEF thread_isr_unlock
<1>15. ASSUME NEW t \in Threads, remove_from_table(t) PROVE InterruptsFollowHolders'
  <2>1. \A h \in Objects : Holders(h)' = Holders(h)
    BY <1>15 DEF remove_from_table, Goto, object_vars, Holders, Waiting, Serving
  <2>2. QED
    BY <1>15, <2>1, Stay DEF remove_from_table, Goto, object_vars
<1>16. ASSUME NEW t \in Threads, remove_stop_handling(t) PROVE InterruptsFollowHolders'
  <2>1. gpu_of[t] \in Objects /\ gpu_table' = NoGpu
    BY <1>16 DEF remove_stop_handling, UseInv, Removing
  <2>2. \A h \in Objects : handling_replayable_faults[h] => h = gpu_of[t]
    BY <1>16, NobodyElse DEF remove_stop_handling, HandleInv, UseInv, Removing
  <2>3. \A h \in Objects : ~handling_replayable_faults'[h]
    BY <1>16, <2>2 DEF remove_stop_handling
  <2>4. CASE handling_replayable_faults[gpu_of[t]] /\ uvm_gpu_disable_replayable_faults(gpu_of[t])
    BY <2>1, <2>3, <2>4, QuietWhenHeld DEF uvm_gpu_disable_replayable_faults, InterruptsFollowHolders
  <2>5. CASE ~handling_replayable_faults[gpu_of[t]] /\ intr_enabled' = intr_enabled
    BY <2>1, <2>2, <2>3, <2>5 DEF InterruptsFollowHolders
  <2>6. QED
    BY <1>16, <2>4, <2>5 DEF remove_stop_handling, isr_lock_disable
<1>17. ASSUME NEW t \in Threads, remove_stop_queue(t) PROVE InterruptsFollowHolders'
  <2>1. \A h \in Objects : Holders(h)' = Holders(h)
    BY <1>17 DEF remove_stop_queue, Goto, object_vars, Holders, Waiting, Serving
  <2>2. QED
    BY <1>17, <2>1, Stay DEF remove_stop_queue, Goto, object_vars
<1>18. ASSUME NEW t \in Threads, remove_deinit(t) PROVE InterruptsFollowHolders'
  <2>1. \A h \in Objects : Holders(h)' = Holders(h)
    BY <1>18 DEF remove_deinit, Goto, object_vars, Holders, Waiting, Serving
  <2>2. QED
    BY <1>18, <2>1, Stay DEF remove_deinit, Goto, object_vars
<1>19. ASSUME NEW t \in Threads, remove_done(t) PROVE InterruptsFollowHolders'
  <2>1. \A h \in Objects : Holders(h)' = Holders(h)
    BY <1>19 DEF remove_done, uvm_gpu_kref_put, Goto, Holders, Waiting, Serving
  <2>2. QED
    BY <1>19, <2>1, Stay DEF remove_done, uvm_gpu_kref_put, Goto
<1>20. ASSUME UNCHANGED isr_vars PROVE InterruptsFollowHolders'
  BY <1>20 DEF InterruptsFollowHolders, Holders, Waiting, Serving, isr_vars, object_vars, thread_vars
<1>21. QED
  BY <1>1, <1>2, <1>3, <1>4, <1>5, <1>6, <1>7, <1>8, <1>9, <1>10, <1>11, <1>12, <1>13, <1>14,
    <1>15, <1>16, <1>17, <1>18, <1>19, <1>20 DEF IsrNext, ThreadCall, remove_gpu,
    uvm8_isr_bottom_half

-----------------------------------------------------------------------------
(* The initial state has no object at all.                                 *)
LEMMA InitInv == IsrInit => IInv
<1> SUFFICES ASSUME IsrInit PROVE IInv
  OBVIOUS
<1> USE Distinct, FaultIsrAssumption DEF IsrInit
<1>1. IsrTypeOK
  BY DEF IsrTypeOK, ThreadPCs
<1>2. RetainInv /\ UseInv /\ HandleInv /\ TopInv
  BY DEF RetainInv, UseInv, Removing, HandleInv, TopInv
<1>3. LockHandedOver
  BY DEF LockHandedOver
<1>4. KrefExact
  <2>1. \A g \in Objects : ~Exists(g) /\ top.gpu # g
    BY DEF Exists
  <2>2. QED
    BY <2>1 DEF KrefExact, One
<1>5. InterruptsFollowHolders
  BY DEF InterruptsFollowHolders
<1>6. QED
  BY <1>1, <1>2, <1>3, <1>4, <1>5 DEF IInv

(* IInv is an inductive invariant of the interrupt protocol.               *)
THEOREM Invariance == IsrSpec => []IInv
<1>1. IInv /\ [IsrNext]_isr_vars => IInv'
  <2>1. SUFFICES ASSUME IInv, [IsrNext]_isr_vars PROVE IInv'
    OBVIOUS
  <2>2. IsrTypeOK' /\ RetainInv' /\ UseInv' /\ HandleInv' /\ TopInv'
    BY <2>1, TypeStep, RetainStep, UseStep, HandleStep, TopStep
  <2>3. LockHandedOver' /\ KrefExact' /\ InterruptsFollowHolders'
    BY <2>1, LockStep, KrefStep, InterruptStep
  <2>4. QED
    BY <2>2, <2>3 DEF IInv
<1>2. QED
  BY <1>1, InitInv, PTL DEF IsrSpec

(* For any number of threads and objects, the mutex that the top half      *)
(* takes is handed to the bottom half without a gap and only one actor at  *)
(* a time is in the section it protects (uvm8_isr_top_half).               *)
THEOREM LockIsHandedOver == IsrSpec => []LockHandedOver
<1>1. IInv => LockHandedOver
  BY DEF IInv
<1>2. QED
  BY <1>1, Invariance, PTL

(* For any number of threads and objects, the GPU interrupts exactly when  *)
(* nobody holds isr_lock or waits for it, and never for an object that is  *)
(* being removed (uvm_gpu_isr_lock, uvm_gpu_isr_unlock, remove_gpu).       *)
THEOREM InterruptsExact == IsrSpec => []InterruptsFollowHolders
<1>1. IInv => InterruptsFollowHolders
  BY DEF IInv
<1>2. QED
  BY <1>1, Invariance, PTL

(* For any number of threads and objects, gpu_kref counts the users of an  *)
(* object exactly: none is freed while used and none is leaked             *)
(* (uvm_gpu_kref_put).                                                     *)
THEOREM ReferencesExact == IsrSpec => []KrefExact
<1>1. IInv => KrefExact
  BY DEF IInv
<1>2. QED
  BY <1>1, Invariance, PTL

(* For any number of threads and objects, when remove_gpu has stopped the  *)
(* work queue nobody works on the object's faults or can start to, and the *)
(* assertion on disable_intr_ref_count holds.                              *)
THEOREM RemovalIsQuiet == IsrSpec => []RemovedIsQuiet
<1>1. ASSUME IInv, NEW t \in Threads, Removed(t)
      PROVE  /\ ~intr_enabled /\ ~handling_replayable_faults[gpu_of[t]]
             /\ Holders(gpu_of[t]) = {} /\ ~scheduled[gpu_of[t]] /\ bh_pc[gpu_of[t]] = "idle"
             /\ pc[t] = "deinit" => disable_intr_ref_count[gpu_of[t]] > 0
  <2> USE FaultIsrAssumption DEF IInv, IsrTypeOK
  <2>1. gpu_of[t] \in Objects /\ gpu_table = NoGpu /\ pc[t] \in Removing
    BY <1>1 DEF Removed, UseInv, Removing
  <2>2. /\ ~handling_replayable_faults[gpu_of[t]]
        /\ ~scheduled[gpu_of[t]] /\ bh_pc[gpu_of[t]] = "idle"
        /\ pc[t] = "deinit" => disable_intr_ref_count[gpu_of[t]] > 0
    BY <1>1 DEF Removed, UseInv
  <2>3. \A u \in Threads : pc[u] \notin {"lock", "locked"}
    BY <1>1, <2>1 DEF UseInv
  <2>4. Holders(gpu_of[t]) = {}
    BY <1>1, <2>1, <2>2, <2>3 DEF Holders, Waiting, Serving, LockHandedOver
  <2>5. \A u \in Threads : pc[u] \notin {"remove", "mute"}
    BY <1>1, <2>1, NobodyElse DEF Removed
  <2>6. ~intr_enabled
    BY <1>1, <2>1, <2>5 DEF HandleInv, InterruptsFollowHolders
  <2>7. QED
    BY <2>2, <2>4, <2>6
<1>2. IInv => RemovedIsQuiet
  BY <1>1 DEF RemovedIsQuiet
<1>3. QED
  BY <1>2, Invariance, PTL

============================================================================
