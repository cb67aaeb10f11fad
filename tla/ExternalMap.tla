----------------------------- MODULE ExternalMap -----------------------------
(***************************************************************************)
(* Mapping an RM allocation at a VA range on a GPU (uvm8_map_external.c):  *)
(* its PTEs are asked of RM a buffer at a time and pushed to the page      *)
(* tables a push at a time, while the GPU executes the pushes.  Addresses, *)
(* offsets and sizes are in pages of the allocation.                       *)
(***************************************************************************)
EXTENDS Integers, Sequences

CONSTANTS ExPages,   \* pages of the VA space
          ExBuffer,  \* PTEs of the largest buffer, MAX_PTE_BUFFER_SIZE
          ExCopy,    \* PTEs of a push, MAX_COPY_SIZE_PER_PUSH
          ExPde,     \* PTEs a page table holds
          ExSetups   \* ranges: VA ranges, as <<start, size>>; memory: the size of the
                     \* allocation; offsets: what is asked for; fails: steps may fail

ASSUME ExAssumption ==
    /\ {ExPages, ExBuffer, ExCopy, ExPde} \subseteq Nat \ {0}
    /\ \A s \in ExSetups : /\ s.fails \in BOOLEAN /\ s.memory \in Nat /\ s.offsets \subseteq Nat
                            /\ \A r \in s.ranges : r[1] \in Nat /\ r[2] \in Nat \ {0}
                                                   /\ r[1] + r[2] <= ExPages

VARIABLES exMap,    \* the mapping: the call that makes it, and its page tables
          exBuffer, \* uvm_pte_buffer_t: ptes, what they map, from pte_offset on
          exPushes, \* pushes the GPU has not executed
          exGpu,    \* what the page tables say, -1 nothing, and pages the TLB is behind of
          exSetup
exVars == <<exMap, exBuffer, exPushes, exGpu, exSetup>>

(* at: idle, tables, write, wait (for the pushes, and ok: the caller is    *)
(* told so), clear, mapped; next: the page that is mapped next.            *)
NotMapped == [at |-> "idle", start |-> 0, size |-> 0, offset |-> 0, next |-> 0, tables |-> FALSE,
              ok |-> TRUE]
NoBuffer == [pte_offset |-> 0, ptes |-> <<>>, size |-> 0]

ExInit ==
    /\ exMap = NotMapped /\ exBuffer = NoBuffer /\ exPushes = <<>>
    /\ exGpu = [ptes |-> [p \in 0 .. ExPages - 1 |-> -1], stale |-> {}]
    /\ exSetup \in ExSetups

ExOutcomes == IF exSetup.fails THEN BOOLEAN ELSE {TRUE}
ExMin(S) == CHOOSE x \in S : \A y \in S : x <= y
ExLast == exMap.start + exMap.size - 1

(***************************************************************************)
(* The buffer                                                              *)
(***************************************************************************)
uvm_pte_buffer_init(size) == [NoBuffer EXCEPT !.size = ExMin({ExBuffer, size})]

(* RM is asked for as many PTEs as fit, from the first one on, unless all  *)
(* that is wanted is there.                                                *)
uvm_pte_buffer_get(buffer, first, n, max_pte_offset) ==
    IF buffer.pte_offset <= first /\ first + n <= buffer.pte_offset + Len(buffer.ptes) THEN buffer
    ELSE [buffer EXCEPT !.pte_offset = first,
                        !.ptes = [i \in 1 .. ExMin({buffer.size, max_pte_offset - first}) |-> first + i - 1]]

(***************************************************************************)
(* The call                                                                *)
(***************************************************************************)
(* An allocation is mapped as far as the range goes.                       *)
uvm_va_range_map_rm_allocation(start, size, offset) ==
    /\ exMap.at = "idle" /\ offset + size <= exSetup.memory
    /\ exMap' = [NotMapped EXCEPT !.at = "tables", !.start = start, !.size = size, !.offset = offset,
                                  !.next = start]
    /\ exBuffer' = uvm_pte_buffer_init(size)
    /\ UNCHANGED <<exPushes, exGpu, exSetup>>

(* Page tables for all of the range, or none.                              *)
PageTables ==
    /\ exMap.at = "tables"
    /\ \E ok \in ExOutcomes :
         /\ exMap' = IF ok THEN [exMap EXCEPT !.at = "write", !.tables = TRUE] ELSE NotMapped
         /\ exBuffer' = IF ok THEN exBuffer ELSE NoBuffer
    /\ UNCHANGED <<exPushes, exGpu, exSetup>>

(* A push writes what is left of its page table, or less; the one that     *)
(* ends the range has the TLB look again.                                  *)
NumPtes ==
    LET table_end == (exMap.next \div ExPde + 1) * ExPde
        range_end == ExMin({ExLast + 1, table_end})
    IN  ExMin({ExPde, ExCopy, exBuffer.size, range_end - exMap.next})
copy_ptes(buffer, first, n) ==
    LET skip == exMap.offset + (first - exMap.start) - buffer.pte_offset
    IN  [first |-> first, ptes |-> [i \in 1 .. n |-> buffer.ptes[skip + i]],
         invalidate |-> first + n - 1 = ExLast]

(* What fails between two pushes waits for those before it.                *)
map_rm_pt_range ==
    /\ exMap.at = "write"
    /\ LET n == NumPtes
           buffer == uvm_pte_buffer_get(exBuffer, exMap.offset + (exMap.next - exMap.start), n,
                                        exMap.offset + exMap.size)
           done == exMap.next + n > ExLast
       IN  \E asked, pushed \in ExOutcomes :
             IF asked /\ pushed
             THEN /\ exBuffer' = IF done THEN NoBuffer ELSE buffer
                  /\ exPushes' = Append(exPushes, copy_ptes(buffer, exMap.next, n))
                  /\ exMap' = [exMap EXCEPT !.next = @ + n, !.at = IF done THEN "wait" ELSE @]
             ELSE /\ exBuffer' = NoBuffer
                  /\ exMap' = [exMap EXCEPT !.at = "wait", !.ok = FALSE]
                  /\ UNCHANGED exPushes
    /\ UNCHANGED <<exGpu, exSetup>>

(* The caller waits for the tracker it was given, or could not be given.   *)
uvm_tracker_wait_deinit ==
    /\ exMap.at = "wait" /\ exPushes = <<>>
    /\ \E ok \in IF exMap.ok THEN ExOutcomes ELSE {FALSE} :
         exMap' = [exMap EXCEPT !.at = IF ok THEN "mapped" ELSE "clear"]
    /\ UNCHANGED <<exBuffer, exPushes, exGpu, exSetup>>

(* Unmapping, or what a failure leaves: the entries are cleared, which     *)
(* waits, and the tables put.                                              *)
Unmap ==
    /\ exMap.at = "mapped"
    /\ exMap' = [exMap EXCEPT !.at = "clear"]
    /\ UNCHANGED <<exBuffer, exPushes, exGpu, exSetup>>
uvm_ext_gpu_map_destroy ==
    /\ exMap.at = "clear"
    /\ exGpu' = [ptes |-> [p \in DOMAIN exGpu.ptes |->
                              IF p \in exMap.start .. ExLast THEN -1 ELSE exGpu.ptes[p]],
                 stale |-> {}]
    /\ exMap' = NotMapped
    /\ UNCHANGED <<exBuffer, exPushes, exSetup>>

(* The GPU executes the pushes in order: each waits for the one before.    *)
Execute ==
    /\ exPushes # <<>>
    /\ LET push == Head(exPushes)
           written == push.first .. push.first + Len(push.ptes) - 1
       IN  exGpu' = [ptes |-> [p \in DOMAIN exGpu.ptes |->
                                  IF p \in written THEN push.ptes[p - push.first + 1] ELSE exGpu.ptes[p]],
                     stale |-> IF push.invalidate THEN {} ELSE exGpu.stale \union written]
    /\ exPushes' = Tail(exPushes)
    /\ UNCHANGED <<exMap, exBuffer, exSetup>>

ExNext ==
    \/ \E r \in exSetup.ranges, offset \in exSetup.offsets : uvm_va_range_map_rm_allocation(r[1], r[2], offset)
    \/ PageTables \/ map_rm_pt_range \/ uvm_tracker_wait_deinit \/ Unmap \/ uvm_ext_gpu_map_destroy
    \/ Execute

ExSpec == ExInit /\ [][ExNext]_exVars

(***************************************************************************)
(* Properties                                                              *)
(***************************************************************************)
(* A mapping that was reported maps every page of the range to the page of *)
(* the allocation that belongs there, and the TLB knows.                   *)
MappedThroughout ==
    exMap.at = "mapped" =>
        /\ exGpu.stale = {}
        /\ \A p \in exMap.start .. ExLast : exGpu.ptes[p] = exMap.offset + (p - exMap.start)

(* Pushes write only tables that are there, and entries outside a mapping  *)
(* map nothing.                                                            *)
WritesLand ==
    /\ exPushes # <<>> => exMap.tables /\ exMap.at # "clear"
    /\ \A i \in DOMAIN exPushes :
         /\ exPushes[i].first >= exMap.start /\ exPushes[i].first + Len(exPushes[i].ptes) - 1 <= ExLast
         /\ exPushes[i].first \div ExPde = (exPushes[i].first + Len(exPushes[i].ptes) - 1) \div ExPde
    /\ \A p \in DOMAIN exGpu.ptes : exGpu.ptes[p] # -1 => exMap.tables /\ p \in exMap.start .. ExLast

(* RM is asked for nothing past the end of the range's part of the         *)
(* allocation, and for no more than the buffer holds.                      *)
BufferFits ==
    /\ Len(exBuffer.ptes) <= exBuffer.size
    /\ exBuffer.ptes # <<>> =>
         exBuffer.pte_offset + Len(exBuffer.ptes) <= exMap.offset + exMap.size

ExternalExact == MappedThroughout /\ WritesLand /\ BufferFits
==============================================================================
