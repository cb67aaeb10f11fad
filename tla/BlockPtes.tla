------------------------------ MODULE BlockPtes -------------------------------
(***************************************************************************)
(* The PTEs that a GPU has for a VA block (uvm8_va_block.c): one of 2M,    *)
(* big ones, or 4k ones, chosen anew by every operation, written by pushes *)
(* of several steps that the GPU executes while it translates.             *)
(*                                                                         *)
(* The block has an edge page, that no big page covers, and two big pages  *)
(* of two pages; with 2M pages it has no edge.  The block's own state is   *)
(* for all pages.  What the GPU has in memory and in its TLBs is kept for  *)
(* one page, any one, since a translation reads the entries of one page.   *)
(* Swizzled big pages are in Swizzle.                                      *)
(***************************************************************************)
EXTENDS Integers, FiniteSets, Sequences, SequencesExt, FiniteSetsExt, TLC

CONSTANTS BpMaxOps,    \* bound on operations
          BpMaxQueue,  \* bound on the steps that are not executed when an operation begins
          BpMasks,     \* the page masks that operations get
          BpSetups     \* the setups to explore, see BpAssumption

(* two_m: the GPU has 2M pages.  retry: page tables may need an eviction.  *)
(* cancel, split: those operations happen.  again: the GPU VA space is     *)
(* registered again after it was removed.                                  *)
ASSUME BpAssumption ==
    /\ BpMaxOps \in Nat /\ BpMaxQueue \in Nat /\ \A m \in BpMasks : m \subseteq 0..4
    /\ \A s \in BpSetups : {s.two_m, s.retry, s.cancel, s.split, s.remove, s.again} \subseteq BOOLEAN

VARIABLES
    bpBlock,  \* [two_m, pages, resident]: the block
    bpGpu,    \* uvm_va_block_gpu_state_t: [tables, is2m, big, activated, initialized, force, prot]
    bpTask,   \* a thread that allocates tables without the lock, or removes: [at, sizes]
    bpQueue,  \* what the GPU has to do: [op, writes, sizes]
    bpMem,    \* the watched page's entries, [top, big, small]
    bpTlb,    \* [top, ptes, junk]: what the GPU has cached of them
    bpSeen,   \* the translations asked for since the queue was empty
    bpOps,
    bpWatch,
    bpSetup

bpVars == <<bpBlock, bpGpu, bpTask, bpQueue, bpMem, bpTlb, bpSeen, bpOps, bpWatch, bpSetup>>

Bit(k) == [k |-> k]
Pte(res, prot) == IF prot = 0 THEN Bit("invalid") ELSE [k |-> "pte", res |-> res, prot |-> prot]
Pde(tables) == [k |-> "pde", tables |-> tables]

BigRegion(b) == {2 * b - 1, 2 * b}
BigOf(p) == (p + 1) \div 2
BigPages == {b \in 1..2 : BigRegion(b) \subseteq bpBlock.pages}
InBig(B) == UNION {BigRegion(b) : b \in B}
FirstPage == CHOOSE p \in bpBlock.pages : \A q \in bpBlock.pages : p <= q

NoPtes == [tables |-> {}, is2m |-> FALSE, big |-> {}, activated |-> {}, initialized |-> FALSE, force |-> FALSE,
           prot |-> [p \in 0..4 |-> 0]]
Free_task == [at |-> "idle", sizes |-> <<>>]

BpInit ==
    /\ bpSetup \in BpSetups
    /\ bpBlock = [two_m |-> bpSetup.two_m, pages |-> IF bpSetup.two_m THEN 1..4 ELSE 0..4, resident |-> [p \in 0..4 |-> "gpu"]]
    /\ bpGpu = NoPtes /\ bpTask = Free_task /\ bpQueue = <<>> /\ bpOps = 0
    /\ bpMem = [top |-> IF bpSetup.two_m THEN Bit("invalid") ELSE Pde({}), big |-> Bit("junk"), small |-> Bit("junk")]
    /\ bpTlb = [top |-> Bit("none"), ptes |-> {}, junk |-> FALSE]
    /\ bpSeen = {} /\ bpWatch \in bpBlock.pages

(***************************************************************************)
(* Page tables                                                             *)
(***************************************************************************)
(* The tables that the page tree has below the block's 2M entry, those a   *)
(* thread has allocated and not yet given to the block included.           *)
Linked == (bpGpu.tables \union (IF bpTask.at = "linked" THEN {Head(bpTask.sizes)} ELSE {})) \ {"2m"}

(* uvm_page_tree_alloc_table leaves the table as it finds the memory,      *)
(* uvm_page_tree_get_ptes clears and links it.                             *)
FreshTable(mem, size) ==
    LET content == IF bpBlock.two_m THEN Bit("junk") ELSE Bit("invalid")
        new == CASE size = "big" -> [mem EXCEPT !.big = content] [] size = "4k" -> [mem EXCEPT !.small = content]
                 [] OTHER -> mem
    IN  IF size \in Linked THEN mem
        ELSE IF bpBlock.two_m THEN new ELSE [new EXCEPT !.top.tables = @ \union {size}]

(* A table that the block gets (allocated:).                               *)
Allocated(gs, size) ==
    [gs EXCEPT !.tables = @ \union {size}, !.is2m = @ \/ size = "2m",
               !.initialized = @ \/ (size = "big" /\ ~bpBlock.two_m)]

(* block_alloc_ptes_with_retry goes from the largest size down.            *)
block_alloc_ptes_with_retry(gs, sizes) ==
    SelectSeq(<<"2m", "big", "4k">>, LAMBDA s : s \in (sizes \union (IF bpBlock.two_m THEN {"2m"} ELSE {})) \ gs.tables)

block_alloc_ptes_new_state(gs, new) ==
    block_alloc_ptes_with_retry(gs, IF new.is2m THEN {"2m"}
        ELSE (IF new.big # {} THEN {"big"} ELSE {}) \union (IF new.needs_4k THEN {"4k"} ELSE {}))

AllAllocated(gs, sizes) == FoldLeft(Allocated, gs, sizes)
AllFresh(mem, sizes) == FoldLeft(FreshTable, mem, sizes)

(***************************************************************************)
(* What PTEs an operation leads to                                         *)
(***************************************************************************)
(* block_gpu_compute_new_pte_state; res is "none" when pages are unmapped. *)
block_gpu_compute_new_pte_state(gs, res, changing, after) ==
    LET can == res # "cpu" /\ ~(res = "none" /\ "big" \notin gs.tables /\ ~gs.is2m)
        covered == {b \in BigPages : BigRegion(b) \cap changing # {}}
        new == {b \in covered : can /\ BigRegion(b) \subseteq after}
        needs_4k == new # covered \/ ~(changing \subseteq InBig(BigPages))
        rest == IF gs.is2m \/ (bpBlock.two_m /\ "2m" \notin gs.tables) THEN BigPages \ covered
                ELSE IF "4k" \notin gs.tables /\ ~needs_4k THEN BigPages
                ELSE gs.big \ covered
    IN  IF gs.force \/ BigPages = {}
        THEN [is2m |-> FALSE, needs_4k |-> TRUE, covered |-> {}, big |-> {}]
        ELSE IF bpBlock.two_m /\ res # "cpu" /\ bpBlock.pages \subseteq after
        THEN [is2m |-> TRUE, needs_4k |-> FALSE, covered |-> {}, big |-> {}]
        ELSE [is2m |-> FALSE, needs_4k |-> needs_4k, covered |-> covered, big |-> new \union rest]

(***************************************************************************)
(* Batches of PTE writes, as the watched page has them, and TLB batches    *)
(***************************************************************************)
block_gpu_pte_clear_4k(S, e) == IF bpWatch \in S THEN "small" :> e ELSE <<>>
block_gpu_pte_write_4k(S, res, prot) == block_gpu_pte_clear_4k(S, Pte(res, prot))
block_gpu_pte_clear_big(B, e) == IF bpWatch \in InBig(B) THEN "big" :> e ELSE <<>>
block_gpu_pte_write_big(B, res, prot) == block_gpu_pte_clear_big(B, Pte(res, prot))
block_gpu_pte_clear_2m == "top" :> Bit("invalid")
block_gpu_pte_write_2m(res, prot) == "top" :> Pte(res, prot)

(* What a 4k PTE below a big one becomes: the new permission, or the big   *)
(* PTE's.                                                                  *)
block_gpu_pte_big_split_write_4k(gs, res, prot, B, S) ==
    block_gpu_pte_write_4k(InBig(B) \cap S, res, prot)
    @@ block_gpu_pte_write_4k(InBig(B) \ S, IF res = "none" THEN bpBlock.resident[2 * BigOf(bpWatch) - 1] ELSE res,
                              gs.prot[2 * BigOf(bpWatch) - 1])

(* uvm_pte_batch_end: a membar follows the writes.                         *)
Writes(batch) == IF batch = <<>> THEN <<>> ELSE <<[op |-> "write", writes |-> batch, sizes |-> {}]>>

(* uvm_tlb_batch_invalidate with the pages and sizes of a batch.           *)
Inval(S, sizes) == IF bpWatch \in S THEN sizes ELSE {}
InvalBig(B) == Inval(InBig(B), {"big"})
uvm_tlb_batch_end(sizes) == IF sizes = {} THEN <<>> ELSE <<[op |-> "tlb", writes |-> <<>>, sizes |-> sizes]>>

(***************************************************************************)
(* Transitions.  Each gives the GPU's state and the steps of the push.     *)
(***************************************************************************)
block_gpu_needs_to_activate_table(gs) == bpBlock.two_m /\ ~((gs.tables \ {"2m"}) \subseteq gs.activated)

(* The PDE is that of the page tree's tables at this moment.               *)
write_pde_step(gs) == Writes("top" :> Pde(Linked \union (gs.tables \ {"2m"})))
Activated(gs) == [gs EXCEPT !.activated = @ \union (gs.tables \ {"2m"})]

(* The last steps of a split or of a merge: a PDE when tables are new.     *)
ActivateAndEnd(gs, batch, sizes) ==
    IF block_gpu_needs_to_activate_table(gs)
    THEN [gs |-> Activated(gs), steps |-> Writes(batch) \o write_pde_step(gs) \o uvm_tlb_batch_end(sizes \union {"2m"})]
    ELSE [gs |-> gs, steps |-> Writes(batch) \o uvm_tlb_batch_end(sizes)]

(* block_gpu_pte_finish_split_2m: a valid 2M PTE becomes invalid first.    *)
block_gpu_pte_finish_split_2m(gs, batch, big) ==
    [gs |-> [Activated(gs) EXCEPT !.is2m = FALSE, !.big = big, !.initialized = @ \/ "big" \in gs.tables],
     steps |-> (IF gs.prot[FirstPage] = 0 THEN Writes(batch)
                ELSE Writes(batch @@ block_gpu_pte_clear_2m) \o uvm_tlb_batch_end({"2m"}))
               \o write_pde_step(gs) \o uvm_tlb_batch_end({"2m"})]

block_gpu_pte_merge_2m(gs) ==
    Writes(block_gpu_pte_clear_2m)
    \o uvm_tlb_batch_end({"2m"} \union (gs.tables \cap {"big"}) \union (IF gs.big = BigPages THEN {} ELSE {"4k"}))

To2m(gs) == [gs EXCEPT !.is2m = TRUE, !.big = {}]

block_gpu_map_to_2m(gs, res, prot) ==
    [gs |-> To2m(gs),
     steps |-> (IF gs.is2m THEN <<>> ELSE block_gpu_pte_merge_2m(gs))
               \o Writes(block_gpu_pte_write_2m(res, prot)) \o uvm_tlb_batch_end({"2m"})]

block_gpu_unmap_to_2m(gs) ==
    [gs |-> To2m(gs),
     steps |-> IF gs.is2m THEN Writes(block_gpu_pte_clear_2m) \o uvm_tlb_batch_end({"2m"}) ELSE block_gpu_pte_merge_2m(gs)]

(* A big PTE that is not mapped is unmapped, not invalid: the GPU does not *)
(* look below it.                                                          *)
BigEntry(res, prot) == IF prot = 0 THEN Bit("unmapped") ELSE Pte(res, prot)

(* block_gpu_map_split_2m and block_gpu_unmap_split_2m.                    *)
block_gpu_split_2m_by(gs, new, res, prot, S) ==
    LET split == BigPages \ new.big
        bigs == IF "big" \notin gs.tables THEN <<>>
                ELSE block_gpu_pte_clear_big(new.big \ new.covered, BigEntry(res, gs.prot[FirstPage]))
                     @@ block_gpu_pte_clear_big(new.big \cap new.covered, BigEntry(res, prot))
                     @@ block_gpu_pte_clear_big(split, Bit("invalid"))
    IN  block_gpu_pte_finish_split_2m(gs, bigs @@ block_gpu_pte_big_split_write_4k(gs, res, prot, split, S), new.big)

(* block_gpu_split_2m: no permission changes.                              *)
block_gpu_split_2m(gs, big) ==
    LET res == bpBlock.resident[FirstPage]
        prot == gs.prot[FirstPage]
        split == BigPages \ big
    IN  block_gpu_pte_finish_split_2m(gs,
            block_gpu_pte_write_4k(bpBlock.pages \ InBig(big), res, prot)
            @@ block_gpu_pte_clear_big(big, BigEntry(res, prot))
            @@ (IF "big" \in gs.tables THEN block_gpu_pte_clear_big(split, Bit("invalid")) ELSE <<>>), big)

block_gpu_split_big(gs, split) ==
    LET valid == {b \in split : gs.prot[2 * b - 1] # 0}
        last == ActivateAndEnd(gs, block_gpu_pte_clear_big(split, Bit("invalid")), InvalBig(split))
    IN  [gs |-> [last.gs EXCEPT !.big = @ \ split],
         steps |-> Writes(block_gpu_pte_big_split_write_4k(gs, "none", 0, split, {})
                          @@ block_gpu_pte_clear_big(valid, Bit("unmapped")))
                   \o uvm_tlb_batch_end(InvalBig(valid)) \o last.steps]

(* block_gpu_pte_merge_big_and_end: big PTEs that will be merged become    *)
(* unmapped, and what is cached below them is invalidated.                 *)
block_gpu_pte_merge_big_and_end(B) == InvalBig(B) \union Inval(InBig(B), {"4k"})

(* block_gpu_map_big_and_4k and block_gpu_unmap_big_and_4k: splits,        *)
(* merges, and PTEs that keep their size, in one push.                     *)
block_gpu_big_and_4k(gs, new, res, prot, S) ==
    LET split == gs.big \ new.big
        merge == new.big \ gs.big
        same == gs.big \cap new.big \cap new.covered
        small == S \ InBig(gs.big \union new.big)
        clear == IF "big" \in gs.tables /\ ~gs.initialized THEN BigPages \ new.big ELSE {}
        unmapped == {b \in split : gs.prot[2 * b - 1] # 0}
        batch == block_gpu_pte_big_split_write_4k(gs, res, prot, split, S)
                 @@ block_gpu_pte_write_4k(small, res, prot)
                 @@ block_gpu_pte_clear_big(unmapped \union merge, Bit("unmapped"))
                 @@ block_gpu_pte_clear_big(same, BigEntry(res, prot))
                 @@ block_gpu_pte_clear_big(clear, Bit("invalid"))
        first == [gs EXCEPT !.initialized = @ \/ "big" \in gs.tables]
        last == ActivateAndEnd(first,
                    block_gpu_pte_clear_big(split, Bit("invalid"))
                    @@ (IF res = "none" THEN <<>> ELSE block_gpu_pte_write_big(merge \cap new.covered, res, prot)),
                    InvalBig(split) \union InvalBig(IF res = "none" THEN {} ELSE merge \cap new.covered))
    IN  [gs |-> [last.gs EXCEPT !.big = new.big],
         steps |-> Writes(batch)
                   \o uvm_tlb_batch_end(Inval(small, {"4k"}) \union InvalBig(unmapped \union same \union clear)
                                        \union block_gpu_pte_merge_big_and_end(merge))
                   \o last.steps]

(***************************************************************************)
(* Operations, under the block's lock                                      *)
(***************************************************************************)
Value(gs) == Pte(bpBlock.resident[bpWatch], gs.prot[bpWatch])
BpRoom == bpOps < BpMaxOps /\ Len(bpQueue) <= BpMaxQueue /\ bpTask.at \notin {"removing", "splitting", "gone"}

(* The push is built, and the permissions recorded.                        *)
Push(r) ==
    /\ bpGpu' = r.gs /\ bpQueue' = bpQueue \o r.steps
    /\ bpSeen' = (IF bpQueue \o r.steps = <<>> THEN {} ELSE bpSeen \union {Value(bpGpu)}) \union {Value(r.gs)}
    /\ bpOps' = bpOps + 1

(* Pages that change, and the pages that have the permission afterwards.   *)
Transition(gs, new, res, prot, S) ==
    CASE new.is2m /\ prot = 0 -> block_gpu_unmap_to_2m(gs)
      [] new.is2m /\ prot # 0 -> block_gpu_map_to_2m(gs, res, prot)
      [] ~new.is2m /\ gs.is2m -> block_gpu_split_2m_by(gs, new, IF res = "none" THEN bpBlock.resident[FirstPage] ELSE res, prot, S)
      [] OTHER -> block_gpu_big_and_4k(gs, new, res, prot, S)

Operate(res, prot, S, after) ==
    LET new == block_gpu_compute_new_pte_state(bpGpu, res, S, after)
        sizes == block_alloc_ptes_new_state(bpGpu, new)
        r == Transition(AllAllocated(bpGpu, sizes), new, res, prot, S)
    IN  /\ S # {} /\ BpRoom
        /\ bpMem' = AllFresh(bpMem, sizes)
        /\ Push([r EXCEPT !.gs.prot = [p \in 0..4 |-> IF p \in S THEN prot ELSE @[p]]])
        /\ UNCHANGED <<bpBlock, bpTask, bpTlb, bpWatch, bpSetup>>

(* uvm_va_block_map_gpu_to, for the pages resident on res.                 *)
MapPages(mask, res, prot) == {p \in mask \cap bpBlock.pages : bpBlock.resident[p] = res /\ bpGpu.prot[p] < prot}
MapAfter(mask, res, prot) ==
    {p \in bpBlock.pages : bpBlock.resident[p] = res /\ (bpGpu.prot[p] = prot \/ p \in MapPages(mask, res, prot))}
uvm_va_block_map_gpu_to(mask, res, prot) ==
    Operate(res, prot, MapPages(mask, res, prot), MapAfter(mask, res, prot))

uvm_va_block_revoke_prot_gpu_to(mask, res) ==
    LET S == {p \in mask \cap bpBlock.pages : bpBlock.resident[p] = res /\ bpGpu.prot[p] = 2}
    IN  Operate(res, 1, S, {p \in bpBlock.pages : bpBlock.resident[p] = res /\ (bpGpu.prot[p] = 1 \/ p \in S)})

UnmapPages(mask) == {p \in mask \cap bpBlock.pages : bpGpu.prot[p] # 0}
uvm_va_block_unmap_gpu(mask) ==
    Operate("none", 0, UnmapPages(mask), {p \in bpBlock.pages : bpGpu.prot[p] = 0 \/ p \in UnmapPages(mask)})

(* Pages change residency while the GPU does not map them (VaBlock).       *)
BlockMigrates(mask) ==
    LET S == mask \cap bpBlock.pages
    IN  /\ BpRoom /\ S # {} /\ \A p \in S : bpGpu.prot[p] = 0
        /\ bpBlock' = [bpBlock EXCEPT !.resident = [p \in 0..4 |-> IF p \notin S THEN @[p] ELSE IF @[p] = "gpu" THEN "cpu" ELSE "gpu"]]
        /\ bpOps' = bpOps + 1
        /\ UNCHANGED <<bpGpu, bpTask, bpQueue, bpMem, bpTlb, bpSeen, bpWatch, bpSetup>>

(* A fatal fault: 4k PTEs from now on.                                     *)
block_gpu_force_4k_ptes ==
    LET forced == [bpGpu EXCEPT !.force = TRUE]
        sizes == IF bpGpu.tables # {} /\ (bpGpu.is2m \/ bpGpu.big # {}) THEN block_alloc_ptes_with_retry(bpGpu, {"4k"}) ELSE <<>>
        gs == AllAllocated(forced, sizes)
    IN  /\ bpSetup.cancel /\ BpRoom /\ ~bpGpu.force
        /\ bpMem' = AllFresh(bpMem, sizes)
        /\ Push(IF gs.is2m THEN block_gpu_split_2m(gs, {}) ELSE IF gs.big # {} THEN block_gpu_split_big(gs, gs.big)
                ELSE [gs |-> gs, steps |-> <<>>])
        /\ UNCHANGED <<bpBlock, bpTask, bpTlb, bpWatch, bpSetup>>

(***************************************************************************)
(* Tables that need an eviction: allocated without the block's lock        *)
(***************************************************************************)
(* block_alloc_pt_range_with_retry: the operation will be tried again.     *)
AllocUnlocks(mask, prot) ==
    LET new == block_gpu_compute_new_pte_state(bpGpu, "gpu", MapPages(mask, "gpu", prot), MapAfter(mask, "gpu", prot))
        sizes == block_alloc_ptes_new_state(bpGpu, new)
    IN  /\ bpSetup.retry /\ bpTask.at = "idle" /\ BpRoom /\ MapPages(mask, "gpu", prot) # {}
        /\ sizes # <<>>
        /\ \E n \in 0..(Len(sizes) - 1) :
             /\ bpGpu' = AllAllocated(bpGpu, SubSeq(sizes, 1, n))
             /\ bpMem' = AllFresh(bpMem, SubSeq(sizes, 1, n))
             /\ bpTask' = [at |-> "unlocked", sizes |-> SubSeq(sizes, n + 1, Len(sizes))]
        /\ UNCHANGED <<bpBlock, bpQueue, bpTlb, bpSeen, bpOps, bpWatch, bpSetup>>

AllocLinks ==
    /\ bpTask.at = "unlocked"
    /\ bpMem' = FreshTable(bpMem, Head(bpTask.sizes))
    /\ bpTask' = [bpTask EXCEPT !.at = "linked"]
    /\ UNCHANGED <<bpBlock, bpGpu, bpQueue, bpTlb, bpSeen, bpOps, bpWatch, bpSetup>>

(* With the lock again: another thread's table wins.                       *)
AllocRelocks ==
    LET size == Head(bpTask.sizes)
        rest == SelectSeq(Tail(bpTask.sizes), LAMBDA s : s \notin bpGpu.tables)
    IN  /\ bpTask.at = "linked"
        /\ bpGpu' = IF size \in bpGpu.tables THEN bpGpu ELSE Allocated(bpGpu, size)
        /\ bpTask' = IF rest = <<>> THEN Free_task ELSE [at |-> "unlocked", sizes |-> rest]
        /\ UNCHANGED <<bpBlock, bpQueue, bpMem, bpTlb, bpSeen, bpOps, bpWatch, bpSetup>>

(***************************************************************************)
(* Removing and splitting                                                  *)
(***************************************************************************)
(* uvm_va_block_remove_gpu_va_space unmaps; where other blocks use the     *)
(* same tables it makes big PTEs invalid ...                               *)
uvm_va_block_remove_gpu_va_space ==
    LET S == UnmapPages(bpBlock.pages)
        new == block_gpu_compute_new_pte_state(bpGpu, "none", S, bpBlock.pages)
        r == IF S = {} THEN [gs |-> bpGpu, steps |-> <<>>] ELSE Transition(bpGpu, new, "none", 0, S)
        reset == IF bpBlock.two_m THEN <<>>
                 ELSE Writes((IF "4k" \in r.gs.tables THEN block_gpu_pte_clear_4k(InBig(r.gs.big), Bit("invalid")) ELSE <<>>)
                             @@ block_gpu_pte_clear_big(r.gs.big, Bit("invalid")))
                      \o uvm_tlb_batch_end(InvalBig(r.gs.big))
    IN  /\ bpSetup.remove /\ BpRoom /\ bpTask.at = "idle" /\ bpGpu.tables # {}
        /\ Push([gs |-> [r.gs EXCEPT !.prot = NoPtes.prot], steps |-> r.steps \o reset])
        /\ bpTask' = [bpTask EXCEPT !.at = "removing"]
        /\ UNCHANGED <<bpBlock, bpMem, bpTlb, bpWatch, bpSetup>>

(* ... waits, and puts the tables.  What is left below a table that other  *)
(* blocks keep is seen by the next user of the range.                      *)
RemovePutsTables ==
    /\ bpTask.at = "removing" /\ bpQueue = <<>>
    /\ bpGpu' = [bpGpu EXCEPT !.tables = {}, !.is2m = FALSE, !.big = {}]
    /\ bpTask' = IF bpSetup.again THEN Free_task ELSE [Free_task EXCEPT !.at = "gone"]
    /\ bpMem' = IF bpBlock.two_m THEN [bpMem EXCEPT !.top = Bit("invalid")] ELSE bpMem
    /\ bpTlb' = [bpTlb EXCEPT !.top = Bit("none")]
    /\ UNCHANGED <<bpBlock, bpQueue, bpSeen, bpOps, bpWatch, bpSetup>>

(* uvm_va_block_split_presplit_ptes_gpu: the split must not cut a PTE.     *)
PresplitBig(at) == {b \in BigPages : at \in BigRegion(b) /\ at # 2 * b - 1}
PresplitTables(at) ==
    IF bpGpu.is2m /\ (bpGpu.tables # {"2m"} \/ bpGpu.prot[FirstPage] # 0)
    THEN {"big"} \union (IF PresplitBig(at) = {} THEN {} ELSE {"4k"})
    ELSE IF PresplitBig(at) \cap bpGpu.big # {} THEN {"4k"} ELSE {}
Presplit(gs, at) ==
    IF PresplitTables(at) = {} THEN [gs |-> gs, steps |-> <<>>]
    ELSE IF gs.is2m THEN block_gpu_split_2m(gs, BigPages \ PresplitBig(at)) ELSE block_gpu_split_big(gs, PresplitBig(at))

BlockSplits(at) ==
    LET sizes == IF PresplitTables(at) = {} THEN <<>> ELSE block_alloc_ptes_with_retry(bpGpu, PresplitTables(at))
    IN  /\ bpSetup.split /\ BpRoom /\ bpTask.at = "idle" /\ at \in bpBlock.pages /\ at # FirstPage
        /\ bpMem' = AllFresh(bpMem, sizes)
        /\ Push(Presplit(AllAllocated(bpGpu, sizes), at))
        /\ bpTask' = [at |-> "splitting", sizes |-> <<at>>]
        /\ UNCHANGED <<bpBlock, bpTlb, bpWatch, bpSetup>>

(* uvm_va_block_split_gpu, once the GPU is done: both halves have their    *)
(* part; here the watched page's half is kept.  The 2M entry is put, which *)
(* leaves it as it is when tables are below it.                            *)
uvm_va_block_split_gpu ==
    LET at == Head(bpTask.sizes)
        pages == {p \in bpBlock.pages : (p < at) <=> (bpWatch < at)}
        big == {b \in BigPages : BigRegion(b) \subseteq pages}
        tables == bpGpu.tables \ ({"2m"} \union (IF big = {} THEN {"big"} ELSE {}))
    IN  /\ bpTask.at = "splitting" /\ bpQueue = <<>>
        /\ bpGpu' = [bpGpu EXCEPT !.is2m = FALSE, !.big = @ \cap big, !.force = @ /\ bpWatch < at, !.tables = tables]
        /\ bpBlock' = [bpBlock EXCEPT !.two_m = FALSE, !.pages = pages]
        /\ bpMem' = IF bpMem.top.k = "pde" THEN bpMem ELSE [bpMem EXCEPT !.top = Pde({})]
        /\ bpTask' = Free_task
        /\ UNCHANGED <<bpQueue, bpTlb, bpSeen, bpOps, bpWatch, bpSetup>>

(***************************************************************************)
(* The GPU                                                                 *)
(***************************************************************************)
BpPop == /\ bpQueue' = Tail(bpQueue)
         /\ bpSeen' = IF Tail(bpQueue) = <<>> THEN {Value(bpGpu)} ELSE bpSeen

(* The writes of a batch are pipelined.                                    *)
PtesWritten ==
    /\ bpQueue # <<>> /\ Head(bpQueue).op = "write"
    /\ \E level \in DOMAIN Head(bpQueue).writes :
         /\ bpMem' = [bpMem EXCEPT ![level] = Head(bpQueue).writes[level]]
         /\ IF DOMAIN Head(bpQueue).writes = {level} THEN BpPop
            ELSE /\ bpQueue' = [bpQueue EXCEPT ![1].writes = [l \in DOMAIN @ \ {level} |-> @[l]]]
                 /\ UNCHANGED bpSeen
    /\ UNCHANGED <<bpBlock, bpGpu, bpTask, bpTlb, bpOps, bpWatch, bpSetup>>

(* One by one, or, when a batch is too large, all.                         *)
TlbsInvalidated ==
    /\ bpQueue # <<>> /\ Head(bpQueue).op = "tlb"
    /\ \E all \in BOOLEAN :
         bpTlb' = [bpTlb EXCEPT !.top = IF "2m" \in Head(bpQueue).sizes THEN Bit("none") ELSE @,
                                !.ptes = IF all THEN {} ELSE {e \in @ : e.size \notin Head(bpQueue).sizes}]
    /\ BpPop
    /\ UNCHANGED <<bpBlock, bpGpu, bpTask, bpMem, bpOps, bpWatch, bpSetup>>

(* The walk from the 2M entry: [size, pte], or no translation.  Without 2M *)
(* pages the page tree keeps what is above the tables (PageTree).          *)
Hit(size, e) == [size |-> size, pte |-> e]
WalkFrom(top) ==
    LET small == IF "4k" \in top.tables THEN Hit("4k", bpMem.small) ELSE Hit("4k", Bit("invalid"))
    IN  IF top.k # "pde" THEN Hit("2m", top)
        ELSE IF "big" \in top.tables /\ bpWatch # 0 /\ bpMem.big.k # "invalid" THEN Hit("big", bpMem.big)
        ELSE small

(* Nothing uses a range that is being removed.                             *)
GpuTranslates ==
    bpTask.at # "removing" /\ \E cached \in BOOLEAN :
      LET top == IF cached THEN bpTlb.top ELSE bpMem.top
          hit == WalkFrom(top)
      IN  /\ top.k # "none" /\ (cached => bpBlock.two_m)
          /\ bpTlb' = [top |-> IF top.k = "pde" /\ bpBlock.two_m THEN top ELSE bpTlb.top,
                       ptes |-> bpTlb.ptes \union (IF hit.pte.k = "pte" THEN {hit} ELSE {}),
                       junk |-> bpTlb.junk \/ hit.pte.k = "junk"]
          /\ bpTlb' # bpTlb
          /\ UNCHANGED <<bpBlock, bpGpu, bpTask, bpQueue, bpMem, bpSeen, bpOps, bpWatch, bpSetup>>

BpNext ==
    \/ \E mask \in BpMasks :
         \/ \E res \in {"gpu", "cpu"} :
              uvm_va_block_revoke_prot_gpu_to(mask, res) \/ \E prot \in 1..2 : uvm_va_block_map_gpu_to(mask, res, prot)
         \/ uvm_va_block_unmap_gpu(mask) \/ BlockMigrates(mask) \/ \E prot \in 1..2 : AllocUnlocks(mask, prot)
    \/ block_gpu_force_4k_ptes \/ AllocLinks \/ AllocRelocks
    \/ uvm_va_block_remove_gpu_va_space \/ RemovePutsTables \/ \E at \in 1..4 : BlockSplits(at)
    \/ uvm_va_block_split_gpu
    \/ PtesWritten \/ TlbsInvalidated \/ GpuTranslates

BpSpec == BpInit /\ [][BpNext]_bpVars

(***************************************************************************)
(* Properties                                                              *)
(***************************************************************************)
(* At every moment the GPU translates the page as some operation that is   *)
(* still under way asked, or not at all; with nothing under way, exactly   *)
(* as the block records; and never through a PTE nobody wrote.             *)
TranslationsAsAsked ==
    LET now == WalkFrom(bpMem.top).pte
    IN  /\ ~bpTlb.junk
        /\ \A e \in bpTlb.ptes : e.pte \in bpSeen
        /\ bpQueue = <<>> => (IF bpGpu.prot[bpWatch] = 0 THEN now.k # "pte" ELSE now = Value(bpGpu))

(* The TLBs never hold one page twice, in PTEs of two sizes: "that could   *)
(* cause memory ordering to not be maintained".                            *)
OneSizeCached == Cardinality({e.size : e \in bpTlb.ptes}) <= 1

(* A larger PTE stands for pages with one permission and one residency.    *)
LargePtesUniform ==
    LET Uniform(S) == \A p, q \in S : bpGpu.prot[p] = bpGpu.prot[q]
                                      /\ (bpGpu.prot[p] # 0 => bpBlock.resident[p] = "gpu")
    IN  /\ bpGpu.is2m => Uniform(bpBlock.pages) /\ bpGpu.big = {} /\ "2m" \in bpGpu.tables
        /\ \A b \in bpGpu.big : Uniform(BigRegion(b)) /\ bpGpu.initialized /\ "big" \in bpGpu.tables

(* Tables that the block's PTEs are in are linked below its 2M entry: "it's *)
(* the responsibility of the block code to make the lower page tables      *)
(* active".  Not so for a block whose GPU VA space was removed and         *)
(* registered again.                                                       *)
TablesActive ==
    bpBlock.two_m /\ bpQueue = <<>> /\ bpTask.at = "idle" /\ ~bpGpu.is2m /\ bpGpu.tables # {}
    => bpGpu.tables \ {"2m"} \subseteq bpMem.top.tables

BlockPtesExact == TranslationsAsAsked /\ OneSizeCached /\ LargePtesUniform
===============================================================================
