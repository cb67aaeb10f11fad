------------------------------ MODULE Prefetch ------------------------------
(***************************************************************************)
(* Which pages of a VA block are prefetched with a batch of faults         *)
(* (uvm8_perf_prefetch.c): a binary tree over the block's pages, padded to *)
(* big pages, counts what will be resident at the destination.  A batch is *)
(* serviced under the block's lock and is one action.                      *)
(***************************************************************************)
EXTENDS Integers, FiniteSets, FiniteSetsExt

CONSTANTS PfProc,
          PfBlockPages,   \* PAGES_PER_UVM_VA_BLOCK
          PfBig, PfBiggest, \* pages of 64K and of 128K
          PfThreshold, PfMinFaults,
          PfMaxBatches,   \* bounds the batches
          PfSetups
          (* first, last: pages of the block within what is aligned;       *)
          (* big: [PfProc -> big page size]; thrash and fixed: pages that  *)
          (* thrash or may not move; fails: allocation may fail            *)

ASSUME PfAssumption ==
    /\ {PfBlockPages, PfBig, PfBiggest, PfMinFaults} \subseteq Nat \ {0}
    /\ PfBig < PfBiggest /\ PfBiggest <= PfBlockPages /\ PfThreshold \in 1 .. 100
    /\ PfMaxBatches \in Nat
    /\ \A s \in PfSetups : 0 <= s.first /\ s.first <= s.last /\ s.last < PfBlockPages

VARIABLES pfLast,   \* last page of the block, which may be split
          pfInfo,   \* block_prefetch_info_t, see NoTree
          pfHome,   \* [pages -> where each is]
          pfHint,   \* of the last batch: who, its faults, what was there, pages
          pfBatches,
          pfSetup

pfVars == <<pfLast, pfInfo, pfHome, pfHint, pfBatches, pfSetup>>

NoTree == [on |-> FALSE, leaves |-> 0, first |-> 0, proc |-> 0, faults |-> 0]
NoHint == [who |-> 0, faults |-> {}, there |-> {}, pages |-> {}, tree |-> {}]

PfInit ==
    /\ pfSetup \in PfSetups
    /\ pfLast = pfSetup.last /\ pfInfo = NoTree /\ pfHint = NoHint /\ pfBatches = 0
    /\ pfHome = [p \in 0 .. (pfSetup.last - pfSetup.first) |-> 0]

uvm_va_block_num_cpu_pages == pfLast - pfSetup.first + 1
BlockPages == 0 .. (uvm_va_block_num_cpu_pages - 1)
PfUp(x, a) == ((x + a - 1) \div a) * a
PfDown(x, a) == (x \div a) * a

(* Pages of the block that whole big pages cover, first and the one after. *)
uvm_va_block_big_page_region_all(big) ==
    LET first == PfUp(pfSetup.first, big)
        outer == PfDown(pfLast + 1, big)
    IN  IF outer <= first THEN <<0, 0>> ELSE <<first - pfSetup.first, outer - pfSetup.first>>
Region(first, outer) == first .. (outer - 1)
(* What the block lacks in front of its first page to begin a big page.    *)
Ghosts(big) ==
    LET all == uvm_va_block_big_page_region_all(big)
    IN  IF all[1] > 0 THEN big - all[1] ELSE 0

(* Leaves for the largest big pages that fit.                              *)
TreeLeaves ==
    uvm_va_block_num_cpu_pages
        + Ghosts(IF uvm_va_block_big_page_region_all(PfBiggest)[2] = 0 THEN PfBig ELSE PfBiggest)

prefetch_info_get_create ==
    IF pfInfo.on THEN pfInfo ELSE [NoTree EXCEPT !.on = TRUE, !.leaves = TreeLeaves]

(* Nodes above a leaf: the leaves below each.                              *)
PfSizes == {n \in 1 .. PfBlockPages : \E k \in 0 .. PfBlockPages : n = 2 ^ k}
Levels(leaves) == {n \in PfSizes : n < 2 * leaves}
Subregion(leaf, n, leaves) ==
    Region(PfDown(leaf, n), Min({PfDown(leaf, n) + n, leaves}))

(* The largest subtree that is more than threshold per cent there, but not *)
(* whole, clamped to the block; otherwise one page after the leaves.       *)
compute_prefetch_region(leaf, info, tree) ==
    LET full(n) ==
            LET sub == Subregion(leaf, n, info.leaves)
                count == Cardinality(tree \intersect sub)
            IN  count < Cardinality(sub) /\ count * 100 > Cardinality(sub) * PfThreshold
        levels == {n \in Levels(info.leaves) : full(n)}
    IN  IF levels = {} THEN {info.leaves}
        ELSE Subregion(leaf, Max(levels), info.leaves)
             \intersect Region(info.first, info.first + uvm_va_block_num_cpu_pages)

(* Faults grow to the big page, or the part of one, they are on.           *)
grow_fault_migrations_if_no_thrashing(region, faulted) ==
    IF region \intersect faulted # {} /\ region \intersect pfSetup.thrash = {} THEN region ELSE {}

initialize_migration_mask(faulted, big) ==
    LET all == uvm_va_block_big_page_region_all(big)
        bigs == {Region(all[1] + i * big, all[1] + (i + 1) * big) : i \in 0 .. ((all[2] - all[1]) \div big - 1)}
        parts == bigs \union {Region(0, all[1]), Region(all[2], uvm_va_block_num_cpu_pages)}
    IN  (faulted \ pfSetup.thrash)
        \union UNION {grow_fault_migrations_if_no_thrashing(r, faulted) : r \in parts}

(* Back from leaves to pages, without what is there or comes anyway.       *)
PrefetchPages(info, tree, leaves) ==
    {i - info.first : i \in {k \in leaves \ tree : k >= info.first}} \ pfSetup.thrash

(* Leaves of the pages in question are looked at in order, up to one whose *)
(* region reaches the block's end.                                         *)
uvm_perf_prefetch_prenotify_fault_migrations(who, faulted, resident) ==
    LET big == pfSetup.big[who]
        old == prefetch_info_get_create
        info == [old EXCEPT !.first = Ghosts(big), !.proc = who,
                    !.faults = IF old.proc = who THEN @ + Cardinality(faulted) ELSE Cardinality(faulted)]
        tree == {p + info.first : p \in resident \union faulted}
        leaves == {p + info.first : p \in initialize_migration_mask(faulted, big)
                                             \intersect (Min(faulted) .. Max(faulted))}
        region == [i \in leaves |-> compute_prefetch_region(i, info, tree)]
        reach == {i \in leaves : Max(region[i]) + 1 = info.first + uvm_va_block_num_cpu_pages}
        looked == {i \in leaves : \A j \in reach : j >= i}
    IN  [info |-> info, tree |-> looked,
         pages |-> PrefetchPages(info, tree, UNION {region[i] : i \in looked} \ {PfBlockPages})]

(* Pages that may not move are left out; the mask may be all there is.     *)
uvm_perf_prefetch_get_hint(info, pages) ==
    IF info.faults >= PfMinFaults THEN pages \ pfSetup.fixed ELSE {}

(* A batch of faults moves what it faulted on and what is prefetched.      *)
uvm_va_block_service_faults_locked(who, faulted) ==
    LET resident == {p \in BlockPages : pfHome[p] = who}
        x == uvm_perf_prefetch_prenotify_fault_migrations(who, faulted, resident)
        pages == uvm_perf_prefetch_get_hint(x.info, x.pages)
    IN  /\ pfBatches < PfMaxBatches /\ faulted # {} /\ faulted \intersect resident = {}
        /\ pfBatches' = pfBatches + 1
        /\ \E ok \in IF pfSetup.fails /\ ~pfInfo.on THEN BOOLEAN ELSE {TRUE} :
              /\ pfInfo' = IF ok THEN x.info ELSE pfInfo
              /\ pfHint' = [who |-> who, faults |-> faulted, there |-> resident,
                            pages |-> IF ok THEN pages ELSE {}, tree |-> IF ok THEN x.tree ELSE {}]
        /\ pfHome' = [p \in DOMAIN pfHome |->
                        IF p \in faulted \union pfHint'.pages THEN who ELSE pfHome[p]]
        /\ UNCHANGED <<pfLast, pfSetup>>

(* The block is split: the tree was for all of it and goes.                *)
prefetch_block_destroy_cb == pfInfo' = NoTree
SplitBlock(last) ==
    /\ last \in pfSetup.first .. (pfLast - 1)
    /\ pfLast' = last /\ prefetch_block_destroy_cb /\ pfHint' = NoHint
    /\ pfHome' = [p \in 0 .. (last - pfSetup.first) |-> pfHome[p]]
    /\ UNCHANGED <<pfBatches, pfSetup>>

PfNext ==
    \/ \E who \in PfProc, a, b \in BlockPages :
          uvm_va_block_service_faults_locked(who, {p \in {a, b} : pfHome[p] # who})
    \/ \E last \in 0 .. PfBlockPages : SplitBlock(last)
    \/ pfBatches = PfMaxBatches /\ UNCHANGED pfVars

PfSpec == PfInit /\ [][PfNext]_pfVars

(***************************************************************************)
(* Properties                                                              *)
(***************************************************************************)
(* The tree, made for the largest big pages, has a leaf for every page of  *)
(* the block at the alignment each destination needs, and fits its bitmap. *)
TreeFits ==
    pfInfo.on =>
        /\ pfInfo.leaves <= PfBlockPages
        /\ pfInfo.first + uvm_va_block_num_cpu_pages <= pfInfo.leaves
        /\ \A i \in pfHint.tree : i < pfInfo.leaves

(* A hint never holds a page that faulted, is there, thrashes or may not   *)
(* move, and nothing beyond the block but the mark for no region.          *)
HintApart ==
    /\ pfHint.pages \intersect (pfHint.faults \union pfHint.there \union pfSetup.thrash
                                \union pfSetup.fixed) = {}
    /\ pfHint.pages \ BlockPages \subseteq {pfInfo.leaves - pfInfo.first}

PrefetchExact == TreeFits /\ HintApart
==============================================================================
