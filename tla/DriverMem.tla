------------------------------ MODULE DriverMem ------------------------------
(***************************************************************************)
(* Memory UVM8 allocates for itself (uvm8_mem.c): chunks, a range of the   *)
(* kernel's part of the GPU VA space (uvm8_range_allocator.c) and mappings *)
(* on GPUs through vectors of page table ranges (uvm8_mmu.c).  Addresses   *)
(* and sizes are in the smallest pages.                                    *)
(***************************************************************************)
EXTENDS Integers, FiniteSets, FiniteSetsExt

CONSTANTS DmMem, DmGpu,
          DmSpace,   \* size of the VA space
          DmSizes,   \* sizes that are asked for
          DmBig, DmBiggest, \* page sizes above 1
          DmPde,     \* pages a table of the smallest pages covers
          DmPush,    \* entries a push writes
          DmClear,   \* ranges a push clears
          DmNone,
          DmSetups   \* fails: steps may fail

ASSUME DmAssumption ==
    /\ {DmSpace, DmBig, DmBiggest, DmPde, DmPush} \union DmSizes \subseteq Nat \ {0}
    /\ DmClear \in Nat \ {0, 1} /\ DmBig < DmBiggest /\ DmNone \notin DmGpu
    /\ \A s \in DmSetups : s.fails \in BOOLEAN

VARIABLES dmFree,  \* free nodes of g_free_ranges, <<first, last>>
          dmMem,   \* [DmMem -> uvm_mem_t, see NoMem]
          dmVec,   \* [DmMem -> [DmGpu -> range_vec, see NoVec]]
          dmSetup

dmVars == <<dmFree, dmMem, dmVec, dmSetup>>

(* st: none, chunks (no range yet), live or freeing; gpu: whose memory, or *)
(* DmNone for the system's; chunk: size of a chunk; node: its nodes in the *)
(* allocator, start: where it is aligned.                                  *)
NoMem == [st |-> "none", gpu |-> DmNone, size |-> 0, chunk |-> 1, chunks |-> FALSE,
          node |-> <<0, -1>>, start |-> 0, mapped |-> {}]
(* at: none, write, mapped or clear; next: the entry to write or the range *)
(* to clear next; ptes: what each entry maps, -1 nothing; stale: the TLB   *)
(* may hold what the entries were.                                         *)
NoVec == [at |-> "none", next |-> 0, ptes |-> <<>>, stale |-> FALSE]

uvm_range_allocator_init(size) == {<<0, size - 1>>}
DmInit ==
    /\ dmFree = uvm_range_allocator_init(DmSpace)
    /\ dmMem = [m \in DmMem |-> NoMem]
    /\ dmVec = [m \in DmMem |-> [g \in DmGpu |-> NoVec]]
    /\ dmSetup \in DmSetups

DmOutcomes == IF dmSetup.fails THEN BOOLEAN ELSE {TRUE}
AlignUp(x, a) == ((x + a - 1) \div a) * a
Physical(m) == AlignUp(dmMem[m].size, dmMem[m].chunk)

(***************************************************************************)
(* Chunks and ranges                                                       *)
(***************************************************************************)
pick_chunk_size(size, gpu) ==
    IF gpu = DmNone \/ size < DmBig THEN 1 ELSE IF size < DmBiggest THEN DmBig ELSE DmBiggest

(* Chunks are allocated all, or given back again.                          *)
uvm_mem_alloc_chunks(m, size, gpu) ==
    /\ dmMem[m].st = "none"
    /\ dmMem' = [dmMem EXCEPT ![m] = [NoMem EXCEPT !.st = "chunks", !.gpu = gpu, !.size = size,
                                                   !.chunk = pick_chunk_size(size, gpu),
                                                   !.chunks = TRUE]]
    /\ UNCHANGED <<dmFree, dmVec, dmSetup>>

(* The node begins where the free one does, below what alignment skips.    *)
Fits(n, size, align) ==
    n[1] <= DmSpace - size /\ AlignUp(n[1], align) + size - 1 <= n[2]
FirstFit(size, align) ==
    LET fits == {n \in dmFree : Fits(n, size, align)}
    IN  IF fits = {} THEN <<0, -1>> ELSE CHOOSE n \in fits : \A k \in fits : n[1] <= k[1]

(* Mutant: a node begins where it is aligned.                              *)
range_alloc_aligned(size, align) ==
    LET n == FirstFit(size, align)
    IN  IF n[2] < 0 THEN <<0, -1, 0>>
        ELSE <<AlignUp(n[1], align), AlignUp(n[1], align) + size - 1, AlignUp(n[1], align)>>

uvm_range_allocator_alloc(size, align) ==
    LET n == FirstFit(size, align)
    IN  IF n[2] < 0 THEN <<0, -1, 0>>
        ELSE <<n[1], AlignUp(n[1], align) + size - 1, AlignUp(n[1], align)>>

WithoutNode(node) ==
    {n \in dmFree : n[1] # node[1]}
    \union {<<node[2] + 1, n[2]>> : n \in {k \in dmFree : k[1] = node[1] /\ k[2] > node[2]}}

(* The range of a kernel allocation, or everything is given back.          *)
uvm_mem_alloc(m) ==
    LET x == uvm_range_allocator_alloc(Physical(m), dmMem[m].chunk)
    IN  /\ dmMem[m].st = "chunks"
        /\ \E ok \in DmOutcomes :
              IF ok /\ x[2] >= 0
              THEN /\ dmMem' = [dmMem EXCEPT ![m].st = "live", ![m].node = <<x[1], x[2]>>,
                                             ![m].start = x[3]]
                   /\ dmFree' = WithoutNode(<<x[1], x[2]>>)
              ELSE dmMem' = [dmMem EXCEPT ![m] = NoMem] /\ UNCHANGED dmFree
        /\ UNCHANGED <<dmVec, dmSetup>>

(* The freed node is merged with the free ones beside it.                  *)
uvm_range_allocator_free(node) ==
    LET prev == {n \in dmFree : n[2] + 1 = node[1]}
        next == {n \in dmFree : node[2] + 1 = n[1]}
        whole == {node} \union prev \union next
    IN  (dmFree \ (prev \union next))
        \union {<<Min({n[1] : n \in whole}), Max({n[2] : n \in whole})>>}

(***************************************************************************)
(* Mappings                                                                *)
(***************************************************************************)
uvm_mem_map_cpu(m) ==
    /\ dmMem[m].st = "live" /\ dmMem[m].gpu = DmNone /\ "cpu" \notin dmMem[m].mapped
    /\ dmMem' = [dmMem EXCEPT ![m].mapped = @ \union {"cpu"}]
    /\ UNCHANGED <<dmFree, dmVec, dmSetup>>

uvm_mem_unmap_cpu(m) ==
    /\ dmMem[m].st = "live" /\ "cpu" \in dmMem[m].mapped
    /\ dmMem' = [dmMem EXCEPT ![m].mapped = @ \ {"cpu"}]
    /\ UNCHANGED <<dmFree, dmVec, dmSetup>>

(* Chunks are mapped with pages of their size.                             *)
pick_gpu_page_size(m) == dmMem[m].chunk
DmEntries(m) == Physical(m) \div pick_gpu_page_size(m)
(* Entry e of a mapping is in table ...; a table covers more the larger    *)
(* its pages.                                                              *)
TableOf(m, e) == (dmMem[m].start \div pick_gpu_page_size(m) + e) \div DmPde
range_vec_calc_range_count(m) ==
    TableOf(m, DmEntries(m) - 1) - TableOf(m, 0) + 1
RangeOf(m, e) == TableOf(m, e) - TableOf(m, 0)

(* Page tables for every entry, or none.                                   *)
uvm_page_table_range_vec_create(m, g) ==
    /\ dmMem[m].st = "live" /\ dmVec[m][g].at = "none"
    /\ dmVec' = [dmVec EXCEPT ![m][g] = [NoVec EXCEPT !.at = "write",
                                             !.ptes = [e \in 0 .. (DmEntries(m) - 1) |-> -1]]]
    /\ UNCHANGED <<dmFree, dmMem, dmSetup>>

(* The chunk and offset behind an entry.                                   *)
uvm_mem_pte_maker(m, e) == (e * pick_gpu_page_size(m)) \div dmMem[m].chunk

(* One push: entries of one range, as many as fit.  The last invalidates,  *)
(* and then the GPU counts as mapped; a push that cannot begin takes       *)
(* everything back.                                                        *)
WrittenEntries(m, e) ==
    {k \in e .. (e + DmPush - 1) : k < DmEntries(m) /\ RangeOf(m, k) = RangeOf(m, e)}
uvm_page_table_range_vec_write_ptes(m, g) ==
    LET v == dmVec[m][g]
        written == WrittenEntries(m, v.next)
        last == v.next + Cardinality(written) = DmEntries(m)
    IN  /\ v.at = "write"
        /\ \E ok \in DmOutcomes :
              IF ok
              THEN /\ dmVec' = [dmVec EXCEPT ![m][g] =
                        [at |-> IF last THEN "mapped" ELSE "write",
                         next |-> v.next + Cardinality(written), stale |-> ~last,
                         ptes |-> [k \in DOMAIN v.ptes |->
                                     IF k \in written THEN uvm_mem_pte_maker(m, k) ELSE v.ptes[k]]]]
                   /\ dmMem' = IF last THEN [dmMem EXCEPT ![m].mapped = @ \union {g}] ELSE dmMem
              ELSE /\ dmVec' = [dmVec EXCEPT ![m][g].at = "clear", ![m][g].next = 0]
                   /\ UNCHANGED dmMem
        /\ UNCHANGED <<dmFree, dmSetup>>

uvm_mem_unmap_gpu(m, g) ==
    /\ dmMem[m].st \in {"live", "freeing"} /\ dmVec[m][g].at = "mapped"
    /\ dmVec' = [dmVec EXCEPT ![m][g].at = "clear", ![m][g].next = 0]
    /\ dmMem' = [dmMem EXCEPT ![m].mapped = @ \ {g}]
    /\ UNCHANGED <<dmFree, dmSetup>>

(* One push: ranges until it is full.  The range that filled it is begun   *)
(* again by the next one.                                                  *)
ClearedRanges(m, i) ==
    {r \in i .. (i + DmClear - 1) : r < range_vec_calc_range_count(m)}

uvm_page_table_range_vec_clear_ptes(m, g) ==
    LET v == dmVec[m][g]
        cleared == ClearedRanges(m, v.next)
        full == Cardinality(cleared) = DmClear
        done == ~full
    IN  /\ v.at = "clear" /\ v.next < range_vec_calc_range_count(m)
        /\ dmVec' = [dmVec EXCEPT ![m][g] =
              [at |-> "clear", stale |-> ~done,
               next |-> IF full THEN v.next + DmClear - 1 ELSE range_vec_calc_range_count(m),
               ptes |-> [k \in DOMAIN v.ptes |-> IF RangeOf(m, k) \in cleared THEN -1 ELSE v.ptes[k]]]]
        /\ UNCHANGED <<dmFree, dmMem, dmSetup>>

(* The tables go back to the page tree.                                    *)
uvm_page_table_range_vec_destroy(m, g) ==
    /\ dmVec[m][g].at = "clear" /\ dmVec[m][g].next = range_vec_calc_range_count(m)
    /\ dmVec' = [dmVec EXCEPT ![m][g].at = "none", ![m][g].next = 0]
    /\ UNCHANGED <<dmFree, dmMem, dmSetup>>

(* The CPU's mapping first, then the GPUs', then the range and the chunks. *)
StartFree(m) ==
    /\ dmMem[m].st = "live" /\ \A g \in DmGpu : dmVec[m][g].at \in {"none", "mapped"}
    /\ dmMem' = [dmMem EXCEPT ![m].st = "freeing", ![m].mapped = @ \ {"cpu"}]
    /\ UNCHANGED <<dmFree, dmVec, dmSetup>>

uvm_mem_free(m) ==
    /\ dmMem[m].st = "freeing" /\ \A g \in DmGpu : dmVec[m][g].at = "none"
    /\ dmFree' = uvm_range_allocator_free(dmMem[m].node)
    /\ dmMem' = [dmMem EXCEPT ![m] = NoMem]
    /\ UNCHANGED <<dmVec, dmSetup>>

DmNext ==
    \E m \in DmMem :
        \/ \E size \in DmSizes, gpu \in DmGpu \union {DmNone} : uvm_mem_alloc_chunks(m, size, gpu)
        \/ uvm_mem_alloc(m) \/ uvm_mem_map_cpu(m) \/ uvm_mem_unmap_cpu(m)
        \/ StartFree(m) \/ uvm_mem_free(m)
        \/ \E g \in DmGpu :
              \/ uvm_page_table_range_vec_create(m, g) \/ uvm_page_table_range_vec_write_ptes(m, g)
              \/ uvm_mem_unmap_gpu(m, g) \/ uvm_page_table_range_vec_clear_ptes(m, g)
              \/ uvm_page_table_range_vec_destroy(m, g)

DmSpec == DmInit /\ [][DmNext]_dmVars

(***************************************************************************)
(* Properties                                                              *)
(***************************************************************************)
(* Free and allocated nodes are disjoint and cover the space, and no two   *)
(* free ones touch.                                                        *)
DmNodes == dmFree \union {dmMem[m].node : m \in {k \in DmMem : dmMem[k].st \in {"live", "freeing"}}}
Covered(n) == n[1] .. n[2]
SpacePartitioned ==
    /\ UNION {Covered(n) : n \in DmNodes} = 0 .. (DmSpace - 1)
    /\ \A n, k \in DmNodes : n # k => Covered(n) \intersect Covered(k) = {}
    /\ \A n, k \in dmFree : n[2] + 1 # k[1]
    /\ \A m, k \in DmMem : m # k /\ dmMem[m].st = "live" /\ dmMem[k].st = "live"
                           => dmMem[m].node # dmMem[k].node
    /\ \A m \in DmMem : dmMem[m].st = "live" =>
          /\ dmMem[m].start .. (dmMem[m].start + Physical(m) - 1) \subseteq Covered(dmMem[m].node)
          /\ dmMem[m].start % dmMem[m].chunk = 0

(* A GPU that counts as mapped maps every chunk in order, with no stale    *)
(* entry in its TLB.                                                       *)
MappedWhole ==
    \A m \in DmMem, g \in DmGpu :
        g \in dmMem[m].mapped => /\ ~dmVec[m][g].stale
                                 /\ \A e \in 0 .. (DmEntries(m) - 1) : dmVec[m][g].ptes[e] = e

(* Tables, the range and the chunks are given up when no entry maps them   *)
(* and no TLB remembers one.                                               *)
UnmappedFirst ==
    \A m \in DmMem, g \in DmGpu :
        /\ dmVec[m][g].at = "none" =>
              ~dmVec[m][g].stale /\ \A e \in DOMAIN dmVec[m][g].ptes : dmVec[m][g].ptes[e] = -1
        /\ dmMem[m].st \in {"none", "chunks"} => dmVec[m][g].at = "none"

DriverMemExact == SpacePartitioned /\ MappedWhole /\ UnmappedFirst
================================================================================
