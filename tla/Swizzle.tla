------------------------------- MODULE Swizzle -------------------------------
(***************************************************************************)
(* GPUs that swizzle big pages (uvm8_va_block.c, uvm8_gpu.c): a page that  *)
(* is mapped by a big PTE has to lie swizzled in the memory it is resident *)
(* in, one that is mapped by 4k PTEs must not, so a GPU that changes the   *)
(* size of its PTEs changes the memory and the PTEs of every other GPU     *)
(* that maps it.  All of it is pushed, and the GPUs execute later.         *)
(*                                                                         *)
(* A block of two big pages of two pages, in system memory or in that of   *)
(* the GPUs, which are peers and have no 2M pages.  The steps of splits    *)
(* and merges and the TLBs are in BlockPtes.                               *)
(***************************************************************************)
EXTENDS Integers, Sequences, FiniteSets, SequencesExt, FiniteSetsExt

CONSTANTS SwGpu,    \* the GPUs, in the order of their ids, a sequence
          SwCpu,    \* the CPU
          SwNone,   \* nothing is mapped
          SwMasks,  \* the page masks that operations get
          SwMaxOps, \* bound on operations
          SwMaxPushes, \* bound on pushes that are not executed when an operation begins
          SwSetups  \* tables: whether page tables can be had: yes, retry, or no;
                    \* other: another block is swizzled meanwhile; mixed: pages that are
                    \* mapped together may be resident in several memories

ASSUME SwAssumption ==
    /\ SwMaxOps \in Nat /\ SwMaxPushes \in Nat /\ \A m \in SwMasks : m \subseteq 1 .. 4
    /\ \A s \in SwSetups : s.tables \in {"yes", "retry", "no"} /\ s.other \in BOOLEAN /\ s.mixed \in BOOLEAN

VARIABLES swBlock,  \* uvm_va_block_t: where pages are resident, per GPU its state, the tracker
          swPushes, \* what the GPUs have to do: pushes, and those that each of them waits for
          swStage,  \* per GPU big_page.staging: its tracker, and what is in its chunk
          swMem,    \* how the pages' data lie in memory
          swPtes,   \* the PTEs in memory, per GPU and big page
          swOps, swSetup
swVars == <<swBlock, swPushes, swStage, swMem, swPtes, swOps, swSetup>>

SwGpus == Range(SwGpu)
SwPages == 1 .. 4
SwBigs == 1 .. 2
SwRegion(b) == {2 * b - 1, 2 * b}
SwBigOf(p) == (p + 1) \div 2
SwFirst(b) == 2 * b - 1
Unpopulated == [prot |-> [p \in SwPages |-> 0], big |-> {}, tables |-> {}, swizzled |-> {}, chunk |-> FALSE]

(* pitch and swizzled are the page's data as they are now, junk anything   *)
(* else.                                                                   *)
SwInit ==
    /\ swBlock = [resident |-> [p \in SwPages |-> SwCpu], gpus |-> [g \in SwGpus |-> Unpopulated], tracker |-> {}]
    /\ swPushes = <<>> /\ swOps = 0 /\ swSetup \in SwSetups
    /\ swStage = [g \in SwGpus |-> [tracker |-> {}, big |-> 0, good |-> {}]]
    /\ swMem = [m \in SwGpus \union {SwCpu} |-> [p \in SwPages |-> IF m = SwCpu THEN "pitch" ELSE "junk"]]
    /\ swPtes = [g \in SwGpus |-> [b \in SwBigs |-> [big |-> FALSE, to |-> [p \in SwRegion(b) |-> SwNone]]]]

(***************************************************************************)
(* An operation under way: the block, its pushes, those of the operation   *)
(* and of its tracker, the tables that can still be had, and status.       *)
(***************************************************************************)
Op(budget) == [block |-> swBlock, pushes |-> swPushes, stage |-> swStage, tracker |-> {}, budget |-> budget,
               ok |-> TRUE]

PushOf(gpu, steps, after) == [gpu |-> gpu, steps |-> steps, after |-> after]
uvm_push_end(S, push) == [S EXCEPT !.pushes = Append(@, push)]
NextPush(S) == {Len(S.pushes) + 1}
PteStep(writes) == [op |-> "ptes", writes |-> writes]
PteOf(big, to) == [big |-> big, to |-> to]

(* block_alloc_ptes_with_retry: with retry the tables are had, and the     *)
(* operation ends as if they were not.                                     *)
block_alloc_ptes_with_retry(S, g, sizes) ==
    IF ~S.ok \/ sizes \subseteq S.block.gpus[g].tables THEN S
    ELSE [S EXCEPT !.block.gpus[g].tables = IF S.budget > 0 \/ swSetup.tables = "retry" THEN @ \union sizes ELSE @,
                   !.ok = S.budget > 0, !.budget = @ - 1]

(***************************************************************************)
(* Changing the format of a big page                                       *)
(***************************************************************************)
block_get_mapped_processors(S, res, p) ==
    SelectSeq(SwGpu, LAMBDA g : S.block.gpus[g].prot[p] # 0 /\ S.block.resident[p] = res)

AllNone(b) == [p \in SwRegion(b) |-> SwNone]

(* Mutant: the GPUs' mappings stay while the format changes.               *)
change_swizzling_mapped(S, g, b, op) ==
    [S EXCEPT !.block.gpus[g].big = IF op = "swizzle" THEN @ \union {b} ELSE @]

block_gpu_big_page_change_swizzling_unmap(S, g, b, op) ==
    [uvm_push_end(S, PushOf(g, <<PteStep(b :> PteOf(TRUE, AllNone(b)))>>, S.tracker))
        EXCEPT !.tracker = NextPush(S),
               !.block.gpus[g].big = IF op = "swizzle" THEN @ \union {b} ELSE @]

(* block_gpu_split_big: 4k PTEs with the permissions of the big one.       *)
SplitBig(S, g, b) ==
    PteOf(FALSE, [p \in SwRegion(b) |-> IF S.block.gpus[g].prot[SwFirst(b)] = 0 THEN SwNone
                                        ELSE S.block.resident[SwFirst(b)]])
Reformed(S, g, b, op) ==
    IF op = "swizzle" THEN PteOf(TRUE, [p \in SwRegion(b) |-> S.block.resident[SwFirst(b)]]) ELSE SplitBig(S, g, b)
block_gpu_big_page_change_swizzling_remap(S, g, b, op) ==
    [uvm_push_end(S, PushOf(g, <<PteStep(b :> Reformed(S, g, b, op))>>, S.tracker))
        EXCEPT !.tracker = NextPush(S), !.block.gpus[g].big = IF op = "swizzle" THEN @ ELSE @ \ {b}]

(* Two copies, of which the second depends on the first.                   *)
Formats(op) == IF op = "swizzle" THEN <<"pitch", "swizzled">> ELSE <<"swizzled", "pitch">>
SwizzleSteps(b, op) ==
    <<[op |-> "stage", big |-> b, format |-> Formats(op)[1]], [op |-> "unstage", big |-> b, format |-> Formats(op)[2]]>>
uvm_gpu_swizzle_phys(S, g, b, op) ==
    [uvm_push_end(S, PushOf(g, SwizzleSteps(b, op), S.stage[g].tracker \union S.tracker))
        EXCEPT !.stage[g].tracker = NextPush(S), !.tracker = NextPush(S)]

(* Tables first, for every GPU that maps the page; then they are unmapped, *)
(* the page changes, and those but the caller's GPU are mapped again.      *)
RECURSIVE AllocEach(_, _, _), UnmapEach(_, _, _, _), RemapEach(_, _, _, _)
AllocEach(S, gs, sizes) ==
    IF gs = <<>> THEN S ELSE AllocEach(block_alloc_ptes_with_retry(S, Head(gs), sizes), Tail(gs), sizes)
UnmapEach(S, gs, b, op) ==
    IF gs = <<>> THEN S ELSE UnmapEach(block_gpu_big_page_change_swizzling_unmap(S, Head(gs), b, op), Tail(gs), b, op)
RemapEach(S, gs, b, op) ==
    IF gs = <<>> THEN S ELSE RemapEach(block_gpu_big_page_change_swizzling_remap(S, Head(gs), b, op), Tail(gs), b, op)
WaitForBlock(S) == [S EXCEPT !.tracker = @ \union S.block.tracker]
KeepInBlock(S) == [S EXCEPT !.block.tracker = @ \union S.tracker]
SetSwizzled(S, res, b, op) ==
    [S EXCEPT !.block.gpus[res].swizzled = IF op = "swizzle" THEN @ \union {b} ELSE @ \ {b}]
ChangeMapped(S, mapped, res, skip, b, op) ==
    IF ~S.ok THEN S
    ELSE KeepInBlock(RemapEach(
             SetSwizzled(uvm_gpu_swizzle_phys(UnmapEach(WaitForBlock(S), mapped, b, op), res, b, op), res, b, op),
             SelectSeq(mapped, LAMBDA g : g # skip), b, op))
ChangeOf(S, mapped, res, skip, b, op) ==
    ChangeMapped(AllocEach(S, mapped, IF op = "swizzle" THEN {"big"} ELSE {"4k"}), mapped, res, skip, b, op)
block_gpu_big_page_change_swizzling(S, res, skip, b, op) ==
    IF ~S.ok THEN S ELSE ChangeOf(S, block_get_mapped_processors(S, res, SwFirst(b)), res, skip, b, op)

(* res is SwNone where the page is changed in the memory it is in.         *)
RECURSIVE ChangeEach(_, _, _, _, _)
ChangeEach(S, res, skip, B, op) ==
    IF B = {} THEN S
    ELSE LET b == CHOOSE x \in B : \A y \in B : x <= y
         IN  ChangeEach(block_gpu_big_page_change_swizzling(S, IF res = SwNone THEN S.block.resident[SwFirst(b)] ELSE res,
                                                            skip, b, op),
                        res, skip, B \ {b}, op)

block_gpu_change_swizzling_map(S, res, g, new) ==
    ChangeEach(ChangeEach(S, res, g, (new.covered \cap new.big) \ S.block.gpus[res].swizzled, "swizzle"),
               res, g, (new.covered \ new.big) \cap S.block.gpus[res].swizzled, "deswizzle")

(* Only a big page of which a part stays mapped has to change.             *)
block_gpu_change_swizzling_unmap(S, g, new) ==
    ChangeEach(S, SwNone, g, (new.covered \ new.unmapped) \cap S.block.gpus[g].big, "deswizzle")

(***************************************************************************)
(* Mapping and unmapping                                                   *)
(***************************************************************************)
(* The others that map some of the big page map all of it, and alike.      *)
mapped_gpus_can_map_big(S, g, b) ==
    \A h \in SwGpus \ {g} : Cardinality({S.block.gpus[h].prot[p] : p \in SwRegion(b)}) = 1

block_gpu_compute_new_pte_state(S, g, res, changing, after) ==
    LET gs == S.block.gpus[g]
        can == res # SwCpu /\ (res = SwNone => "big" \in gs.tables)
        covered == {b \in SwBigs : SwRegion(b) \cap changing # {}}
        full == {b \in covered : SwRegion(b) \subseteq after}
        new == {b \in full : can /\ (res = SwNone \/ mapped_gpus_can_map_big(S, g, b))}
    IN  [covered |-> covered, unmapped |-> IF res = SwNone THEN full ELSE {},
         needs_4k |-> new # covered,
         big |-> new \union (IF "4k" \notin gs.tables /\ new = covered THEN SwBigs ELSE gs.big \ covered)]

Tables(new) == (IF new.big # {} THEN {"big"} ELSE {}) \union (IF new.needs_4k THEN {"4k"} ELSE {})

(* block_gpu_map_big_and_4k and block_gpu_unmap_big_and_4k: what a covered *)
(* big page's PTEs become, and the others that become big.                 *)
NewPtes(S, g, new, res, pages) ==
    [b \in new.covered \union (new.big \ S.block.gpus[g].big) |->
        IF b \in new.big
        THEN PteOf(TRUE, [p \in SwRegion(b) |-> IF b \in new.covered THEN res ELSE SwNone])
        ELSE PteOf(FALSE, [p \in IF b \in S.block.gpus[g].big THEN SwRegion(b) ELSE SwRegion(b) \cap pages |->
                              IF p \in pages THEN res ELSE SplitBig(S, g, b).to[p]])]

(* A change of g's mappings: tables, the format of what it maps, and the   *)
(* push, which waits for the block's tracker.                              *)
ChangeFormats(S, g, res, new) ==
    IF ~S.ok \/ res = SwCpu THEN S
    ELSE IF res = SwNone THEN block_gpu_change_swizzling_unmap(S, g, new)
    ELSE block_gpu_change_swizzling_map(S, res, g, new)
PushPtes(S, g, new, res, pages, prot) ==
    IF ~S.ok THEN S
    ELSE [uvm_push_end(S, PushOf(g, <<PteStep(NewPtes(S, g, new, res, pages))>>, S.block.tracker))
             EXCEPT !.tracker = @ \union NextPush(S), !.block.gpus[g].big = new.big,
                    !.block.gpus[g].prot = [p \in SwPages |-> IF p \in pages THEN prot ELSE @[p]]]
ToPteState(S, g, new, res, pages, prot) ==
    PushPtes(ChangeFormats(block_alloc_ptes_with_retry(S, g, Tables(new)), g, res, new), g, new, res, pages, prot)
ChangePtes(S, g, res, pages, after, prot) ==
    IF ~S.ok \/ pages = {} THEN S
    ELSE ToPteState(S, g, block_gpu_compute_new_pte_state(S, g, res, pages, after), res, pages, prot)

uvm_va_block_map_gpu_to(S, g, res, mask, prot) ==
    LET pages == {p \in mask : S.block.resident[p] = res /\ S.block.gpus[g].prot[p] < prot}
    IN  ChangePtes(S, g, res, pages,
                   {p \in SwPages : S.block.resident[p] = res /\ (p \in pages \/ S.block.gpus[g].prot[p] = prot)}, prot)
uvm_va_block_revoke_prot_gpu_to(S, g, res, mask) ==
    LET pages == {p \in mask : S.block.resident[p] = res /\ S.block.gpus[g].prot[p] = 2}
    IN  ChangePtes(S, g, res, pages,
                   {p \in SwPages : S.block.resident[p] = res /\ (p \in pages \/ S.block.gpus[g].prot[p] = 1)}, 1)
uvm_va_block_unmap_gpu(S, g, mask) ==
    LET pages == {p \in mask : S.block.gpus[g].prot[p] # 0}
    IN  ChangePtes(S, g, SwNone, pages, {p \in SwPages : p \in pages \/ S.block.gpus[g].prot[p] = 0}, 0)

(* Memory by memory, the GPU's own first.                                  *)
Closest(g) == <<g>> \o SelectSeq(SwGpu, LAMBDA h : h # g) \o <<SwCpu>>
RECURSIVE MapEach(_, _, _, _, _), RevokeEach(_, _, _, _), UnmapGpus(_, _, _)
MapEach(S, g, from, mask, prot) ==
    IF from = <<>> THEN S
    ELSE MapEach(uvm_va_block_map_gpu_to(S, g, Head(from), mask, prot), g, Tail(from), mask, prot)
RevokeEach(S, g, from, mask) ==
    IF from = <<>> THEN S ELSE RevokeEach(uvm_va_block_revoke_prot_gpu_to(S, g, Head(from), mask), g, Tail(from), mask)
UnmapGpus(S, gpus, mask) ==
    IF gpus = <<>> THEN S ELSE UnmapGpus(uvm_va_block_unmap_gpu(S, Head(gpus), mask), Tail(gpus), mask)
RECURSIVE MapGpus(_, _, _, _), RevokeGpus(_, _, _)
MapGpus(S, gpus, mask, prot) ==
    IF gpus = <<>> THEN S
    ELSE MapGpus(MapEach(S, Head(gpus), Closest(Head(gpus)), mask, prot), Tail(gpus), mask, prot)
RevokeGpus(S, gpus, mask) ==
    IF gpus = <<>> THEN S ELSE RevokeGpus(RevokeEach(S, Head(gpus), Closest(Head(gpus)), mask), Tail(gpus), mask)

(* What an operation pushed is in the block's tracker, however it ends.    *)
EndOp(S) == [S EXCEPT !.block.tracker = @ \union S.tracker, !.tracker = {}]
uvm_va_block_unmap_mask(S, gpus, mask) ==
    EndOp(UnmapGpus(S, gpus, mask))

(***************************************************************************)
(* Operations                                                              *)
(***************************************************************************)
(* The mappings to several memories are pushed to the two channels of a    *)
(* pool, and none of them waits for another: only with mixed.              *)
MayMap(mask) == ~swSetup.mixed => Cardinality({swBlock.resident[p] : p \in mask}) = 1

(* How many tables can be had before none can.                             *)
Budgets == IF swSetup.tables = "yes" THEN {9} ELSE 0 .. 9
Perform(S) ==
    /\ swOps < SwMaxOps /\ Len(swPushes) <= SwMaxPushes
    /\ swBlock' = S.block /\ swPushes' = S.pushes /\ swStage' = S.stage /\ swOps' = swOps + 1
    /\ UNCHANGED <<swMem, swPtes, swSetup>>

uvm_va_block_map_mask(gpus, mask, prot) ==
    /\ MayMap(mask)
    /\ \E budget \in Budgets : Perform(EndOp(MapGpus(Op(budget), gpus, mask, prot)))

uvm_va_block_unmap_pages(gpus, mask) == \E budget \in Budgets : Perform(uvm_va_block_unmap_mask(Op(budget), gpus, mask))

uvm_va_block_revoke_prot_mask(gpus, mask) ==
    /\ MayMap(mask)
    /\ \E budget \in Budgets : Perform(EndOp(RevokeGpus(Op(budget), gpus, mask)))

(* The chunk covers the block; its big pages are taken to be swizzled.     *)
block_zero_new_gpu_chunk(S, dst) ==
    IF dst = SwCpu THEN S
    ELSE IF S.block.gpus[dst].chunk THEN S
    ELSE [S EXCEPT !.block.gpus[dst].chunk = TRUE, !.block.gpus[dst].swizzled = SwBigs]

(* block_phys_page_copy_address: a big page of the copying GPU is copied   *)
(* by the big identity mapping when it is swizzled.                        *)
block_gpu_page_is_swizzled(S, m, p) == m # SwCpu /\ SwBigOf(p) \in S.block.gpus[m].swizzled
CopyFormat(S, m, pages) ==
    [p \in pages |-> IF m = SwCpu THEN "pitch" ELSE IF block_gpu_page_is_swizzled(S, m, p) THEN "swizzled" ELSE "pitch"]
CopyStep(S, dst, src, pages) ==
    [op |-> "copy", src |-> src, dst |-> dst, from |-> CopyFormat(S, src, pages), to |-> CopyFormat(S, dst, pages)]
SwCopyBetween(S, dst, src, pages) ==
    IF pages = {} THEN S
    ELSE [uvm_push_end(S, PushOf(IF src = SwCpu THEN dst ELSE src, <<CopyStep(S, dst, src, pages)>>, S.block.tracker))
             EXCEPT !.tracker = @ \union NextPush(S)]

(* Swizzling GPUs do not copy to each other: what a GPU has goes through   *)
(* system memory, once what was there already is copied.                   *)
ResidentAt(m, mask) == {p \in mask : swBlock.resident[p] = m}
RECURSIVE StageEach(_, _, _)
StageEach(S, gpus, mask) ==
    IF gpus = <<>> THEN S
    ELSE StageEach(SwCopyBetween(S, SwCpu, Head(gpus), ResidentAt(Head(gpus), mask)), Tail(gpus), mask)
Unstaged(S, dst, pages) == IF dst = SwCpu THEN S ELSE EndOp(SwCopyBetween(S, dst, SwCpu, pages))
SwCopyResident(S, dst, mask) ==
    [Unstaged(EndOp(StageEach(IF dst = SwCpu THEN S ELSE SwCopyBetween(S, dst, SwCpu, ResidentAt(SwCpu, mask)),
                              SelectSeq(SwGpu, LAMBDA g : g # dst), mask)),
              dst, {p \in mask : swBlock.resident[p] \in SwGpus \ {dst}})
        EXCEPT !.block.resident = [p \in SwPages |-> IF p \in mask THEN dst ELSE @[p]]]
MoveUnmapped(S, dst, moves) ==
    IF S.ok THEN SwCopyResident(block_zero_new_gpu_chunk(S, dst), dst, moves) ELSE S

SwMakeResident(dst, mask) ==
    LET moves == {p \in mask : swBlock.resident[p] # dst}
    IN  /\ moves # {}
        /\ \E budget \in Budgets :
             Perform(MoveUnmapped(uvm_va_block_unmap_mask(Op(budget), SwGpu, moves), dst, moves))

(* The first half of a split at the middle of a big page, which may fail   *)
(* later and leave the block whole.                                        *)
uvm_va_block_split_presplit_deswizzle_gpu(S, g, b) ==
    IF ~S.ok \/ b \notin S.block.gpus[g].swizzled THEN S
    ELSE IF \E p \in SwRegion(b) : S.block.resident[p] = g
    THEN [block_gpu_big_page_change_swizzling(S, g, SwNone, b, "deswizzle") EXCEPT !.tracker = {}]
    ELSE [S EXCEPT !.block.gpus[g].swizzled = @ \ {b}]
PushSplit(S, g, b) ==
    IF ~S.ok THEN S
    ELSE [uvm_push_end(S, PushOf(g, <<PteStep(b :> SplitBig(S, g, b))>>, S.block.tracker))
             EXCEPT !.block.gpus[g].big = @ \ {b}, !.block.tracker = @ \union NextPush(S)]
uvm_va_block_split_presplit_ptes_gpu(S, g, b) ==
    IF ~S.ok \/ b \notin S.block.gpus[g].big THEN S ELSE PushSplit(block_alloc_ptes_with_retry(S, g, {"4k"}), g, b)
RECURSIVE DeswizzleEach(_, _, _), SplitPtesEach(_, _, _)
DeswizzleEach(S, gpus, b) ==
    IF gpus = <<>> THEN S
    ELSE DeswizzleEach(uvm_va_block_split_presplit_deswizzle_gpu(S, Head(gpus), b), Tail(gpus), b)
SplitPtesEach(S, gpus, b) ==
    IF gpus = <<>> THEN S
    ELSE SplitPtesEach(uvm_va_block_split_presplit_ptes_gpu(S, Head(gpus), b), Tail(gpus), b)
uvm_va_block_split_presplit_ptes(b) ==
    \E budget \in Budgets :
        Perform(SplitPtesEach(DeswizzleEach(Op(budget), SwGpu, b), SwGpu, b))

(* Another block swizzles a big page of its own, by the same chunk.        *)
OtherBlock(g) ==
    /\ swSetup.other
    /\ Perform([uvm_gpu_swizzle_phys(Op(0), g, 0, "swizzle") EXCEPT !.tracker = {}])

(***************************************************************************)
(* The GPUs                                                                *)
(***************************************************************************)
(* Writing a page in one format spoils what is next to it in the other.    *)
Written(mem, formats) ==
    [p \in SwPages |-> IF p \in DOMAIN formats THEN formats[p]
                       ELSE IF \E q \in DOMAIN formats : SwBigOf(q) = SwBigOf(p) /\ mem[p] # "junk"
                                                         /\ formats[q] # "junk" /\ formats[q] # mem[p]
                       THEN "junk" ELSE mem[p]]

Stage(g, step) ==
    /\ swStage' = [swStage EXCEPT ![g].big = step.big,
          ![g].good = {p \in SwPages : SwBigOf(p) = step.big /\ swMem[g][p] = step.format}]
    /\ UNCHANGED <<swMem, swPtes>>
Unstage(g, step) ==
    LET written == [p \in SwRegion(step.big) |->
                       IF swStage[g].big = step.big /\ p \in swStage[g].good THEN step.format ELSE "junk"]
    IN  /\ swMem' = IF step.big = 0 THEN swMem ELSE [swMem EXCEPT ![g] = Written(@, written)]
        /\ UNCHANGED swPtes
Copy(step) ==
    LET pages == DOMAIN step.from
        good == [p \in pages |-> IF swMem[step.src][p] = step.from[p] THEN step.to[p] ELSE "junk"]
    IN  /\ swMem' = [swMem EXCEPT ![step.dst] = Written(@, good),
                                  ![step.src] = [p \in SwPages |-> IF p \in pages THEN "junk" ELSE @[p]]]
        /\ UNCHANGED <<swPtes>>
WritePtes(g, writes) ==
    /\ swPtes' = [swPtes EXCEPT ![g] = [b \in SwBigs |->
          IF b \notin DOMAIN writes THEN @[b]
          ELSE PteOf(writes[b].big, [p \in SwRegion(b) |-> IF p \in DOMAIN writes[b].to THEN writes[b].to[p]
                                                            ELSE @[b].to[p]])]]
    /\ UNCHANGED <<swMem>>

(* Pushes in several channels: any that has nothing to wait for runs.      *)
Without(i, ids) == {IF j > i THEN j - 1 ELSE j : j \in ids \ {i}}
Execute(i) ==
    LET push == swPushes[i]
        step == Head(push.steps)
        last == Len(push.steps) = 1
    IN  /\ push.after = {}
        /\ swPushes' = IF last THEN [j \in 1 .. Len(swPushes) - 1 |->
                                        LET k == IF j >= i THEN j + 1 ELSE j
                                        IN  [swPushes[k] EXCEPT !.after = Without(i, @)]]
                       ELSE [swPushes EXCEPT ![i].steps = Tail(@)]
        /\ swBlock' = IF last THEN [swBlock EXCEPT !.tracker = Without(i, @)] ELSE swBlock
        /\ CASE step.op = "stage" -> Stage(push.gpu, step)
             [] step.op = "unstage" -> Unstage(push.gpu, step)
             [] step.op = "copy" -> Copy(step)
             [] step.op = "ptes" -> WritePtes(push.gpu, step.writes)
        /\ (step.op # "stage" =>
              swStage' = IF last THEN [g \in SwGpus |-> [swStage[g] EXCEPT !.tracker = Without(i, @)]] ELSE swStage)
        /\ UNCHANGED <<swOps, swSetup>>

SwGpuSeqs == {SwGpu} \union {<<g>> : g \in SwGpus}
SwNext ==
    \/ \E gpus \in SwGpuSeqs, mask \in SwMasks :
         \/ \E prot \in {1, 2} : uvm_va_block_map_mask(gpus, mask, prot)
         \/ uvm_va_block_unmap_pages(gpus, mask)
         \/ uvm_va_block_revoke_prot_mask(gpus, mask)
    \/ \E mask \in SwMasks, dst \in SwGpus \union {SwCpu} : SwMakeResident(dst, mask)
    \/ \E b \in SwBigs : uvm_va_block_split_presplit_ptes(b)
    \/ \E g \in SwGpus : OtherBlock(g)
    \/ \E i \in DOMAIN swPushes : Execute(i)

SwSpec == SwInit /\ [][SwNext]_swVars

(***************************************************************************)
(* Properties                                                              *)
(***************************************************************************)
(* The assertion after every operation: what is mapped by a big PTE is     *)
(* swizzled where it is resident, what is mapped by 4k PTEs is not.        *)
block_check_mappings_swizzling(g) ==
    \A b \in SwBigs :
        /\ b \in swBlock.gpus[g].swizzled => swBlock.gpus[g].chunk
        /\ IF b \notin swBlock.gpus[g].big
           THEN \A p \in SwRegion(b) : swBlock.gpus[g].prot[p] # 0 => ~block_gpu_page_is_swizzled([block |-> swBlock], swBlock.resident[p], p)
           ELSE swBlock.gpus[g].prot[SwFirst(b)] # 0 =>
                    block_gpu_page_is_swizzled([block |-> swBlock], swBlock.resident[SwFirst(b)], SwFirst(b))

(* The GPUs to unmap are found by the big page's first page: the one that  *)
(* is about to map all of it and had only the second keeps that mapping.   *)
Missed(g, b) ==
    /\ ~swPtes[g][b].big /\ swPtes[g][b].to[SwFirst(b)] = SwNone
    /\ \E i \in DOMAIN swPushes : LET step == Head(swPushes[i].steps) IN
          /\ swPushes[i].gpu = g /\ step.op = "ptes"
          /\ b \in DOMAIN step.writes
          /\ step.writes[b].big

(* No other access gets data in the wrong format, or that are gone: while  *)
(* a format changes, those who would are unmapped.                         *)
ReadsRight ==
    \A g \in SwGpus, b \in SwBigs : LET pte == swPtes[g][b] IN
        ~Missed(g, b) => \A p \in SwRegion(b) : pte.to[p] # SwNone =>
            swMem[pte.to[p]][p] = IF pte.big THEN "swizzled" ELSE "pitch"

(* Once all is executed the PTEs are those that the block thinks of.       *)
MappedAsRecorded ==
    swPushes = <<>> =>
        \A g \in SwGpus, p \in SwPages :
            swPtes[g][SwBigOf(p)].to[p] = IF swBlock.gpus[g].prot[p] = 0 THEN SwNone ELSE swBlock.resident[p]

(* Swizzled big pages: the assertion holds after every operation, and what *)
(* the GPUs execute keeps every access right and ends as recorded.         *)
SwizzleExact == (\A g \in SwGpus : block_check_mappings_swizzling(g)) /\ ReadsRight /\ MappedAsRecorded
==============================================================================
