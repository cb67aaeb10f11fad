-------------------------------- MODULE Ranges --------------------------------
(***************************************************************************)
(* The managed VA ranges of a VA space (uvm8_va_range.c), the blocks they  *)
(* are cut into, the policies set on them (uvm8_policy.c), the range       *)
(* groups (uvm8_range_group.c) and the migrations they allow or prevent    *)
(* (uvm8_migrate.c), with the vma operations of uvm8.c that create, split  *)
(* and destroy ranges.                                                     *)
(*                                                                         *)
(* The VA space lock in write mode excludes every other call: such a       *)
(* section is one action, taken when no call is in progress.  A call under *)
(* the lock in read mode, or downgraded to it, is several actions: it      *)
(* holds the lock of one block at a time, and the other calls under the    *)
(* read lock run in between.                                               *)
(***************************************************************************)
EXTENDS Naturals, FiniteSets, FiniteSetsExt

CONSTANTS RgThread,     \* threads inside the driver
          RgGpu,        \* registered GPUs
          RgFaultable,  \* those of them that fault
          RgAccess,     \* accessible_from: [processor -> processors that can map its memory]
          RangeGroup,   \* ids of range groups
          RgPages,      \* pages of the address space of the model
          RgBlockPages, \* pages of UVM_VA_BLOCK_SIZE
          RgSetups,     \* the calls of a behaviour: [maps, spans, locations, accessors,
                        \* targets, groups, threads]
          RgCpu, RgNone

ASSUME RgAssumption ==
    /\ RgPages \in Nat /\ RgBlockPages \in Nat \ {0}
    /\ RgFaultable \subseteq RgGpu
    /\ RgCpu \notin RgGpu /\ RgNone \notin RgGpu \union RangeGroup \union {RgCpu}
    /\ \A c \in RgSetups :
         /\ \A s \in c.maps \union c.spans : s[1] \in Nat /\ s[2] \in s[1]..(RgPages - 1)
         /\ c.locations \subseteq RgGpu \union {RgCpu, RgNone}
         /\ c.accessors \subseteq RgGpu \union {RgCpu}
         /\ c.targets \subseteq RgGpu \union {RgCpu}
         /\ c.groups \subseteq RangeGroup /\ c.threads \subseteq RgThread
    /\ RgAccess \in [RgGpu \union {RgCpu} -> SUBSET (RgGpu \union {RgCpu})]

VARIABLES
    rgRanges,  \* set of [start, end, pref, acc, lite, vma]
    rgBlocks,  \* set of [start, end]: the blocks the ranges have created
    rgGroups,  \* [RangeGroup -> [here, allow]]
    rgSpans,   \* set of uvm_range_group_range_t: [start, end, group, list]
    rgHome,    \* [page -> the processor it is resident on, or RgNone]
    rgCall,    \* [RgThread -> the call it is in]
    rgSetup    \* maps: spans <<first, last>> given to mmap; spans: those given to the
               \* API, with locations, accessors and targets (of migrations);
               \* groups: those created

rgVars == <<rgRanges, rgBlocks, rgGroups, rgSpans, rgHome, rgCall, rgSetup>>

RgPage == 0..(RgPages - 1)
RgProc == RgGpu \union {RgCpu}
Span(a, b) == a..b
PagesIn(r) == r.start..r.end
Overlaps(r, a, b) == r.start <= b /\ r.end >= a

(* list: "no" when list_empty, "migrated" on the group's migrated_ranges,  *)
(* or the thread whose local list it has been moved to.                    *)
RgIdle == [at |-> "idle", group |-> RgNone, cur |-> {}, todo |-> {}, dst |-> RgNone,
           block |-> {}]

RgInit ==
    /\ rgRanges = {} /\ rgBlocks = {} /\ rgSpans = {}
    /\ rgGroups = [g \in RangeGroup |-> [here |-> FALSE, allow |-> TRUE]]
    /\ rgHome = [p \in RgPage |-> RgNone]
    /\ rgCall = [t \in RgThread |-> RgIdle]
    /\ rgSetup \in RgSetups

RgGoto(t, c) == rgCall' = [rgCall EXCEPT ![t] = c]
RgAt(t, l) == rgCall[t].at = l
(* The VA space lock in write mode.                                        *)
WriteLock == \A t \in RgThread : RgAt(t, "idle")

(***************************************************************************)
(* uvm_range_tree_t and the blocks of a range                              *)
(***************************************************************************)
uvm_va_range_find(R, p) == {r \in R : p \in PagesIn(r)}
uvm_range_tree_add(R, n) == \A r \in R : ~Overlaps(r, n.start, n.end)

(* uvm_va_range_block_index: a range has one block in each aligned piece   *)
(* of the address space that it overlaps, cut at the range's own ends.     *)
BlockOf(r, p) ==
    LET first == (p \div RgBlockPages) * RgBlockPages IN
    [start |-> Max({r.start, first}), end |-> Min({r.end, first + RgBlockPages - 1})]
(* uvm_va_range_block_create: of two threads that race one wins the        *)
(* cmpxchg, and the other uses the winner's block.                         *)
uvm_va_range_block_create(B, r, p) == B \union {BlockOf(r, p)}

(***************************************************************************)
(* uvm_range_group_assign_range on the set S of range group ranges; RgNone *)
(* removes the association.  The new range is always put on the migrated   *)
(* list, and merged with neighbours of the same group.                     *)
(***************************************************************************)
Outside(n, a, b) ==
    (IF n.start < a THEN {[n EXCEPT !.end = a - 1]} ELSE {})
    \union (IF n.end > b THEN {[n EXCEPT !.start = b + 1]} ELSE {})

uvm_range_group_assign_range(S, g, a, b) ==
    LET over == {n \in S : Overlaps(n, a, b)}
        rest == (S \ over) \union UNION {Outside(n, a, b) : n \in over}
        beside == {n \in rest : n.group = g /\ (n.end + 1 = a \/ n.start = b + 1)}
        merged == [start |-> Min({a} \union {n.start : n \in beside}),
                   end |-> Max({b} \union {n.end : n \in beside}),
                   group |-> g, list |-> "migrated"]
    IN IF \E n \in over : n.start < a /\ n.end > b /\ n.group = g THEN S
       ELSE IF g = RgNone THEN rest
       ELSE (rest \ beside) \union {merged}

GroupAt(p) == {n \in rgSpans : p \in PagesIn(n)}
uvm_range_group_address_migratable(p) == \A n \in GroupAt(p) : rgGroups[n.group].allow
uvm_range_group_all_migratable(a, b) == \A p \in a..b : uvm_range_group_address_migratable(p)

(* list_move_tail onto migrated_ranges unless the node is on a list.       *)
MarkMigrated(S, P) ==
    {IF n.list = "no" /\ PagesIn(n) \intersect P # {} THEN [n EXCEPT !.list = "migrated"] ELSE n : n \in S}

(***************************************************************************)
(* Ranges: create, split, destroy.  These work on w, the parts of the      *)
(* state a section under the write lock changes.                           *)
(***************************************************************************)
RgWorld == [r |-> rgRanges, b |-> rgBlocks, s |-> rgSpans, h |-> rgHome]
RgBecome(w) == rgRanges' = w.r /\ rgBlocks' = w.b /\ rgSpans' = w.s /\ rgHome' = w.h

(* uvm_va_range_destroy: the blocks are killed with their pages, and the   *)
(* span leaves its range groups.  A range that never got into the tree is  *)
(* destroyed the same way: its span leaves the groups too.                 *)
uvm_va_range_destroy(w, r) ==
    LET in == r \in w.r
        gone == {b \in w.b : in /\ Overlaps(b, r.start, r.end)}
    IN [w EXCEPT !.r = @ \ {r},
                 !.b = @ \ gone,
                 !.h = [p \in RgPage |-> IF \E b \in gone : p \in PagesIn(b) THEN RgNone ELSE @[p]],
                 !.s = uvm_range_group_assign_range(@, RgNone, r.start, r.end)]

Destroy(w, R) == FoldSet(LAMBDA r, v : uvm_va_range_destroy(v, r), w, R)

NewRange(a, b, v) ==
    [start |-> a, end |-> b, pref |-> RgNone, acc |-> {}, lite |-> {}, vma |-> v]

(* uvm_va_range_split: the new range takes the pages from p on with the    *)
(* policies and the blocks; a block across p is split.  When it fails the  *)
(* new range is destroyed.                                                 *)
uvm_va_range_split_blocks(B, p) ==
    UNION {IF b.start < p /\ p <= b.end THEN {[b EXCEPT !.end = p - 1], [b EXCEPT !.start = p]} ELSE {b} : b \in B}

(* Mutant: the policies are not copied to the new range.                   *)
split_forgets_policies(w, p, fails) ==
    LET e == CHOOSE r \in w.r : p \in PagesIn(r)
        new == NewRange(p, e.end, e.vma)
    IN IF fails THEN uvm_va_range_destroy(w, new)
       ELSE [w EXCEPT !.r = (@ \ {e}) \union {[e EXCEPT !.end = p - 1], new},
                      !.b = uvm_va_range_split_blocks(@, p)]

uvm_va_range_split(w, p, fails) ==
    LET e == CHOOSE r \in w.r : p \in PagesIn(r)
        new == [e EXCEPT !.start = p]
    IN IF fails THEN uvm_va_range_destroy(w, new)
       ELSE [w EXCEPT !.r = (@ \ {e}) \union {[e EXCEPT !.end = p - 1], new},
                      !.b = uvm_va_range_split_blocks(@, p)]

SplitNeeded(w, p, needed(_)) ==
    \E r \in w.r : p \in PagesIn(r) /\ p # r.start /\ needed(r)

(***************************************************************************)
(* The vmas of uvm8.c.  A vma is named after its first page; zombies, left *)
(* behind by a process exit without teardown, have none.                   *)
(***************************************************************************)
(* A collision (an earlier range at the address, the file in two           *)
(* processes) destroys the range that could not be added.                  *)
uvm_mmap(a, b) ==
    LET n == NewRange(a, b, a) IN
    /\ WriteLock
    /\ IF uvm_range_tree_add(rgRanges, n) THEN RgBecome([RgWorld EXCEPT !.r = @ \union {n}])
       ELSE RgBecome(uvm_va_range_destroy(RgWorld, n))
    /\ UNCHANGED <<rgGroups, rgCall>>

(* A split of the vma at page p.  When the vma wrapper or the split of the *)
(* range cannot be allocated, both vmas are disabled and the original's    *)
(* ranges destroyed.                                                       *)
uvm_vm_open_managed(p, fails) ==
    \E r \in uvm_va_range_find(rgRanges, p) :
        LET v == r.vma
            w == IF r.start = p THEN RgWorld ELSE uvm_va_range_split(RgWorld, p, fails)
            mine(x) == {q \in x.r : q.vma = v}
        IN
        /\ WriteLock
        /\ v # RgNone /\ v < p
        /\ IF fails THEN RgBecome(Destroy(w, mine(w)))
           ELSE RgBecome([w EXCEPT !.r = {IF q \in mine(w) /\ q.start >= p THEN [q EXCEPT !.vma = p] ELSE q : q \in @}])
        /\ UNCHANGED <<rgGroups, rgCall>>

uvm_vm_close_managed(v, is_uvm_teardown) ==
    LET R == {r \in rgRanges : r.vma = v} IN
    /\ WriteLock /\ R # {} /\ v # RgNone
    /\ IF is_uvm_teardown THEN RgBecome([RgWorld EXCEPT !.r = (@ \ R) \union {[r EXCEPT !.vma = RgNone] : r \in R}])
       ELSE RgBecome(Destroy(RgWorld, R))
    /\ UNCHANGED <<rgGroups, rgCall>>

uvm_api_clean_up_zombie_resources ==
    LET R == {r \in rgRanges : r.vma = RgNone} IN
    /\ WriteLock /\ R # {}
    /\ RgBecome(Destroy(RgWorld, R))
    /\ UNCHANGED <<rgGroups, rgCall>>

(***************************************************************************)
(* Policies                                                                *)
(***************************************************************************)
calc_uvm_lite_gpus_mask(loc, acc) ==
    IF loc = RgNone \/ loc \in RgFaultable THEN {}
    ELSE (acc \intersect (RgGpu \ RgFaultable)) \union (RgGpu \intersect {loc})

(* The ranges from `first` on, up to the first gap.                        *)
Contig(R, a, b) ==
    {r \in R : Overlaps(r, a, b) /\ \A p \in a..Max({a, r.start}) : uvm_va_range_find(R, p) # {}}
Covers(R, a, b) == \A p \in a..b : uvm_va_range_find(R, p) # {}

(* uvm_va_range_set_preferred_location: every range group range of the     *)
(* range is marked; without a location the non-migratable ones leave their *)
(* groups.                                                                 *)
UnassignNonMigratable(S, r) ==
    FoldSet(LAMBDA p, v : uvm_range_group_assign_range(v, RgNone, p, p), S,
            {p \in PagesIn(r) : ~uvm_range_group_address_migratable(p)})

SetPreferred(w, r, loc) ==
    IF r.pref = loc THEN w ELSE
    LET marked == MarkMigrated(w.s, PagesIn(r)) IN
    [w EXCEPT !.r = (@ \ {r}) \union {[r EXCEPT !.pref = loc, !.lite = calc_uvm_lite_gpus_mask(loc, r.acc)]},
              !.s = IF loc = RgNone THEN UnassignNonMigratable(marked, r) ELSE marked]

uvm_va_range_set_preferred_location(r, loc) ==
    \/ r.pref = loc
    \/ loc = RgNone
    \/ uvm_range_group_all_migratable(r.start, r.end)
    \/ calc_uvm_lite_gpus_mask(loc, r.acc) \subseteq RgAccess[loc]

(* preferred_location_set: the ranges in order, up to the first error.     *)
preferred_location_set(w, a, b, loc) ==
    LET C == Contig(w.r, a, b)
        faults(r) == loc \in RgFaultable
                     /\ ~uvm_range_group_all_migratable(Max({a, r.start}), Min({b, r.end}))
        bad == {r \in C : faults(r) \/ ~uvm_va_range_set_preferred_location(r, loc)}
        done == {r \in C : \A q \in bad : r.start < q.start}
        set == FoldSet(LAMBDA r, v : SetPreferred(v, r, loc), w, done)
        marked == {r \in bad : (\A q \in bad : r.start <= q.start) /\ ~faults(r)}
    IN [w |-> [set EXCEPT !.s = MarkMigrated(@, UNION {PagesIn(r) : r \in marked})],
        ok |-> bad = {} /\ Covers(w.r, a, b)]

(* One split that fails (which: 1 or 2) ends the call.                     *)
SplitSpan(w, a, b, needed(_), which) ==
    LET one == IF SplitNeeded(w, a, needed) THEN uvm_va_range_split(w, a, which = 1) ELSE w
        stop == which = 1 /\ SplitNeeded(w, a, needed)
        two == IF SplitNeeded(one, b + 1, needed) THEN uvm_va_range_split(one, b + 1, which = 2) ELSE one
    IN [w |-> IF stop THEN one ELSE two,
        ok |-> ~stop /\ ~(which = 2 /\ SplitNeeded(one, b + 1, needed))]

(* Non-migratable pages of the span are moved under the downgraded lock.   *)
uvm_api_set_preferred_location(t, a, b, loc, which) ==
    LET needed(r) == r.pref # loc
        split == SplitSpan(RgWorld, a, b, needed, which)
        set == preferred_location_set(split.w, a, b, loc)
        settle == set.ok /\ loc # RgNone /\ ~uvm_range_group_all_migratable(a, b)
    IN
    /\ WriteLock
    /\ ~split.ok \/ which = 0
    /\ RgBecome(IF split.ok THEN set.w ELSE split.w)
    /\ RgGoto(t, IF split.ok /\ settle THEN [RgIdle EXCEPT !.at = "settle_preferred", !.todo = a..b] ELSE RgIdle)
    /\ UNCHANGED rgGroups

(* accessible_from is indexed by the preferred location: a non-migratable  *)
(* range without one reads past the array, with any outcome.               *)
uvm_va_range_set_accessed_by(r, proc) ==
    \/ uvm_range_group_all_migratable(r.start, r.end)
    \/ proc = RgCpu \/ proc \in RgFaultable
    \/ r.pref # RgNone /\ proc \in RgAccess[r.pref]

accessed_by_set(a, b, proc, set_bit, which, past) ==
    LET needed(r) == (proc \in r.acc) # set_bit
        split == SplitSpan(RgWorld, a, b, needed, which)
        C == Contig(split.w.r, a, b)
        bad == {r \in C : set_bit /\ ~uvm_va_range_set_accessed_by(r, proc) /\ ~(r.pref = RgNone /\ past)}
        done == {r \in C : \A q \in bad : r.start < q.start}
        acc(r) == IF set_bit THEN r.acc \union {proc} ELSE r.acc \ {proc}
        new(r) == [r EXCEPT !.acc = acc(r), !.lite = calc_uvm_lite_gpus_mask(r.pref, acc(r))]
    IN
    /\ WriteLock
    /\ ~split.ok \/ which = 0
    /\ RgBecome(IF ~split.ok THEN split.w ELSE
                [split.w EXCEPT !.r = (@ \ done) \union {new(r) : r \in done},
                                !.s = IF set_bit THEN @ ELSE MarkMigrated(@, UNION {PagesIn(r) : r \in done})])
    /\ UNCHANGED <<rgGroups, rgCall>>

(* uvm_va_range_unregister_gpu of every range: the location and the access *)
(* are taken back, and the pages resident there go to the CPU.             *)
uvm_va_range_unregister_gpu_managed(g) ==
    LET w == FoldSet(LAMBDA r, v : SetPreferred(v, r, RgNone), RgWorld, {r \in rgRanges : r.pref = g})
        acc(r) == r.acc \ {g}
    IN
    /\ WriteLock
    /\ \E r \in rgRanges : g \in {r.pref} \union r.acc
    /\ RgBecome([w EXCEPT !.r = {[r EXCEPT !.acc = acc(r), !.lite = calc_uvm_lite_gpus_mask(r.pref, acc(r))] : r \in @},
                          !.s = MarkMigrated(@, RgPage),
                          !.h = [p \in RgPage |-> IF @[p] = g THEN RgCpu ELSE @[p]]])
    /\ UNCHANGED <<rgGroups, rgCall>>

(***************************************************************************)
(* Range groups                                                            *)
(***************************************************************************)
uvm_api_create_range_group(g) ==
    /\ WriteLock /\ ~rgGroups[g].here
    /\ rgGroups' = [rgGroups EXCEPT ![g] = [here |-> TRUE, allow |-> TRUE]]
    /\ UNCHANGED <<rgRanges, rgBlocks, rgSpans, rgHome, rgCall>>

uvm_api_destroy_range_group(g) ==
    /\ WriteLock /\ rgGroups[g].here
    /\ rgGroups' = [rgGroups EXCEPT ![g] = [here |-> FALSE, allow |-> TRUE]]
    /\ rgSpans' = {n \in rgSpans : n.group # g}
    /\ UNCHANGED <<rgRanges, rgBlocks, rgHome, rgCall>>

(* Ranges of a non-migratable group need a preferred location; the pages   *)
(* move there once the lock is downgraded.                                 *)
uvm_api_set_range_group(t, g, a, b) ==
    LET migratable == IF g = RgNone THEN TRUE ELSE rgGroups[g].allow IN
    /\ WriteLock
    /\ g # RgNone => rgGroups[g].here
    /\ Covers(rgRanges, a, b)
    /\ ~migratable => \A r \in rgRanges : Overlaps(r, a, b) => r.pref # RgNone
    /\ rgSpans' = uvm_range_group_assign_range(rgSpans, g, a, b)
    /\ RgGoto(t, IF migratable THEN RgIdle ELSE [RgIdle EXCEPT !.at = "settle", !.todo = a..b])
    /\ UNCHANGED <<rgRanges, rgBlocks, rgGroups, rgHome>>

(***************************************************************************)
(* uvm_range_group_va_range_migrate, one block at a time: the pages of     *)
(* the block that are to be settled go to the preferred location of their  *)
(* range, populated if they were not.                                      *)
(***************************************************************************)
Unlocked(P) == \A t \in RgThread : rgCall[t].block \intersect P = {}
NextBlock(P) == LET p == Min(P)
                    r == CHOOSE x \in rgRanges : p \in PagesIn(x)
                IN [range |-> r, block |-> BlockOf(r, p), pages |-> P \intersect PagesIn(BlockOf(r, p))]
(* Pages that leave their preferred location mark their group's range.     *)
MakeResident(P, r, dst) ==
    /\ rgHome' = [p \in RgPage |-> IF p \in P THEN dst ELSE rgHome[p]]
    /\ rgSpans' = MarkMigrated(rgSpans, {p \in P : rgHome[p] = r.pref /\ rgHome[p] # dst /\ r.pref # RgNone})
    /\ rgBlocks' = uvm_va_range_block_create(rgBlocks, r, Min(P))

uvm_range_group_va_range_migrate(t) ==
    LET n == NextBlock(rgCall[t].todo) IN
    /\ Unlocked(PagesIn(n.block))
    /\ MakeResident(n.pages, n.range, n.range.pref)
    /\ UNCHANGED <<rgRanges, rgGroups>>

(* After set_range_group and set_preferred_location.  The latter looks at  *)
(* the migratability of the pages as it goes.                              *)
settle(t, fails) ==
    LET c == rgCall[t]
        skip == {p \in c.todo : c.at = "settle_preferred" /\ uvm_range_group_address_migratable(p)}
        left == c.todo \ skip
    IN
    /\ c.at \in {"settle", "settle_preferred"}
    /\ IF c.todo = {} \/ fails THEN RgGoto(t, RgIdle) /\ UNCHANGED <<rgRanges, rgBlocks, rgGroups, rgSpans, rgHome>>
       ELSE IF Min(c.todo) \in skip
       THEN RgGoto(t, [c EXCEPT !.todo = @ \ {Min(c.todo)}]) /\ UNCHANGED <<rgRanges, rgBlocks, rgGroups, rgSpans, rgHome>>
       ELSE LET n == NextBlock({p \in left : \A q \in skip : q < Min(left) \/ p < q}) IN
            /\ Unlocked(PagesIn(n.block))
            /\ MakeResident(n.pages, n.range, n.range.pref)
            /\ RgGoto(t, [c EXCEPT !.todo = @ \ n.pages])
            /\ UNCHANGED <<rgRanges, rgGroups>>

(***************************************************************************)
(* uvm_range_group_set_migration_policy.  Preventing: the flag, then the   *)
(* migrated list moves to a list of the thread, and its elements are       *)
(* settled one by one; an error puts back what is left.                    *)
(***************************************************************************)
uvm_api_allow_migration_range_groups(g) ==
    /\ rgGroups[g].here
    /\ rgGroups' = [rgGroups EXCEPT ![g].allow = TRUE]
    /\ UNCHANGED <<rgRanges, rgBlocks, rgSpans, rgHome, rgCall>>

uvm_api_prevent_migration_range_groups(t, g) ==
    /\ RgAt(t, "idle") /\ rgGroups[g].here
    /\ rgGroups' = [rgGroups EXCEPT ![g].allow = FALSE]
    /\ RgGoto(t, [RgIdle EXCEPT !.at = "grab", !.group = g])
    /\ UNCHANGED <<rgRanges, rgBlocks, rgSpans, rgHome>>

prevent_grab(t) ==
    LET c == rgCall[t] IN
    /\ c.at = "grab"
    /\ rgSpans' = {IF n.group = c.group /\ n.list = "migrated" THEN [n EXCEPT !.list = t] ELSE n : n \in rgSpans}
    /\ RgGoto(t, [c EXCEPT !.at = "pop"])
    /\ UNCHANGED <<rgRanges, rgBlocks, rgGroups, rgHome>>

prevent_pop(t) ==
    LET c == rgCall[t]
        mine == {n \in rgSpans : n.list = t}
    IN
    /\ c.at = "pop"
    /\ IF mine = {} THEN RgGoto(t, [c EXCEPT !.at = "prevented"]) /\ UNCHANGED rgSpans
       ELSE \E n \in mine :
            /\ rgSpans' = (rgSpans \ {n}) \union {[n EXCEPT !.list = "no"]}
            /\ RgGoto(t, [c EXCEPT !.at = "prevent", !.cur = PagesIn(n), !.todo = PagesIn(n)])
    /\ UNCHANGED <<rgRanges, rgBlocks, rgGroups, rgHome>>

PreventAllowed(r) ==
    r.pref # RgNone /\ r.pref \notin RgFaultable /\ r.lite \subseteq RgAccess[r.pref]

uvm_range_group_set_migration_policy(t, fails) ==
    LET c == rgCall[t]
        r == NextBlock(c.todo).range
    IN
    /\ c.at = "prevent"
    /\ IF c.todo = {} THEN RgGoto(t, [c EXCEPT !.at = "pop", !.cur = {}]) /\ UNCHANGED <<rgRanges, rgBlocks, rgGroups, rgSpans, rgHome>>
       ELSE IF fails \/ ~PreventAllowed(r)
       THEN /\ rgSpans' = {IF n.list = t \/ PagesIn(n) = c.cur THEN [n EXCEPT !.list = "migrated"] ELSE n : n \in rgSpans}
            /\ RgGoto(t, RgIdle)
            /\ UNCHANGED <<rgRanges, rgBlocks, rgGroups, rgHome>>
       ELSE /\ uvm_range_group_va_range_migrate(t)
            /\ RgGoto(t, [c EXCEPT !.todo = @ \ NextBlock(c.todo).pages])

prevented(t) ==
    /\ RgAt(t, "prevented")
    /\ RgGoto(t, RgIdle)
    /\ UNCHANGED <<rgRanges, rgBlocks, rgGroups, rgSpans, rgHome>>

(***************************************************************************)
(* Faults.  The check whether the page may migrate and the migration are   *)
(* under the lock of the block, which does not exclude a change of the     *)
(* group's flag.  Where the page goes is in VaBlock: here it may go to the *)
(* faulting processor or stay.                                             *)
(***************************************************************************)
uvm_va_block_cpu_fault(t, p, proc) ==
    \E r \in uvm_va_range_find(rgRanges, p) :
        /\ RgAt(t, "idle") /\ r.vma # RgNone
        /\ Unlocked(PagesIn(BlockOf(r, p)))
        /\ uvm_range_group_address_migratable(p)
        /\ rgBlocks' = uvm_va_range_block_create(rgBlocks, r, p)
        /\ RgGoto(t, [RgIdle EXCEPT !.at = "fault", !.todo = {p}, !.dst = proc, !.block = PagesIn(BlockOf(r, p))])
        /\ UNCHANGED <<rgRanges, rgGroups, rgSpans, rgHome>>

fault_service(t, stays) ==
    LET c == rgCall[t]
        p == Min(c.todo)
        r == CHOOSE x \in rgRanges : p \in PagesIn(x)
    IN
    /\ c.at = "fault"
    /\ stays => rgHome[p] # RgNone
    /\ MakeResident({p}, r, IF stays THEN rgHome[p] ELSE c.dst)
    /\ RgGoto(t, RgIdle)
    /\ UNCHANGED <<rgRanges, rgGroups>>

(***************************************************************************)
(* uvm_migrate of a span to dst: ranges in order, in each the intervals of *)
(* equal migratability, in each interval the blocks.  cur is the interval  *)
(* that is being moved.  An error leaves the loop over the intervals of    *)
(* its range; the loop over the ranges goes on.                            *)
(***************************************************************************)
uvm_api_migrate(t, a, b, dst) ==
    /\ RgAt(t, "idle")
    /\ RgGoto(t, [RgIdle EXCEPT !.at = "migrate", !.todo = a..b, !.dst = dst])
    /\ UNCHANGED <<rgRanges, rgBlocks, rgGroups, rgSpans, rgHome>>

uvm_migrate(t) ==
    LET c == rgCall[t]
        p == Min(c.todo)
        R == uvm_va_range_find(rgRanges, p)
        r == CHOOSE x \in R : TRUE
        same(q) == uvm_range_group_address_migratable(q) = uvm_range_group_address_migratable(p)
        interval == {q \in c.todo \intersect PagesIn(r) : \A s \in p..q : same(s)}
    IN
    /\ c.at = "migrate" /\ c.cur = {} /\ c.todo # {}
    /\ IF R = {} THEN RgGoto(t, [c EXCEPT !.todo = {}])
       ELSE IF ~uvm_range_group_address_migratable(p)
       THEN RgGoto(t, [c EXCEPT !.todo = @ \ interval])
       ELSE IF c.dst \in r.lite /\ c.dst # r.pref
       THEN RgGoto(t, [c EXCEPT !.todo = @ \ PagesIn(r)])
       ELSE RgGoto(t, [c EXCEPT !.todo = @ \ interval, !.cur = interval])
    /\ UNCHANGED <<rgRanges, rgBlocks, rgGroups, rgSpans, rgHome>>

uvm_va_range_migrate(t, fails) ==
    LET c == rgCall[t]
        n == NextBlock(c.cur)
    IN
    /\ c.at = "migrate" /\ c.cur # {}
    /\ IF fails THEN /\ RgGoto(t, [c EXCEPT !.cur = {}, !.todo = @ \ PagesIn(n.range)])
                     /\ UNCHANGED <<rgBlocks, rgSpans, rgHome>>
       ELSE /\ Unlocked(PagesIn(n.block))
            /\ MakeResident(n.pages, n.range, c.dst)
            /\ RgGoto(t, [c EXCEPT !.cur = @ \ n.pages])
    /\ UNCHANGED <<rgRanges, rgGroups>>

migrated(t) ==
    /\ RgAt(t, "migrate") /\ rgCall[t].cur = {} /\ rgCall[t].todo = {}
    /\ RgGoto(t, RgIdle)
    /\ UNCHANGED <<rgRanges, rgBlocks, rgGroups, rgSpans, rgHome>>

RgStep ==
    \/ \E s \in rgSetup.maps : uvm_mmap(s[1], s[2])
    \/ \E s \in rgSetup.spans :
        \/ \E t \in rgSetup.threads :
            \/ \E loc \in rgSetup.locations, which \in 0..2 :
                    uvm_api_set_preferred_location(t, s[1], s[2], loc, which)
            \/ \E g \in rgSetup.groups \union {RgNone} : uvm_api_set_range_group(t, g, s[1], s[2])
            \/ \E dst \in rgSetup.targets : uvm_api_migrate(t, s[1], s[2], dst)
        \/ \E proc \in rgSetup.accessors, set, past \in BOOLEAN, which \in 0..2 :
                accessed_by_set(s[1], s[2], proc, set, which, past)
    \/ \E p \in RgPage, b \in BOOLEAN : uvm_vm_open_managed(p, b) \/ uvm_vm_close_managed(p, b)
    \/ uvm_api_clean_up_zombie_resources
    \/ \E g \in RgGpu : uvm_va_range_unregister_gpu_managed(g)
    \/ \E g \in rgSetup.groups :
        \/ uvm_api_create_range_group(g) \/ uvm_api_destroy_range_group(g)
        \/ uvm_api_allow_migration_range_groups(g)
        \/ \E t \in rgSetup.threads : uvm_api_prevent_migration_range_groups(t, g)
    \/ \E t \in rgSetup.threads :
        \/ prevent_grab(t) \/ prevent_pop(t) \/ prevented(t) \/ uvm_migrate(t) \/ migrated(t)
        \/ \E fails \in BOOLEAN : \/ settle(t, fails)
                                  \/ uvm_range_group_set_migration_policy(t, fails)
                                  \/ uvm_va_range_migrate(t, fails)
                                  \/ fault_service(t, fails)
        \/ \E p \in RgPage, proc \in {RgCpu} \union RgFaultable : uvm_va_block_cpu_fault(t, p, proc)

RgNext == RgStep /\ UNCHANGED rgSetup

RgSpec == RgInit /\ [][RgNext]_rgVars

(***************************************************************************)
(* Properties                                                              *)
(***************************************************************************)
(* Whatever sequence of mmap, splits, policies, failures and teardown has  *)
(* happened, the ranges are disjoint, each block is exactly the piece its  *)
(* range has at that address (so uvm_va_range_block_index finds it), the   *)
(* pages are in blocks, and the range group ranges are disjoint, inside    *)
(* ranges and of groups that exist.                                        *)
RangesTile ==
    /\ \A r, q \in rgRanges : r # q => ~Overlaps(r, q.start, q.end)
    /\ \A b \in rgBlocks : \E r \in uvm_va_range_find(rgRanges, b.start) : b = BlockOf(r, b.start)
    /\ \A p \in RgPage : rgHome[p] # RgNone => \E b \in rgBlocks : p \in PagesIn(b)
    /\ \A n, m \in rgSpans : n # m => ~Overlaps(n, m.start, m.end)
    /\ \A n \in rgSpans : rgGroups[n.group].here /\ Covers(rgRanges, n.start, n.end)

(* uvm_range_group_set_migration_policy visits only the ranges of the      *)
(* group on its migrated list: a range off the list has all its pages at   *)
(* their preferred location, whatever faults, migrations and policies did  *)
(* since it was taken off, or a thread is just moving them there.          *)
OffTheListIsSettled ==
    \A n \in rgSpans : n.list = "no" =>
        \/ \E t \in RgThread : RgAt(t, "prevent") /\ PagesIn(n) \subseteq rgCall[t].cur
        \/ \A p \in PagesIn(n) : \A r \in uvm_va_range_find(rgRanges, p) : rgHome[p] = r.pref

(* A policy set on a span changes no policy outside the span, whether its  *)
(* splits succeed or not: uvm_va_range_split gives both halves the         *)
(* policies of the original.                                               *)
PolicyAt(R, p) == {[pref |-> r.pref, acc |-> r.acc, lite |-> r.lite, vma |-> r.vma] : r \in uvm_va_range_find(R, p)}
SetsPolicy(s, which) ==
    \/ \E t \in rgSetup.threads, loc \in rgSetup.locations :
            uvm_api_set_preferred_location(t, s[1], s[2], loc, which)
    \/ \E proc \in rgSetup.accessors, set, past \in BOOLEAN :
            accessed_by_set(s[1], s[2], proc, set, which, past)
PolicyWithinSpan ==
    [][\A s \in rgSetup.spans :
        (\E p \in RgPage \ Span(s[1], s[2]) : PolicyAt(rgRanges', p) # PolicyAt(rgRanges, p))
        => \A which \in 0..2 : ~SetsPolicy(s, which)]_rgVars

(* uvm.h on UvmPreventMigrationRangeGroups: it "Migrates all pages         *)
(* associated with the specified range groups to their preferred location  *)
(* and prevents them from being migrated on faults".  When a call has      *)
(* succeeded, and no other is in progress, the pages are there.            *)
PreventedPagesStay ==
    \A t \in RgThread :
        /\ RgAt(t, "prevented")
        /\ \A u \in RgThread \ {t} : rgCall[u].group # rgCall[t].group
        /\ ~rgGroups[rgCall[t].group].allow
        => \A n \in rgSpans : n.group = rgCall[t].group =>
            \A p \in PagesIn(n) : \A r \in uvm_va_range_find(rgRanges, p) : rgHome[p] = r.pref

(* Ranges cover what is mapped, and a page that left its group's list of   *)
(* migrated ranges is where the group wants it.                            *)
RangesExact == RangesTile /\ OffTheListIsSettled
================================================================================
