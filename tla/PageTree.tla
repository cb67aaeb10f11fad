------------------------------- MODULE PageTree -------------------------------
(***************************************************************************)
(* A GPU's page tree (uvm8_mmu.c): directories and page tables that are    *)
(* counted, shared by ranges of different page sizes, allocated with the   *)
(* tree's lock released, written by pushes that the GPU executes later,    *)
(* and freed while the GPU may still walk them.                            *)
(*                                                                         *)
(* Three levels: the root, directories whose entries hold a 2M page or a   *)
(* table of big and a table of small pages, and those tables.  A directory *)
(* is named by the memory it is allocated in.  PMM and the GPU's walker    *)
(* are external: freed memory gets a new owner once the tree's tracker has *)
(* completed, and entries are cached until they are invalidated.           *)
(***************************************************************************)
EXTENDS Integers, FiniteSets, Sequences, SequencesExt, FiniteSetsExt, Functions

CONSTANTS PtThread,   \* threads that get and put ranges
          PtMem,      \* pieces of memory for directories
          PtRoot,     \* the root's
          PtNone,     \* NULL
          PtWant,     \* [PtThread -> the vectors of ranges it asks for: [size, path, first, last]]
          PtMaxGets,  \* bound on the ranges they get
          PtSetups    \* the setups to explore, see PtAssumption

(* sys: directories are in the CPU's memory (uvm_page_table_location).     *)
ASSUME PtAssumption ==
    /\ PtRoot \in PtMem /\ PtNone \notin PtMem /\ PtMaxGets \in Nat
    /\ \A s \in PtSetups : s.sys \in BOOLEAN
    /\ \A t \in PtThread : \A v \in PtWant[t] : v # <<>> /\ \A w \in ToSet(v) :
         w.size \in {"2m", "big", "small"} /\ w.first <= w.last

PtIndex == 0..1

VARIABLES
    ptDir,     \* [PtMem -> uvm_page_directory_t and who owns the memory]
    ptThread,  \* [PtThread -> [at, want, cache, depth, held, gets]]
    ptQueue,   \* what the GPU has to do: the parts of pushes, [op, dirs, write, depth]
    ptGpu,     \* [mem, cached, bad]: memory, the entries the GPU has cached, a walk that met no directory
    ptSetup

ptVars == <<ptDir, ptThread, ptQueue, ptGpu, ptSetup>>

Empty_entries == [i \in PtIndex |-> {}]
NoDir == [use |-> "free", depth |-> 0, parent |-> PtNone, index |-> 0, size |-> "dir", refs |-> 0, entries |-> Empty_entries, after |-> 0]
Junk == [i \in PtIndex |-> {PtNone}]
IdleGet == [at |-> "idle", want |-> PtNone, rest |-> <<>>, cache |-> [d \in 0..1 |-> PtNone], depth |-> 0]

(* uvm_page_tree_init.                                                     *)
PtInit ==
    /\ ptDir = [m \in PtMem |-> IF m = PtRoot THEN [NoDir EXCEPT !.use = "tree"] ELSE NoDir]
    /\ ptThread = [t \in PtThread |-> IdleGet @@ [held |-> {}, gets |-> 0]]
    /\ ptQueue = <<>>
    /\ ptGpu = [mem |-> [m \in PtMem |-> IF m = PtRoot THEN Empty_entries ELSE Junk], cached |-> {}, bad |-> FALSE]
    /\ ptSetup \in PtSetups

(* page_table_depth: 2M pages are entries of a directory of level 1.       *)
page_table_depth(size) == IF size = "2m" THEN 1 ELSE 2

(***************************************************************************)
(* Host entries                                                            *)
(***************************************************************************)
ChildAt(dirs, m, i, size) == {c \in dirs[m].entries[i] : dirs[c].size = size}
EntrySize(depth, size) == IF depth = 0 THEN "dir" ELSE size

host_pde_write(dirs, c, m, i, size) ==
    [dirs EXCEPT ![c] = [NoDir EXCEPT !.use = "tree", !.depth = dirs[m].depth + 1, !.parent = m, !.index = i,
                                      !.size = EntrySize(dirs[m].depth, size)],
                 ![m].entries[i] = @ \union {c}, ![m].refs = @ + 1]

host_pde_clear(dirs, c) ==
    LET m == dirs[c].parent
    IN  [dirs EXCEPT ![m].entries[dirs[c].index] = @ \ {c}, ![m].refs = @ - 1]

(* phys_mem_deallocate: PMM keeps a chunk until the tree's tracker has     *)
(* completed, here the first n parts of the queue; the CPU's pages are     *)
(* free at once.                                                           *)
phys_mem_deallocate(dirs, S, n) ==
    [m \in PtMem |-> IF m \in S THEN [NoDir EXCEPT !.after = IF ptSetup.sys THEN 0 ELSE n] ELSE dirs[m]]

(* What a push writes into the entry of directory c: all of its parent's   *)
(* children there.                                                         *)
pde_write(dirs, m, i) == [dir |-> m, index |-> i, bits |-> dirs[m].entries[i]]

(***************************************************************************)
(* Getting entries                                                         *)
(***************************************************************************)
PtGoto(t, at) == ptThread' = [ptThread EXCEPT ![t].at = at]

PtRoom == SumFunction([u \in PtThread |-> ptThread[u].gets]) < PtMaxGets

(* uvm_page_table_range_vec_init gets range after range and waits once;    *)
(* uvm_page_tree_get_ptes gets one.                                        *)
uvm_page_table_range_vec_init(t, v) ==
    /\ ptThread[t].at = "idle" /\ PtRoom /\ ptThread[t].held = {}
    /\ ptThread' = [ptThread EXCEPT ![t].at = "try", ![t].want = Head(v), ![t].rest = Tail(v), ![t].gets = @ + 1]
    /\ UNCHANGED <<ptDir, ptQueue, ptGpu, ptSetup>>

(* The walk of try_get_ptes, one level: missing directories are taken from *)
(* the caller's cache.                                                     *)
WalkLevel(walk, t) ==
    LET w == ptThread[t].want
        size == EntrySize(walk.depth, w.size)
        i == w.path[walk.depth + 1]
        child == ChildAt(walk.dirs, walk.dir, i, size)
        spare == ptThread[t].cache[walk.depth]
    IN  IF walk.missing >= 0 \/ walk.depth = page_table_depth(w.size) THEN walk
        ELSE IF child # {} THEN [walk EXCEPT !.dir = CHOOSE c \in child : TRUE, !.depth = @ + 1]
        ELSE IF spare = PtNone THEN [walk EXCEPT !.missing = walk.depth]
        ELSE [walk EXCEPT !.dirs = host_pde_write(@, spare, walk.dir, i, w.size), !.used = Append(@, spare),
                          !.dir = spare, !.depth = @ + 1]

PtWalk(t) == WalkLevel(WalkLevel([dirs |-> ptDir, dir |-> PtRoot, depth |-> 0, used |-> <<>>, missing |-> -1], t), t)

(* Directories that the tree does not need any more go back.               *)
free_unused_directories(dirs, t, used) ==
    phys_mem_deallocate(dirs, {ptThread[t].cache[d] : d \in 0..1} \ (used \union {PtNone}), Len(ptQueue))

PushOf(init, write, depth) ==
    <<[op |-> "init", dirs |-> init, write |-> {}, depth |-> 0], [op |-> "write", dirs |-> {}, write |-> write, depth |-> 0],
      [op |-> "invalidate", dirs |-> {}, write |-> {}, depth |-> depth]>>

(* Mutant: only the lowest of the new entries is invalidated.              *)
write_invalidates_lowest(dirs, used) ==
    IF used = <<>> THEN ptQueue
    ELSE ptQueue \o PushOf(ToSet(used), {pde_write(dirs, dirs[c].parent, dirs[c].index) : c \in ToSet(used)},
                           dirs[used[Len(used)]].depth)

(* write_gpu_state: new directories are cleared, then linked, then the     *)
(* highest level that changed is invalidated.                              *)
write_gpu_state(dirs, used) ==
    IF used = <<>> THEN ptQueue
    ELSE ptQueue \o PushOf(ToSet(used), {pde_write(dirs, dirs[c].parent, dirs[c].index) : c \in ToSet(used)},
                           dirs[dirs[used[1]].parent].depth)

(* page_table_range_init: a count for every entry of the range.            *)
page_table_range_init(dirs, m, w) == [dirs EXCEPT ![m].refs = @ + 1 + w.last - w.first]

(* The next range of the vector, or the wait for all of them.              *)
GotRange(th, r) ==
    [th EXCEPT !.at = IF th.rest = <<>> THEN "wait" ELSE "try", !.want = IF th.rest = <<>> THEN PtNone ELSE Head(th.rest),
               !.rest = IF @ = <<>> THEN @ ELSE Tail(@), !.cache = IdleGet.cache, !.depth = 0, !.held = @ \union {r}]

(* Under the tree's lock.  A walk that misses a directory undoes its host  *)
(* entries and goes to allocate one.                                       *)
try_get_ptes(t) ==
    LET walk == PtWalk(t)
        w == ptThread[t].want
    IN  /\ ptThread[t].at = "try"
        /\ IF walk.missing >= 0
           THEN /\ ptThread' = [ptThread EXCEPT ![t].at = "allocate", ![t].depth = walk.missing]
                /\ UNCHANGED <<ptDir, ptQueue>>
           ELSE /\ ptDir' = page_table_range_init(free_unused_directories(walk.dirs, t, ToSet(walk.used)), walk.dir, w)
                /\ ptQueue' = write_gpu_state(walk.dirs, walk.used)
                /\ ptThread' = [ptThread EXCEPT ![t] = GotRange(@, [table |-> walk.dir, first |-> w.first, last |-> w.last,
                                                                     linked |-> TRUE])]
        /\ UNCHANGED <<ptGpu, ptSetup>>

(* phys_mem_allocate: the memory holds anything.  Pieces that cannot be    *)
(* told apart are not tried twice.                                         *)
phys_mem_allocate(m) ==
    /\ ptDir[m].use = "free"
    /\ m = CHOOSE n \in PtMem : ptDir[n] = ptDir[m] /\ ptGpu.mem[n] = ptGpu.mem[m]
                              /\ {e \in ptGpu.cached : n \in e.bits \union {e.dir}}
                                 = {e \in ptGpu.cached : m \in e.bits \union {e.dir}}
    /\ ptDir' = [ptDir EXCEPT ![m].use = "cached"]

(* allocate_directory, without the lock.                                   *)
allocate_directory(t) ==
    /\ ptThread[t].at = "allocate"
    /\ \E m \in PtMem :
         /\ phys_mem_allocate(m)
         /\ ptThread' = [ptThread EXCEPT ![t].at = "try", ![t].cache[ptThread[t].depth] = m]
    /\ UNCHANGED <<ptQueue, ptGpu, ptSetup>>

(* No memory: the cached directories are freed under the lock, and the     *)
(* ranges that the vector already has are put.                             *)
get_ptes_fails(t) ==
    /\ ptThread[t].at = "allocate"
    /\ ptDir' = free_unused_directories(ptDir, t, {})
    /\ ptThread' = [ptThread EXCEPT ![t] = [IdleGet EXCEPT !.at = "undo"] @@ [held |-> @.held, gets |-> @.gets]]
    /\ UNCHANGED <<ptQueue, ptGpu, ptSetup>>

(* The tree's tracker is the last push, which waited for those before it.  *)
uvm_page_tree_wait(t) ==
    /\ ptThread[t].at = "wait" /\ ptQueue = <<>>
    /\ PtGoto(t, "idle")
    /\ UNCHANGED <<ptDir, ptQueue, ptGpu, ptSetup>>

(***************************************************************************)
(* Splitting and putting ranges                                            *)
(***************************************************************************)
(* The upper entries are counted again ...                                 *)
uvm_page_table_range_get_upper(t, r, middle) ==
    /\ ptThread[t].at = "idle" /\ r \in ptThread[t].held /\ middle \in r.first..(r.last - 1)
    /\ ptThread' = [ptThread EXCEPT ![t].at = "shrink", ![t].want = [range |-> r, last |-> middle],
                                   ![t].held = @ \union {[r EXCEPT !.first = middle + 1]}]
    /\ ptDir' = [ptDir EXCEPT ![r.table].refs = @ + (r.last - middle)]
    /\ UNCHANGED <<ptQueue, ptGpu, ptSetup>>

(* ... before the lower range gives them up.                               *)
uvm_page_table_range_shrink(t) ==
    /\ ptThread[t].at = "shrink"
    /\ LET r == ptThread[t].want.range
           last == ptThread[t].want.last
       IN  /\ ptDir' = [ptDir EXCEPT ![r.table].refs = @ - (r.last - last)]
           /\ ptThread' = [ptThread EXCEPT ![t].at = "idle", ![t].want = PtNone,
                                          ![t].held = (@ \ {r}) \union {[r EXCEPT !.last = last]}]
    /\ UNCHANGED <<ptQueue, ptGpu, ptSetup>>

(* uvm_page_tree_put_ptes_async: tables without references are unlinked,   *)
(* level by level, and freed once the push is issued; their memory belongs *)
(* to PMM, which hands it out with the tree's tracker.                     *)
PutLevel(put) ==
    IF put.dirs[put.dir].refs > 0 \/ put.dirs[put.dir].parent = PtNone THEN put
    ELSE LET m == put.dirs[put.dir].parent
             cleared == host_pde_clear(put.dirs, put.dir)
         IN  [put EXCEPT !.dirs = cleared, !.freed = @ \union {put.dir}, !.dir = m, !.depth = cleared[m].depth,
                         !.write = @ \union {pde_write(cleared, m, put.dirs[put.dir].index)}]

uvm_page_tree_put_ptes_async(t, r) ==
    LET start == [dirs |-> [ptDir EXCEPT ![r.table].refs = @ - (1 + r.last - r.first)],
                  dir |-> r.table, freed |-> {}, write |-> {}, depth |-> 0]
        put == PutLevel(PutLevel(start))
    IN  /\ ptThread[t].at \in {"idle", "undo"} /\ r \in ptThread[t].held
        /\ ptThread' = [ptThread EXCEPT ![t].held = @ \ {r}]
        /\ ptQueue' = IF put.freed = {} THEN ptQueue ELSE ptQueue \o PushOf({}, put.write, put.depth)
        /\ ptDir' = phys_mem_deallocate(put.dirs, put.freed, Len(ptQueue'))
        /\ UNCHANGED <<ptGpu, ptSetup>>

uvm_page_table_range_vec_deinit(t) ==
    /\ ptThread[t].at = "undo" /\ ptThread[t].held = {}
    /\ PtGoto(t, "wait")
    /\ UNCHANGED <<ptDir, ptQueue, ptGpu, ptSetup>>

(***************************************************************************)
(* A table below a 2M entry                                                *)
(***************************************************************************)
(* uvm_page_tree_alloc_table allocates before it takes the lock ...        *)
uvm_page_tree_alloc_table(t, r, size) ==
    /\ ptThread[t].at = "idle" /\ PtRoom /\ ptThread[t].held = {r} /\ ptDir[r.table].depth = 1
    /\ \E m \in PtMem :
         /\ phys_mem_allocate(m)
         /\ ptThread' = [ptThread EXCEPT ![t].at = "table", ![t].gets = @ + 1, ![t].cache[1] = m, ![t].want = [range |-> r, size |-> size]]
    /\ UNCHANGED <<ptQueue, ptGpu, ptSetup>>

(* ... waits for the tree's tracker, and links the table on the host only. *)
AllocTableLinks(t) ==
    LET w == ptThread[t].want
        m == ptThread[t].cache[1]
        there == ChildAt(ptDir, w.range.table, w.range.first, w.size)
        table == IF there = {} THEN m ELSE CHOOSE c \in there : TRUE
        dirs == IF there = {} THEN host_pde_write(ptDir, m, w.range.table, w.range.first, w.size)
                ELSE phys_mem_deallocate(ptDir, {m}, 0)
    IN  /\ ptThread[t].at = "table" /\ ptQueue = <<>>
        /\ ptDir' = [dirs EXCEPT ![table].refs = @ + 2]
        /\ ptThread' = [ptThread EXCEPT ![t].at = "idle", ![t].want = PtNone, ![t].cache[1] = PtNone,
                           ![t].held = @ \union {[table |-> table, first |-> 0, last |-> 1, linked |-> FALSE]}]
        /\ UNCHANGED <<ptQueue, ptGpu, ptSetup>>

(* The caller writes every entry of the table and then, with               *)
(* uvm_page_tree_write_pde, the directory's, which it invalidates.         *)
uvm_page_tree_write_pde(t, r) ==
    /\ ptThread[t].at = "idle" /\ r \in ptThread[t].held /\ ~r.linked
    /\ ptQueue' = ptQueue \o PushOf({r.table}, {pde_write(ptDir, ptDir[r.table].parent, ptDir[r.table].index)}, 1)
    /\ ptThread' = [ptThread EXCEPT ![t].at = "wait", ![t].held = (@ \ {r}) \union {[r EXCEPT !.linked = TRUE]}]
    /\ UNCHANGED <<ptDir, ptGpu, ptSetup>>

(***************************************************************************)
(* The GPU                                                                 *)
(***************************************************************************)
PtPop == /\ ptQueue' = Tail(ptQueue)
         /\ ptDir' = [m \in PtMem |-> [ptDir[m] EXCEPT !.after = IF @ = 0 THEN 0 ELSE @ - 1]]

GpuInitialises ==
    /\ ptQueue # <<>> /\ Head(ptQueue).op = "init"
    /\ ptGpu' = [ptGpu EXCEPT !.mem = [m \in PtMem |-> IF m \in Head(ptQueue).dirs THEN Empty_entries ELSE @[m]]]
    /\ PtPop /\ UNCHANGED <<ptThread, ptSetup>>

(* Entries are written in any order.                                       *)
GpuWrites ==
    /\ ptQueue # <<>> /\ Head(ptQueue).op = "write"
    /\ \E e \in Head(ptQueue).write :
         /\ ptGpu' = [ptGpu EXCEPT !.mem[e.dir][e.index] = e.bits]
         /\ IF Head(ptQueue).write = {e} THEN PtPop
            ELSE ptQueue' = [ptQueue EXCEPT ![1].write = @ \ {e}] /\ UNCHANGED ptDir
    /\ UNCHANGED <<ptThread, ptSetup>>

GpuInvalidates ==
    /\ ptQueue # <<>> /\ Head(ptQueue).op = "invalidate"
    /\ ptGpu' = [ptGpu EXCEPT !.cached = {e \in @ : e.depth < Head(ptQueue).depth}]
    /\ PtPop /\ UNCHANGED <<ptThread, ptSetup>>

(* The walker reads an entry of the root or of a directory that it knows,  *)
(* and keeps it.                                                           *)
GpuWalks(m, i) ==
    LET via == {e \in ptGpu.cached : m \in e.bits}
    IN  /\ m = PtRoot \/ via # {}
        /\ \A e \in ptGpu.cached : <<e.dir, e.index>> # <<m, i>>
        /\ ptGpu.mem[m][i] # {}
        /\ ptGpu' = [ptGpu EXCEPT !.bad = @ \/ ptGpu.mem[m] = Junk,
                        !.cached = @ \union {[dir |-> m, index |-> i, bits |-> ptGpu.mem[m][i],
                                             depth |-> IF m = PtRoot THEN 0 ELSE 1 + (CHOOSE e \in via : TRUE).depth]}]
        /\ UNCHANGED <<ptDir, ptThread, ptQueue, ptSetup>>

(* Freed memory is used for something else.                                *)
OtherOwnerWrites(m) ==
    /\ ptDir[m].use = "free" /\ ptDir[m].after = 0 /\ ptGpu.mem[m] # Junk
    /\ ptGpu' = [ptGpu EXCEPT !.mem[m] = Junk]
    /\ UNCHANGED <<ptDir, ptThread, ptQueue, ptSetup>>

PtNext ==
    \/ \E t \in PtThread :
         \/ \E v \in PtWant[t] : uvm_page_table_range_vec_init(t, v)
         \/ try_get_ptes(t) \/ allocate_directory(t) \/ get_ptes_fails(t) \/ uvm_page_tree_wait(t)
         \/ \E r \in ptThread[t].held :
              \/ \E middle \in PtIndex : uvm_page_table_range_get_upper(t, r, middle)
              \/ uvm_page_tree_put_ptes_async(t, r) \/ uvm_page_tree_write_pde(t, r)
              \/ \E size \in {"big", "small"} : uvm_page_tree_alloc_table(t, r, size)
         \/ uvm_page_table_range_vec_deinit(t) \/ uvm_page_table_range_shrink(t) \/ AllocTableLinks(t)
    \/ GpuInitialises \/ GpuWrites \/ GpuInvalidates
    \/ \E m \in PtMem : OtherOwnerWrites(m) \/ \E i \in PtIndex : GpuWalks(m, i)

PtSpec == PtInit /\ [][PtNext]_ptVars

(***************************************************************************)
(* Properties                                                              *)
(***************************************************************************)
PtRanges(m) == {<<t, r>> \in UNION {{t} \X ptThread[t].held : t \in PtThread} : r.table = m}

(* A directory counts its children and the entries of the ranges in it,    *)
(* and lives while it counts any; nothing else stays allocated.            *)
DirectoriesCounted ==
    /\ \A m \in PtMem : ptDir[m].use = "tree" =>
         /\ ptDir[m].refs = Cardinality(UNION {ptDir[m].entries[i] : i \in PtIndex})
              + MapThenSumSet(LAMBDA x : 1 + x[2].last - x[2].first, PtRanges(m))
         /\ m = PtRoot \/ (ptDir[m].refs > 0 /\ ptDir[ptDir[m].parent].use = "tree")
    /\ \A m \in PtMem : ptDir[m].use = "cached" => \E t \in PtThread : \E d \in 0..1 : ptThread[t].cache[d] = m

(* A thread that got its range finds it linked, and no entry the GPU has   *)
(* cached on the way predates the link.                                    *)
RangesReachable ==
    \A t \in PtThread : ptThread[t].at \in {"idle", "shrink"} => \A r \in ptThread[t].held :
      LET Linked(c) == LET m == ptDir[c].parent
                       IN  m = PtNone \/ (/\ c \in ptGpu.mem[m][ptDir[c].index]
                                          /\ \A e \in ptGpu.cached :
                                               e.dir = m /\ e.index = ptDir[c].index => c \in e.bits)
      IN  r.linked => Linked(r.table) /\ (ptDir[r.table].parent # PtNone => Linked(ptDir[r.table].parent))

(* The GPU never walks memory that is no directory: new directories are    *)
(* cleared before they are linked, and freed ones are unlinked and         *)
(* forgotten before their memory is used again.                            *)
WalksDirectoriesOnly == ptSetup.sys \/ ~ptGpu.bad

PageTreeExact == DirectoriesCounted /\ RangesReachable /\ WalksDirectoriesOnly
===============================================================================
