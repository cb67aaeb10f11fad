-------------------------------- MODULE Pmm --------------------------------
(***************************************************************************)
(* The GPU physical memory manager of UVM (uvm8_pmm_gpu.c): root chunks    *)
(* taken from and returned to PMA, split and merged on demand, handed out  *)
(* pinned, owned by VA blocks, and evicted when memory runs out, on behalf *)
(* of an allocation or of PMA's two eviction callbacks.                    *)
(*                                                                         *)
(* A chunk is the path to it: <<r>> is root chunk r, <<r, i>> its i-th     *)
(* subchunk.  The record pmm is everything list_lock protects, and each    *)
(* critical section of list_lock is one step; the operators that take and  *)
(* return such a record are the functions called inside the sections.  The *)
(* mutex pmm->lock and the VA block locks span steps; pma_lock is held in  *)
(* read mode exactly in the two places of PmaReader.                       *)
(*                                                                         *)
(* A thread is a record with a program counter and a stack of return       *)
(* addresses.  Its callers are those of uvm8_va_block.c (populating a      *)
(* block with a retry after eviction, killing and splitting a block) and   *)
(* of uvm8_mmu.c (kernel chunks).  PMA itself is external: it hands out    *)
(* free root chunks, never one of a range it is evicting.  Trackers and    *)
(* the bit locks that guard only them are left out.                        *)
(***************************************************************************)
EXTENDS Integers, FiniteSets, Sequences, SequencesExt

CONSTANTS
  Roots,        \* numbers of the root chunks, in address order
  Fanout,       \* subchunks of a split chunk
  Depth,        \* number of times a root chunk can be split
  Blocks,       \* VA blocks
  Clients,      \* threads of UVM's callers
  Pma,          \* the thread of PMA that calls the eviction callbacks
  Setups        \* the calls of each thread, the steps that may fail, and the
                \* root chunks that other clients of PMA have left free

None == <<>>

ASSUME PmmAssumption ==
  /\ IsFiniteSet(Roots) /\ Roots \subseteq Nat
  /\ Fanout \in Nat \ {0, 1} /\ Depth \in Nat
  /\ None \notin Blocks /\ Pma \notin Clients
  /\ \A s \in Setups :
       /\ \A t \in Clients : s.calls[t] \subseteq {"populate", "kernel", "evict_kernel",
                                                 "free_kernel", "kill", "split", "touch"}
       /\ s.calls[Pma] \subseteq {"pages", "range", "other"}
       /\ s.failures \subseteq {"split", "zero", "evict", "track", "timeout"}
       /\ s.free \subseteq Roots

Threads == Clients \cup {Pma}
Levels == 0 .. Depth
Chunks == UNION {{<<r>> \o s : r \in Roots, s \in [1 .. n -> 1 .. Fanout]} : n \in Levels}
ChunkStates == {"none", "PMA_OWNED", "FREE", "IS_SPLIT", "TEMP_PINNED", "ALLOCATED"}
Types == {"USER", "KERNEL"}

Level(c) == Len(c) - 1
IsRoot(c) == Level(c) = 0
RootOf(c) == SubSeq(c, 1, 1)
Parent(c) == Front(c)
Children(c) == {Append(c, i) : i \in 1 .. Fanout}
Under(c, a) == IsPrefix(a, c)

VARIABLES
  setup,       \* the setup of this execution
  pmm,         \* what list_lock protects
  pma,         \* root -> "free", "unpinned" or "pinned" by UVM, "other"
  pma_evicting,\* roots of the range PMA is evicting
  mutex,       \* holder of pmm->lock
  block_lock,  \* VA block -> holder of its lock
  chunks,      \* VA block -> its chunks on this GPU (gpu_state->chunks)
  kernel,      \* chunks held by page tables and other kernel users
  thread       \* thread -> its program counter, stack and locals

vars == <<setup, pmm, pma, pma_evicting, mutex, block_lock, chunks, kernel, thread>>

FreeList(ty, l) == <<"free", ty, l>>
Used == <<"va_block_used_root_chunks">>
Unused == <<"va_block_unused_root_chunks">>
ListNames == {FreeList(ty, l) : ty \in Types, l \in Levels} \cup {Used, Unused}

Idle == [pc |-> "idle", stack |-> <<>>, op |-> "none", block |-> None,
         level |-> 0, lvl |-> 0, type |-> "USER", evict |-> FALSE,
         chunk |-> None, root |-> None, victim |-> None, ok |-> TRUE,
         used |-> None, todo |-> {}, got |-> {}, left |-> 0]

uvm_pmm_gpu_init ==
  [state |-> [c \in Chunks |-> IF IsRoot(c) THEN "PMA_OWNED" ELSE "none"],
   allocated |-> [c \in Chunks |-> 0],
   pinned_leaf_chunks |-> [r \in Roots |-> 0],
   va_block |-> [c \in Chunks |-> None],
   type |-> [r \in Roots |-> "USER"],
   in_eviction |-> [r \in Roots |-> FALSE],
   list |-> [n \in ListNames |-> <<>>]]

Init ==
  /\ setup \in Setups
  /\ pmm = uvm_pmm_gpu_init
  /\ pma = [r \in Roots |-> IF r \in setup.free THEN "free" ELSE "other"]
  /\ pma_evicting = {}
  /\ mutex = None
  /\ block_lock = [b \in Blocks |-> None]
  /\ chunks = [b \in Blocks |-> {}]
  /\ kernel = {}
  /\ thread = [t \in Threads |-> Idle]

-----------------------------------------------------------------------------
(***************************************************************************)
(* What happens inside a critical section of list_lock.                    *)
(***************************************************************************)
TypeOf(p, c) == p.type[c[1]]
InEviction(p, c) == p.in_eviction[c[1]]

chunk_is_root_chunk_pinned(p, c) ==
  \/ p.state[RootOf(c)] = "TEMP_PINNED"
  \/ p.state[RootOf(c)] = "IS_SPLIT" /\ p.pinned_leaf_chunks[c[1]] > 0

OffLists(p, S) == [p EXCEPT !.list = [n \in ListNames |-> SelectSeq(@[n], LAMBDA d : d \notin S)]]
list_del_init(p, c) == OffLists(p, {c})

list_move_tail(p, c, n) ==
  LET q == list_del_init(p, c) IN [q EXCEPT !.list[n] = Append(@, c)]

chunk_pin(p, c) ==
  [p EXCEPT !.state[c] = "TEMP_PINNED",
            !.pinned_leaf_chunks[c[1]] = IF IsRoot(c) THEN @ ELSE @ + 1]

chunk_unpin(p, c, s) ==
  [p EXCEPT !.state[c] = s,
            !.pinned_leaf_chunks[c[1]] = IF IsRoot(c) THEN @ ELSE @ - 1]

UpdateRootList(p, c) ==
  IF TypeOf(p, c) # "USER" THEN p
  ELSE IF chunk_is_root_chunk_pinned(p, c) THEN list_del_init(p, RootOf(c))
  ELSE IF p.state[RootOf(c)] # "FREE" THEN list_move_tail(p, RootOf(c), Used)
  ELSE p

chunk_update_lists_locked(p, c) ==
  LET q == UpdateRootList(p, c)
  IN  CASE p.state[c] = "FREE" -> list_move_tail(q, c, FreeList(TypeOf(p, c), Level(c)))
        [] p.state[c] = "TEMP_PINNED" -> list_del_init(q, c)
        [] OTHER -> q

uvm_pmm_gpu_unpin_temp(p, c, b) ==
  LET q == chunk_unpin(p, c, "ALLOCATED")
  IN  chunk_update_lists_locked([q EXCEPT !.va_block[c] = b], c)

(* A free under a root chunk in eviction hands the chunk to the evictor. *)
chunk_free_locked(p, c) ==
  IF InEviction(p, c) THEN chunk_pin([p EXCEPT !.va_block[c] = None], c)
  ELSE LET q == IF IsRoot(c) THEN p ELSE [p EXCEPT !.allocated[Parent(c)] = @ - 1]
           u == IF q.state[c] = "TEMP_PINNED" THEN chunk_unpin(q, c, "FREE")
                ELSE [q EXCEPT !.state[c] = "FREE", !.va_block[c] = None]
       IN  chunk_update_lists_locked(u, c)

chunk_is_last_allocated_child(p, c) == ~IsRoot(c) /\ p.allocated[Parent(c)] = 1

\* Mutant: a pinned root counts as one pinned leaf before the split.
SplitCountsRoot(p, c) ==
  [p EXCEPT
    !.state = [d \in Chunks |-> IF d \in Children(c) THEN p.state[c]
                                ELSE IF d = c THEN "IS_SPLIT" ELSE @[d]],
    !.va_block = [d \in Chunks |-> IF d \in Children(c) THEN p.va_block[c]
                                   ELSE IF d = c THEN None ELSE @[d]],
    !.allocated[c] = Fanout,
    !.pinned_leaf_chunks[c[1]] = IF p.state[c] = "TEMP_PINNED" THEN @ + Fanout - 1 ELSE @]

split_gpu_chunk(p, c) ==
  LET pinned == p.state[c] = "TEMP_PINNED"
      new == IF IsRoot(c) THEN Fanout ELSE Fanout - 1
  IN  [p EXCEPT
        !.state = [d \in Chunks |-> IF d \in Children(c) THEN p.state[c]
                                    ELSE IF d = c THEN "IS_SPLIT" ELSE @[d]],
        !.va_block = [d \in Chunks |-> IF d \in Children(c) THEN p.va_block[c]
                                       ELSE IF d = c THEN None ELSE @[d]],
        !.allocated[c] = Fanout,
        !.pinned_leaf_chunks[c[1]] = IF pinned THEN @ + new ELSE @]

merge_gpu_chunk(p, c) ==
  LET first == Append(c, 1)
  IN  [p EXCEPT
        !.state = [d \in Chunks |-> IF d \in Children(c) THEN "none"
                                    ELSE IF d = c THEN p.state[first] ELSE @[d]],
        !.va_block = [d \in Chunks |-> IF d \in Children(c) THEN None
                                       ELSE IF d = c THEN p.va_block[first] ELSE @[d]],
        !.allocated[c] = 0,
        !.pinned_leaf_chunks[c[1]] =
           IF IsRoot(c) THEN 0
           ELSE IF p.state[first] = "TEMP_PINNED" THEN @ + 1 - Fanout ELSE @]

(* Frees c, and pins its siblings for a merge if it was the last one allocated. *)
free_or_prepare_for_merge(p, c) ==
  LET q == chunk_free_locked(p, c)
  IN  IF ~chunk_is_last_allocated_child(p, c) THEN q
      ELSE LET d == OffLists(q, Children(Parent(c)))
           IN  [d EXCEPT
                 !.state = [s \in Chunks |-> IF s \in Children(Parent(c)) THEN "TEMP_PINNED" ELSE @[s]],
                 !.pinned_leaf_chunks[c[1]] = @ + Fanout,
                 !.allocated[Parent(c)] = Fanout]

chunk_is_evictable(p, c) ==
  /\ p.state[RootOf(c)] # "PMA_OWNED"
  /\ ~chunk_is_root_chunk_pinned(p, c)
  /\ ~InEviction(p, c)

chunk_start_eviction(p, c) ==
  [list_del_init(p, c) EXCEPT !.in_eviction[c[1]] = TRUE]

(* The first chunk of a list, or None. *)
list_first_chunk(p, n) == IF p.list[n] = <<>> THEN None ELSE Head(p.list[n])

(* claim_free_chunk first drops the chunks in eviction at the head of the list. *)
SkipInEviction(p, n) ==
  LET keep == {i \in 1 .. Len(p.list[n]) : ~InEviction(p, p.list[n][i])}
      from == Min(keep \cup {Len(p.list[n]) + 1})
  IN  [p EXCEPT !.list[n] = SubSeq(@, from, Len(@))]

ClaimedChunk(p, ty, l) == list_first_chunk(SkipInEviction(p, FreeList(ty, l)), FreeList(ty, l))

claim_free_chunk(p, ty, l) ==
  LET q == SkipInEviction(p, FreeList(ty, l))
      c == list_first_chunk(q, FreeList(ty, l))
      a == IF IsRoot(c) THEN q ELSE [q EXCEPT !.allocated[Parent(c)] = @ + 1]
  IN  IF c = None THEN q ELSE chunk_update_lists_locked(chunk_pin(a, c), c)

(* The chunks under a root in the order chunk_walk_pre_order visits them. *)
Before(c, d) == \/ Under(d, c)
                \/ \E i \in 1 .. Len(c) : /\ i <= Len(d)
                                          /\ SubSeq(c, 1, i - 1) = SubSeq(d, 1, i - 1)
                                          /\ c[i] < d[i]

FirstUnder(p, r, s) ==
  LET found == {c \in Chunks : Under(c, r) /\ p.state[c] = s}
  IN  IF found = {} THEN None ELSE CHOOSE c \in found : \A d \in found : Before(c, d)

(* Pins every free chunk under r: the walk with pin_free_chunks_func. *)
pin_free_chunks(p, r) ==
  LET free == {c \in Chunks : Under(c, r) /\ p.state[c] = "FREE"}
  IN  [OffLists(p, free) EXCEPT
        !.state = [c \in Chunks |-> IF c \in free THEN "TEMP_PINNED" ELSE @[c]],
        !.pinned_leaf_chunks[r[1]] = @ + Cardinality(free \ {r}),
        !.allocated = [c \in Chunks |-> @[c] + Cardinality(free \cap Children(c))]]

(* Merges everything under root r, whose leaves are all in the same state. *)
uvm_pmm_gpu_merge_chunk_locked(p, r) ==
  LET leaf == CHOOSE c \in Chunks : /\ Under(c, r) /\ p.state[c] \notin {"none", "IS_SPLIT"}
                                    /\ \A i \in 2 .. Len(c) : c[i] = 1
  IN  [p EXCEPT
        !.state = [c \in Chunks |-> IF c = r THEN p.state[leaf]
                                    ELSE IF Under(c, r) THEN "none" ELSE @[c]],
        !.allocated = [c \in Chunks |-> IF Under(c, r) THEN 0 ELSE @[c]],
        !.pinned_leaf_chunks[r[1]] = 0]

root_chunk_update_eviction_list(p, c, n) ==
  IF chunk_is_root_chunk_pinned(p, c) \/ InEviction(p, c) THEN p
  ELSE list_move_tail(p, c, n)

-----------------------------------------------------------------------------
(***************************************************************************)
(* Threads.  Step moves thread t to the local state x; Call and Return     *)
(* push and pop the address to continue at.  A step that needs the mutex   *)
(* takes it if the thread does not have it, and the release of a lock is   *)
(* part of the step before it.                                             *)
(***************************************************************************)
At(t, pc) == thread[t].pc = pc
Step(t, x) == thread' = [thread EXCEPT ![t] = x]
Goto(x, pc) == [x EXCEPT !.pc = pc]
Call(x, pc, ret) == [x EXCEPT !.pc = pc, !.stack = <<ret>> \o @]
Return(x) == IF Head(x.stack) = "idle" THEN Idle
             ELSE [x EXCEPT !.pc = Head(x.stack), !.stack = Tail(@)]
Give(x, c) == [Return(x) EXCEPT !.chunk = c, !.lvl = 0]

(* pma_lock in read mode; a writer waits until there is no reader. *)
PmaReader(t) == thread[t].pc \in {"record_root", "pma_free"}

CanLock(t) == mutex \in {None, t}
Released(t) == IF mutex = t THEN None ELSE mutex

-----------------------------------------------------------------------------
(***************************************************************************)
(* alloc_chunk(type, level, evict): returns the pinned chunk or None.      *)
(***************************************************************************)
alloc_chunk(t) ==
  LET x == thread[t]
      c == ClaimedChunk(pmm, x.type, x.level)
  IN  /\ At(t, "alloc_chunk")
      /\ pmm' = claim_free_chunk(pmm, x.type, x.level)
      /\ Step(t, IF c # None THEN Give(x, c)
                 ELSE IF x.level = 0 THEN Goto(x, "alloc_root_chunk")
                 ELSE [Goto(x, "claim_bigger") EXCEPT !.lvl = x.level])
      /\ UNCHANGED <<pma, pma_evicting, mutex, block_lock, chunks, kernel>>

(* A chunk c has been pinned for the allocation: split it or return it. *)
Got(t, x, c) ==
  IF Level(c) = x.level THEN mutex' = Released(t) /\ Step(t, Give(x, c))
  ELSE UNCHANGED mutex /\ Step(t, [Goto(x, "split_down") EXCEPT !.chunk = c])

(* alloc_chunk_with_splits takes the mutex and looks for a free chunk of   *)
(* each size from the wanted one upwards.                                  *)
alloc_chunk_with_splits(t) ==
  LET x == thread[t]
      c == ClaimedChunk(pmm, x.type, x.lvl)
  IN  /\ At(t, "claim_bigger") /\ CanLock(t)
      /\ pmm' = claim_free_chunk(pmm, x.type, x.lvl)
      /\ \/ /\ c # None /\ Level(c) = x.level
            /\ mutex' = None
            /\ Step(t, Give(x, c))
         \/ /\ c # None /\ Level(c) # x.level
            /\ mutex' = t
            /\ Step(t, [Goto(x, "split_down") EXCEPT !.chunk = c])
         \/ /\ c = None
            /\ mutex' = t
            /\ Step(t, IF x.lvl > 0 THEN [x EXCEPT !.lvl = @ - 1] ELSE Goto(x, "alloc_root_chunk"))
      /\ UNCHANGED <<pma, pma_evicting, block_lock, chunks, kernel>>

(* The PMA call of alloc_root_chunk; PMA never evicts for it. *)
alloc_root_chunk(t) ==
  LET x == thread[t]
      available == {r \in Roots \ pma_evicting : pma[r] = "free"}
  IN  /\ At(t, "alloc_root_chunk")
      /\ \/ \E r \in available :
              /\ pma' = [pma EXCEPT ![r] = IF x.type = "KERNEL" THEN "pinned" ELSE "unpinned"]
              /\ Step(t, [Goto(x, "record_root") EXCEPT !.chunk = <<r>>])
         \/ /\ available = {}
            /\ Step(t, Goto(x, IF x.evict THEN "pick_root" ELSE "alloc_failed"))
            /\ UNCHANGED pma
      /\ UNCHANGED <<pmm, pma_evicting, mutex, block_lock, chunks, kernel>>

record_root(t) ==
  LET x == thread[t]
  IN  /\ At(t, "record_root")
      /\ pmm' = [pmm EXCEPT !.type[x.chunk[1]] = x.type, !.state[x.chunk] = "TEMP_PINNED"]
      /\ Got(t, x, x.chunk)
      /\ UNCHANGED <<pma, pma_evicting, block_lock, chunks, kernel>>

pick_root_chunk_to_evict(t) ==
  LET x == thread[t]
      c == IF pmm.list[Unused] # <<>> THEN Head(pmm.list[Unused]) ELSE list_first_chunk(pmm, Used)
  IN  /\ At(t, "pick_root") /\ CanLock(t)
      /\ mutex' = t
      /\ pmm' = IF c = None THEN pmm ELSE chunk_start_eviction(pmm, c)
      /\ Step(t, IF c = None THEN Goto(x, "alloc_failed")
                 ELSE [Call(x, "pin_free_chunks", "picked") EXCEPT !.root = c])
      /\ UNCHANGED <<pma, pma_evicting, block_lock, chunks, kernel>>

\* Mutant: memory that becomes kernel memory is not pinned in PMA.
EvictWithoutPin(t) ==
  LET x == thread[t]
      got == [x EXCEPT !.root = None]
  IN  /\ At(t, "picked")
      /\ \/ /\ ~x.ok
            /\ Step(t, [Goto(x, "alloc_failed") EXCEPT !.root = None, !.ok = TRUE])
            /\ UNCHANGED <<pmm, mutex>>
         \/ /\ x.ok
            /\ pmm' = [pmm EXCEPT !.type[x.root[1]] = x.type]
            /\ Got(t, got, x.root)
      /\ UNCHANGED <<pma, pma_evicting, block_lock, chunks, kernel>>

(* The rest of pick_and_evict_root_chunk: memory that turns into kernel    *)
(* memory is pinned in PMA, which PMA refuses for a range it is evicting.  *)
pick_and_evict_root_chunk(t) ==
  LET x == thread[t]
      got == [x EXCEPT !.root = None]
      r == x.root[1]
  IN  /\ At(t, "picked")
      /\ \/ /\ ~x.ok
            /\ Step(t, [Goto(x, "alloc_failed") EXCEPT !.root = None, !.ok = TRUE])
            /\ UNCHANGED <<pmm, pma, mutex>>
         \/ /\ x.ok /\ x.type = "USER"
            /\ Got(t, got, x.root)
            /\ UNCHANGED <<pmm, pma>>
         \/ /\ x.ok /\ x.type = "KERNEL" /\ r \in pma_evicting
            /\ Step(t, Call(x, "free_root_chunk", "pick_root"))
            /\ UNCHANGED <<pmm, pma, mutex>>
         \/ /\ x.ok /\ x.type = "KERNEL" /\ r \notin pma_evicting
            /\ pma' = [pma EXCEPT ![r] = "pinned"]
            /\ pmm' = [pmm EXCEPT !.type[r] = "KERNEL"]
            /\ Got(t, got, x.root)
      /\ UNCHANGED <<pma_evicting, block_lock, chunks, kernel>>

(* One level of the splitting loop: keep the first subchunk, free the rest. *)
split_down(t) ==
  LET x == thread[t]
      c == x.chunk
      Freed(p, i) == IF i = 1 THEN p ELSE chunk_free_locked(p, Append(c, i))
  IN  /\ At(t, "split_down")
      /\ \/ /\ pmm' = FoldLeft(Freed, split_gpu_chunk(pmm, c), [i \in 1 .. Fanout |-> i])
            /\ Got(t, x, Append(c, 1))
         \/ /\ "split" \in setup.failures
            /\ Step(t, Call(x, "merge_free", "alloc_failed"))
            /\ UNCHANGED <<pmm, mutex>>
      /\ UNCHANGED <<pma, pma_evicting, block_lock, chunks, kernel>>

alloc_failed(t) ==
  LET x == Give(thread[t], None)
  IN  /\ At(t, "alloc_failed")
      /\ mutex' = Released(t)
      /\ Step(t, IF x.level = 0 THEN x ELSE Call(x, "free_next_root", x.pc))
      /\ UNCHANGED <<pmm, pma, pma_evicting, block_lock, chunks, kernel>>

-----------------------------------------------------------------------------
(***************************************************************************)
(* free_chunk(chunk), its merging loop, and returning roots to PMA.        *)
(***************************************************************************)
free_chunk(t) ==
  LET x == thread[t]
  IN  /\ At(t, "free_chunk")
      /\ IF chunk_is_last_allocated_child(pmm, x.chunk)
         THEN Step(t, Goto(x, "lock_merge_free")) /\ UNCHANGED pmm
         ELSE /\ pmm' = chunk_free_locked(pmm, x.chunk)
              /\ Step(t, IF IsRoot(x.chunk) THEN Goto(x, "free_next_root") ELSE Return(x))
      /\ UNCHANGED <<pma, pma_evicting, mutex, block_lock, chunks, kernel>>

(* One iteration of free_chunk_with_merges, for free_chunk, which takes    *)
(* the mutex for it, or for a caller that has the mutex.                   *)
free_chunk_with_merges(t) ==
  LET x == thread[t]
      merging == chunk_is_last_allocated_child(pmm, x.chunk)
      freed == free_or_prepare_for_merge(pmm, x.chunk)
  IN  /\ At(t, "merge_free") \/ At(t, "lock_merge_free")
      /\ CanLock(t)
      /\ pmm' = IF merging THEN merge_gpu_chunk(freed, Parent(x.chunk)) ELSE freed
      /\ mutex' = IF At(t, "lock_merge_free") /\ ~merging THEN None ELSE t
      /\ Step(t, IF merging THEN [x EXCEPT !.chunk = Parent(@)]
                 ELSE IF At(t, "merge_free") THEN Return(x) ELSE Goto(x, "free_next_root"))
      /\ UNCHANGED <<pma, pma_evicting, block_lock, chunks, kernel>>

free_next_available_root_chunk(t) ==
  LET x == thread[t]
      ty == IF pmm.list[FreeList("USER", 0)] # <<>> THEN "USER" ELSE "KERNEL"
      c == list_first_chunk(pmm, FreeList(ty, 0))
  IN  /\ At(t, "free_next_root")
      /\ pmm' = IF c = None THEN pmm ELSE chunk_pin(list_del_init(pmm, c), c)
      /\ Step(t, IF c = None THEN Return(x) ELSE [Goto(x, "free_root_chunk") EXCEPT !.root = c])
      /\ UNCHANGED <<pma, pma_evicting, mutex, block_lock, chunks, kernel>>

(* free_root_chunk: PMM gives the chunk up, then PMA takes it. *)
free_root_chunk(t) ==
  LET x == thread[t]
  IN  /\ At(t, "free_root_chunk")
      /\ pmm' = chunk_unpin(pmm, x.root, "PMA_OWNED")
      /\ Step(t, Goto(x, "pma_free"))
      /\ UNCHANGED <<pma, pma_evicting, mutex, block_lock, chunks, kernel>>

pma_free(t) ==
  LET x == thread[t]
  IN  /\ At(t, "pma_free")
      /\ pma' = [pma EXCEPT ![x.root[1]] = "free"]
      /\ Step(t, [Return(x) EXCEPT !.root = None])
      /\ UNCHANGED <<pmm, pma_evicting, mutex, block_lock, chunks, kernel>>

-----------------------------------------------------------------------------
(***************************************************************************)
(* evict_root_chunk(root), called with the mutex held.                     *)
(***************************************************************************)
evict_root_chunk(t) ==
  LET x == thread[t]
  IN  /\ At(t, "pin_free_chunks") /\ CanLock(t)
      /\ mutex' = t
      /\ pmm' = pin_free_chunks(pmm, x.root)
      /\ Step(t, Goto(x, "find_block"))
      /\ UNCHANGED <<pma, pma_evicting, block_lock, chunks, kernel>>

(* Either a VA block still has a chunk under the root, and the mutex is    *)
(* dropped to evict it, or the whole root is pinned and can be merged.     *)
find_and_retain_va_block_to_evict(t) ==
  LET x == thread[t]
      c == FirstUnder(pmm, x.root, "ALLOCATED")
  IN  /\ At(t, "find_block") /\ CanLock(t)
      /\ \/ /\ c # None
            /\ mutex' = None
            /\ Step(t, [Goto(x, "evict_block") EXCEPT !.victim = pmm.va_block[c]])
            /\ UNCHANGED pmm
         \/ /\ c = None
            /\ mutex' = t
            /\ pmm' = [uvm_pmm_gpu_merge_chunk_locked(pmm, x.root) EXCEPT
                         !.in_eviction[x.root[1]] = FALSE]
            /\ Step(t, Return(x))
      /\ UNCHANGED <<pma, pma_evicting, block_lock, chunks, kernel>>

\* Mutant: the block keeps its pointers to the evicted chunks.
EvictKeepsPointers(t) ==
  LET x == thread[t]
      evicted == {c \in chunks[x.victim] : Under(c, x.root)}
  IN  /\ At(t, "evict_block")
      /\ block_lock[x.victim] = None
      /\ pmm' = [pmm EXCEPT
           !.state = [c \in Chunks |-> IF c \in evicted THEN "TEMP_PINNED" ELSE @[c]],
           !.va_block = [c \in Chunks |-> IF c \in evicted THEN None ELSE @[c]],
           !.pinned_leaf_chunks[x.root[1]] = @ + Cardinality(evicted \ {x.root})]
      /\ Step(t, [Goto(x, "find_block") EXCEPT !.victim = None])
      /\ UNCHANGED <<pma, pma_evicting, mutex, block_lock, chunks, kernel>>

(* uvm_va_block_evict_chunks under the block lock.  The copies to the CPU  *)
(* may fail before any chunk is given up, and adding the copies to the     *)
(* root's tracker may fail after all of them are.                          *)
uvm_va_block_evict_chunks(t) ==
  LET x == thread[t]
      evicted == {c \in chunks[x.victim] : Under(c, x.root)}
      Leave(pc) == Step(t, [Goto(x, pc) EXCEPT !.victim = None, !.ok = (pc = "find_block")])
  IN  /\ At(t, "evict_block")
      /\ block_lock[x.victim] = None
      /\ \/ /\ "evict" \in setup.failures
            /\ Leave("evict_error")
            /\ UNCHANGED <<pmm, chunks>>
         \/ /\ pmm' = [pmm EXCEPT
                 !.state = [c \in Chunks |-> IF c \in evicted THEN "TEMP_PINNED" ELSE @[c]],
                 !.va_block = [c \in Chunks |-> IF c \in evicted THEN None ELSE @[c]],
                 !.pinned_leaf_chunks[x.root[1]] = @ + Cardinality(evicted \ {x.root})]
            /\ chunks' = [chunks EXCEPT ![x.victim] = @ \ evicted]
            /\ \/ Leave("find_block")
               \/ "track" \in setup.failures /\ Leave("evict_error")
      /\ UNCHANGED <<pma, pma_evicting, mutex, block_lock, kernel>>

evict_error(t) ==
  LET x == thread[t]
  IN  /\ At(t, "evict_error") /\ CanLock(t)
      /\ mutex' = t
      /\ pmm' = chunk_update_lists_locked([pmm EXCEPT !.in_eviction[x.root[1]] = FALSE], x.root)
      /\ Step(t, Goto(x, "free_pinned"))
      /\ UNCHANGED <<pma, pma_evicting, block_lock, chunks, kernel>>

(* free_first_pinned_chunk_func: the walk restarts after every chunk. *)
free_first_pinned_chunk(t) ==
  LET x == thread[t]
      c == FirstUnder(pmm, x.root, "TEMP_PINNED")
  IN  /\ At(t, "free_pinned")
      /\ Step(t, IF c = None THEN Goto(x, "free_next_root")
                 ELSE [Call(x, "merge_free", "free_pinned") EXCEPT !.chunk = c])
      /\ UNCHANGED <<pmm, pma, pma_evicting, mutex, block_lock, chunks, kernel>>

-----------------------------------------------------------------------------
(***************************************************************************)
(* Callers.  va_space->lock keeps killing and splitting a block apart from *)
(* everything else its VA space does to it.                                *)
(***************************************************************************)
Busy(b) == \E t \in Clients : thread[t].block = b
Exclusive(b) == \E t \in Clients : thread[t].block = b /\ thread[t].op \in {"kill", "split"}

Start(t, op) == At(t, "idle") /\ op \in setup.calls[t]

(* A block with a root chunk has no other chunk. *)
HasRoom(b, l) == \A c \in chunks[b] : l > 0 /\ ~IsRoot(c)

(* block_populate_gpu_chunk takes the block lock and allocates without     *)
(* evicting.                                                               *)
block_populate_gpu_chunk(t, b, l) ==
  /\ Start(t, "populate") /\ ~Exclusive(b) /\ HasRoom(b, l)
  /\ block_lock[b] = None
  /\ block_lock' = [block_lock EXCEPT ![b] = t]
  /\ Step(t, [Call(Idle, "alloc_chunk", "populated") EXCEPT !.op = "populate", !.block = b, !.level = l])
  /\ UNCHANGED <<pmm, pma, pma_evicting, mutex, chunks, kernel>>

(* Without memory, block_alloc_gpu_chunk drops the block lock and tries    *)
(* again, with eviction.                                                   *)
block_alloc_gpu_chunk(t) ==
  LET x == thread[t]
  IN  /\ At(t, "populated")
      /\ \/ /\ x.chunk # None
            /\ chunks' = [chunks EXCEPT ![x.block] = @ \cup {x.chunk}]
            /\ block_lock' = [block_lock EXCEPT ![x.block] = None]
            /\ Step(t, [Goto(x, "unpin") EXCEPT !.used = x.chunk, !.chunk = None])
         \/ /\ x.chunk # None /\ "zero" \in setup.failures
            /\ Step(t, Call(x, "free_chunk", "unlock_block"))
            /\ UNCHANGED <<chunks, block_lock>>
         \/ /\ x.chunk = None
            /\ block_lock' = [block_lock EXCEPT ![x.block] = None]
            /\ Step(t, [Call(x, "alloc_chunk", "retried") EXCEPT !.evict = TRUE])
            /\ UNCHANGED chunks
      /\ UNCHANGED <<pmm, pma, pma_evicting, mutex, kernel>>

(* The second round uses the chunk, unless another thread has populated    *)
(* that part of the block meanwhile.                                       *)
block_retry_get_free_chunk(t) ==
  LET x == thread[t]
  IN  /\ At(t, "retried")
      /\ \/ x.chunk = None /\ Step(t, Idle) /\ UNCHANGED chunks
         \/ /\ x.chunk # None /\ block_lock[x.block] = None /\ HasRoom(x.block, x.level)
            /\ chunks' = [chunks EXCEPT ![x.block] = @ \cup {x.chunk}]
            /\ Step(t, [Goto(x, "unpin") EXCEPT !.used = x.chunk, !.chunk = None])
         \/ /\ x.chunk # None /\ block_lock[x.block] = None
            /\ x.level = 0 => ~HasRoom(x.block, x.level)
            /\ Step(t, Call(x, "free_chunk", "idle"))
            /\ UNCHANGED chunks
      /\ UNCHANGED <<pmm, pma, pma_evicting, mutex, block_lock, kernel>>

unlock_block(t) ==
  /\ At(t, "unlock_block")
  /\ block_lock' = [block_lock EXCEPT ![thread[t].block] = None]
  /\ Step(t, Idle)
  /\ UNCHANGED <<pmm, pma, pma_evicting, mutex, chunks, kernel>>

(* uvm_va_block_retry_deinit unpins the used chunk after the block lock is *)
(* dropped.                                                                *)
uvm_va_block_retry_deinit(t) ==
  LET x == thread[t]
  IN  /\ At(t, "unpin")
      /\ pmm' = uvm_pmm_gpu_unpin_temp(pmm, x.used, x.block)
      /\ Step(t, Idle)
      /\ UNCHANGED <<pma, pma_evicting, mutex, block_lock, chunks, kernel>>

(* uvm_pmm_gpu_alloc_kernel, by phys_mem_allocate_vidmem. *)
phys_mem_allocate_vidmem(t, l, evict) ==
  /\ Start(t, IF evict THEN "evict_kernel" ELSE "kernel")
  /\ Step(t, [Call(Idle, "alloc_chunk", "kernel_allocated") EXCEPT
                !.op = "kernel", !.level = l, !.type = "KERNEL", !.evict = evict])
  /\ UNCHANGED <<pmm, pma, pma_evicting, mutex, block_lock, chunks, kernel>>

uvm_pmm_gpu_alloc_kernel(t) ==
  LET c == thread[t].chunk
  IN  /\ At(t, "kernel_allocated")
      /\ IF c = None THEN UNCHANGED <<pmm, kernel>>
         ELSE pmm' = chunk_unpin(pmm, c, "ALLOCATED") /\ kernel' = kernel \cup {c}
      /\ Step(t, Idle)
      /\ UNCHANGED <<pma, pma_evicting, mutex, block_lock, chunks>>

phys_mem_deallocate_vidmem(t, c) ==
  /\ Start(t, "free_kernel") /\ c \in kernel
  /\ kernel' = kernel \ {c}
  /\ Step(t, [Call(Idle, "free_chunk", "idle") EXCEPT !.op = "free_kernel", !.chunk = c])
  /\ UNCHANGED <<pmm, pma, pma_evicting, mutex, block_lock, chunks>>

(* block_destroy_gpu_state: the block's memory is unused, then freed chunk *)
(* by chunk under the block lock.                                          *)
Kill(t, b) ==
  /\ Start(t, "kill") /\ ~Busy(b) /\ block_lock[b] = None /\ chunks[b] # {}
  /\ block_lock' = [block_lock EXCEPT ![b] = t]
  /\ pmm' = IF \E r \in Roots : chunks[b] = {<<r>>}
            THEN root_chunk_update_eviction_list(pmm, CHOOSE c \in chunks[b] : TRUE, Unused)
            ELSE pmm
  /\ Step(t, [Goto(Idle, "kill") EXCEPT !.op = "kill", !.block = b])
  /\ UNCHANGED <<pma, pma_evicting, mutex, chunks, kernel>>

block_destroy_gpu_state(t) ==
  LET x == thread[t]
  IN  /\ At(t, "kill")
      /\ \/ \E c \in chunks[x.block] :
              /\ chunks' = [chunks EXCEPT ![x.block] = @ \ {c}]
              /\ Step(t, [Call(x, "free_chunk", "kill") EXCEPT !.chunk = c])
              /\ UNCHANGED block_lock
         \/ /\ chunks[x.block] = {}
            /\ block_lock' = [block_lock EXCEPT ![x.block] = None]
            /\ Step(t, Idle)
            /\ UNCHANGED chunks
      /\ UNCHANGED <<pmm, pma, pma_evicting, mutex, kernel>>

(* uvm_va_block_split: the chunk at the split point is split under the     *)
(* mutex and its last subchunk moves to the new block.                     *)
Split(t, b) ==
  /\ Start(t, "split") /\ ~Busy(b) /\ block_lock[b] = None
  /\ block_lock' = [block_lock EXCEPT ![b] = t]
  /\ Step(t, [Goto(Idle, "split") EXCEPT !.op = "split", !.block = b])
  /\ UNCHANGED <<pmm, pma, pma_evicting, mutex, chunks, kernel>>

uvm_va_block_split(t, c, n) ==
  LET x == thread[t]
      q == split_gpu_chunk(pmm, c)
      moved == Append(c, Fanout)
  IN  /\ At(t, "split") /\ mutex = None
      /\ block_lock' = [block_lock EXCEPT ![x.block] = None]
      /\ Step(t, Idle)
      /\ \/ /\ c \in chunks[x.block] /\ Level(c) < Depth
            /\ n # x.block /\ chunks[n] = {} /\ ~Busy(n)
            /\ pmm' = [q EXCEPT !.va_block[moved] = n]
            /\ chunks' = [chunks EXCEPT ![x.block] = (@ \cup Children(c)) \ {c, moved}, ![n] = {moved}]
         \/ UNCHANGED <<pmm, chunks>>
      /\ UNCHANGED <<pma, pma_evicting, mutex, kernel>>

(* The block's pages become resident on the GPU again, or leave it. *)
Touch(t, b, n) ==
  /\ Start(t, "touch") /\ block_lock[b] = None
  /\ \E r \in Roots : chunks[b] = {<<r>>} /\ pmm' = root_chunk_update_eviction_list(pmm, <<r>>, n)
  /\ UNCHANGED <<pma, pma_evicting, mutex, block_lock, chunks, kernel, thread>>

-----------------------------------------------------------------------------
(***************************************************************************)
(* PMA's eviction callbacks, and what other clients of PMA do.             *)
(***************************************************************************)
(* uvm_pmm_gpu_pma_evict_pages: evict n root chunks, all of them in S. *)
PmaEvictPages(n, S) ==
  /\ Start(Pma, "pages")
  /\ Step(Pma, [Goto(Idle, "next_page") EXCEPT
                  !.op = "pages", !.left = n, !.todo = S, !.type = "KERNEL"])
  /\ UNCHANGED <<pmm, pma, pma_evicting, mutex, block_lock, chunks, kernel>>

uvm_pmm_gpu_pma_evict_pages ==
  LET x == thread[Pma]
  IN  /\ At(Pma, "next_page")
      /\ \/ /\ x.left > 0
            /\ Step(Pma, Call(x, "pick_root", "page_evicted"))
            /\ UNCHANGED pma
         \/ /\ x.left = 0
            /\ pma' = [r \in Roots |-> IF r \in x.got THEN "other" ELSE pma[r]]
            /\ Step(Pma, Idle)
      /\ UNCHANGED <<pmm, pma_evicting, mutex, block_lock, chunks, kernel>>

(* A chunk of the range leaves PMM's hands but is not returned to PMA; one *)
(* outside the range is, and the callback fails.                           *)
page_evicted ==
  LET x == thread[Pma]
      c == x.chunk
  IN  /\ At(Pma, "page_evicted")
      /\ \/ /\ c = None
            /\ Step(Pma, Goto(x, "pages_failed"))
            /\ UNCHANGED pmm
         \/ /\ c # None /\ c[1] \notin x.todo
            /\ Step(Pma, [Call(x, "free_root_chunk", "pages_failed") EXCEPT !.root = c])
            /\ UNCHANGED pmm
         \/ /\ c # None /\ c[1] \in x.todo
            /\ pmm' = chunk_unpin(pmm, c, "PMA_OWNED")
            /\ Step(Pma, [Goto(x, "next_page") EXCEPT !.left = @ - 1, !.got = @ \cup {c[1]}, !.chunk = None])
      /\ UNCHANGED <<pma, pma_evicting, mutex, block_lock, chunks, kernel>>

pages_failed ==
  /\ At(Pma, "pages_failed")
  /\ pma' = [r \in Roots |-> IF r \in thread[Pma].got THEN "free" ELSE pma[r]]
  /\ Step(Pma, Idle)
  /\ UNCHANGED <<pmm, pma_evicting, mutex, block_lock, chunks, kernel>>

(* PMA evicts a range of memory that is free or was allocated unpinned. *)
PmaEvictRange(lo, hi) ==
  /\ Start(Pma, "range") /\ lo <= hi
  /\ \A r \in Roots \cap (lo .. hi) : pma[r] \in {"free", "unpinned"}
  /\ pma_evicting' = Roots \cap (lo .. hi)
  /\ Step(Pma, [Goto(Idle, "flush_allocs") EXCEPT !.op = "range", !.todo = Roots \cap (lo .. hi)])
  /\ UNCHANGED <<pmm, pma, mutex, block_lock, chunks, kernel>>

(* Taking pma_lock for writing waits for allocations and frees under way. *)
flush_pma_lock ==
  /\ At(Pma, "flush_allocs") \/ At(Pma, "flush_frees")
  /\ \A t \in Threads : ~PmaReader(t)
  /\ Step(Pma, Goto(thread[Pma], IF At(Pma, "flush_allocs") THEN "range_scan" ELSE "range_done"))
  /\ UNCHANGED <<pmm, pma, pma_evicting, mutex, block_lock, chunks, kernel>>

(* The loop over the range: root chunks of PMA are skipped, pinned ones    *)
(* are waited for, and the flag that starts the eviction is set before the *)
(* mutex is taken.  The wait may time out, in the round in which the       *)
(* eviction has started too, and the flag then stays set.                  *)
uvm_pmm_gpu_pma_evict_range ==
  LET x == thread[Pma]
      r == Min(x.todo)
  IN  /\ At(Pma, "range_scan")
      /\ \/ /\ x.todo = {}
            /\ Step(Pma, Goto(x, "flush_frees"))
            /\ UNCHANGED <<pmm, pma_evicting>>
         \/ /\ x.todo # {} /\ pmm.state[<<r>>] = "PMA_OWNED"
            /\ Step(Pma, [x EXCEPT !.todo = @ \ {r}])
            /\ UNCHANGED <<pmm, pma_evicting>>
         \/ /\ x.todo # {} /\ chunk_is_evictable(pmm, <<r>>)
            /\ pmm' = chunk_start_eviction(pmm, <<r>>)
            /\ Step(Pma, [Call(x, "pin_free_chunks", "range_evicted") EXCEPT !.todo = @ \ {r}, !.root = <<r>>])
            /\ UNCHANGED pma_evicting
         \/ /\ x.todo # {} /\ "timeout" \in setup.failures
            /\ pmm' = IF chunk_is_evictable(pmm, <<r>>) THEN chunk_start_eviction(pmm, <<r>>) ELSE pmm
            /\ pma_evicting' = {}
            /\ Step(Pma, Idle)
      /\ UNCHANGED <<pma, mutex, block_lock, chunks, kernel>>

range_evicted ==
  LET x == thread[Pma]
  IN  /\ At(Pma, "range_evicted")
      /\ mutex' = None
      /\ Step(Pma, IF x.ok THEN Call(x, "free_root_chunk", "range_scan") ELSE Idle)
      /\ pma_evicting' = IF x.ok THEN pma_evicting ELSE {}
      /\ UNCHANGED <<pmm, pma, block_lock, chunks, kernel>>

(* The callback has returned NV_OK: PMA gives the range to its client. *)
range_done ==
  /\ At(Pma, "range_done")
  /\ pma' = [r \in Roots |-> IF r \in pma_evicting THEN "other" ELSE pma[r]]
  /\ pma_evicting' = {}
  /\ Step(Pma, Idle)
  /\ UNCHANGED <<pmm, mutex, block_lock, chunks, kernel>>

(* Other clients of PMA come and go. *)
PmaOther(r) ==
  /\ Start(Pma, "other") /\ r \notin pma_evicting
  /\ \/ pma[r] = "free" /\ pma' = [pma EXCEPT ![r] = "other"]
     \/ pma[r] = "other" /\ pma' = [pma EXCEPT ![r] = "free"]
  /\ UNCHANGED <<pmm, pma_evicting, mutex, block_lock, chunks, kernel, thread>>

-----------------------------------------------------------------------------
Allocate(t) ==
  \/ alloc_chunk(t) \/ alloc_chunk_with_splits(t) \/ alloc_root_chunk(t) \/ record_root(t)
  \/ pick_root_chunk_to_evict(t) \/ pick_and_evict_root_chunk(t) \/ split_down(t) \/ alloc_failed(t)

Free(t) ==
  \/ free_chunk(t) \/ free_chunk_with_merges(t)
  \/ free_next_available_root_chunk(t) \/ free_root_chunk(t) \/ pma_free(t)

Evict(t) ==
  \/ evict_root_chunk(t) \/ find_and_retain_va_block_to_evict(t)
  \/ uvm_va_block_evict_chunks(t) \/ evict_error(t) \/ free_first_pinned_chunk(t)

Client(t) ==
  \/ \E b \in Blocks, l \in Levels : block_populate_gpu_chunk(t, b, l)
  \/ block_alloc_gpu_chunk(t) \/ block_retry_get_free_chunk(t) \/ unlock_block(t)
  \/ uvm_va_block_retry_deinit(t)
  \/ \E l \in Levels, evict \in BOOLEAN : phys_mem_allocate_vidmem(t, l, evict)
  \/ uvm_pmm_gpu_alloc_kernel(t)
  \/ \E c \in kernel : phys_mem_deallocate_vidmem(t, c)
  \/ \E b \in Blocks : Kill(t, b) \/ Split(t, b)
  \/ block_destroy_gpu_state(t)
  \/ \E c \in Chunks, n \in Blocks : uvm_va_block_split(t, c, n)
  \/ \E b \in Blocks, n \in {Used, Unused} : Touch(t, b, n)

PmaThread ==
  \/ \E n \in 1 .. Cardinality(Roots), S \in SUBSET Roots : PmaEvictPages(n, S)
  \/ uvm_pmm_gpu_pma_evict_pages \/ page_evicted \/ pages_failed
  \/ \E lo, hi \in Roots : PmaEvictRange(lo, hi)
  \/ flush_pma_lock \/ uvm_pmm_gpu_pma_evict_range \/ range_evicted \/ range_done
  \/ \E r \in Roots : PmaOther(r)

Next ==
  /\ \/ \E t \in Threads : Allocate(t) \/ Free(t) \/ Evict(t)
     \/ \E t \in Clients : Client(t)
     \/ PmaThread
  /\ UNCHANGED setup

Spec == Init /\ [][Next]_vars

-----------------------------------------------------------------------------
(***************************************************************************)
(* Type correctness.  The counters stay in their ranges: allocated between *)
(* 0 and the number of subchunks, pinned_leaf_chunks at least 0.           *)
(***************************************************************************)
TypeOK ==
  /\ setup \in Setups
  /\ pmm.state \in [Chunks -> ChunkStates]
  /\ pmm.allocated \in [Chunks -> 0 .. Fanout]
  /\ pmm.pinned_leaf_chunks \in [Roots -> 0 .. Cardinality(Chunks)]
  /\ pmm.va_block \in [Chunks -> Blocks \cup {None}]
  /\ pmm.type \in [Roots -> Types]
  /\ pmm.in_eviction \in [Roots -> BOOLEAN]
  /\ \A n \in ListNames : Range(pmm.list[n]) \subseteq Chunks
  /\ pma \in [Roots -> {"free", "unpinned", "pinned", "other"}]
  /\ pma_evicting \subseteq Roots
  /\ mutex \in Threads \cup {None}
  /\ block_lock \in [Blocks -> Clients \cup {None}]
  /\ chunks \in [Blocks -> SUBSET Chunks]
  /\ kernel \subseteq Chunks
  /\ \A t \in Threads : {thread[t].chunk, thread[t].root, thread[t].used} \subseteq Chunks \cup {None}

(* What a thread has been given by alloc_chunk and not yet passed on. *)
Held(t) ==
  LET x == thread[t]
  IN  ({x.used} \cup
       (IF x.pc \in {"populated", "retried", "kernel_allocated"} THEN {x.chunk} ELSE {})) \ {None}

(* Who may own a chunk, and what each owns. *)
Owners == ({"held"} \X Clients) \cup ({"block"} \X Blocks) \cup {<<"kernel", None>>}
OwnedBy(o) ==
  CASE o[1] = "held" -> Held(o[2])
    [] o[1] = "block" -> chunks[o[2]] \ UNION {Held(t) : t \in Clients}
    [] o[1] = "kernel" -> kernel

(***************************************************************************)
(* Memory handed out by alloc_chunk stays its client's until the client    *)
(* frees it or its block is evicted: a chunk a thread holds is pinned, one *)
(* a block refers to is allocated and names the block, one of the page     *)
(* tables is allocated kernel memory, and no two clients' chunks overlap.  *)
(***************************************************************************)
ClientsOwnTheirChunks ==
  /\ \A t \in Clients : \A c \in Held(t) : pmm.state[c] = "TEMP_PINNED"
  /\ \A b \in Blocks : \A c \in OwnedBy(<<"block", b>>) :
       pmm.state[c] = "ALLOCATED" /\ pmm.va_block[c] = b
  /\ \A c \in kernel : pmm.state[c] = "ALLOCATED" /\ TypeOf(pmm, c) = "KERNEL"
  /\ \A o, q \in Owners : \A c \in OwnedBy(o), d \in OwnedBy(q) :
       Under(c, d) => o = q /\ c = d

(***************************************************************************)
(* The variables have their types, and the free lists hold exactly the     *)
(* free chunks, each on the list of its type and size and on no other;     *)
(* only an eviction may have taken a free chunk off, which it will pin     *)
(* (claim_free_chunk, chunk_update_lists_locked, the walk with             *)
(* pin_free_chunks_func).                                                  *)
(***************************************************************************)
FreeListsExact ==
  TypeOK /\
  \A c \in Chunks :
    LET on == {n \in ListNames : c \in Range(pmm.list[n])}
    IN  /\ Cardinality(on) <= 1
        /\ \A n \in on : n[1] = "free" => pmm.state[c] = "FREE" /\ n = FreeList(TypeOf(pmm, c), Level(c))
        /\ pmm.state[c] = "FREE" /\ ~InEviction(pmm, c) => on = {FreeList(TypeOf(pmm, c), Level(c))}

(***************************************************************************)
(* A chunk is split exactly while it has subchunks, suballoc->allocated    *)
(* counts those that are not free, and it is never left at 0: the last     *)
(* subchunk freed merges them (free_or_prepare_for_merge).                 *)
(***************************************************************************)
TreesExact ==
  \A c \in Chunks :
    /\ pmm.state[c] = "IS_SPLIT" =>
         /\ \A d \in Children(c) : pmm.state[d] # "none"
         /\ pmm.allocated[c] = Cardinality({d \in Children(c) : pmm.state[d] # "FREE"})
         /\ pmm.allocated[c] > 0
    /\ pmm.state[c] # "IS_SPLIT" /\ Level(c) < Depth => \A d \in Children(c) : pmm.state[d] = "none"

(***************************************************************************)
(* pinned_leaf_chunks of a split root is the number of pinned chunks under *)
(* it, over every split, claim, free, merge and eviction: too low a root   *)
(* with a chunk in use would be evicted, too high it never would be.       *)
(***************************************************************************)
PinsExact ==
  \A r \in Roots :
    pmm.state[<<r>>] = "IS_SPLIT" =>
      pmm.pinned_leaf_chunks[r] =
        Cardinality({c \in Chunks : c[1] = r /\ pmm.state[c] = "TEMP_PINNED"})

(***************************************************************************)
(* The counts kept at the inner nodes of a split root, of allocated        *)
(* children and of pinned leaves, agree with the chunks below them.        *)
(***************************************************************************)
CountsExact == TreesExact /\ PinsExact

(***************************************************************************)
(* Memory can be found again: a user root chunk in use, unpinned and not   *)
(* being evicted is on one of the two lists pick_root_chunk_to_evict looks *)
(* at.                                                                     *)
(***************************************************************************)
Evictable ==
  \A r \in Roots :
    /\ pmm.state[<<r>>] \in {"ALLOCATED", "IS_SPLIT"} /\ pmm.type[r] = "USER"
    /\ ~chunk_is_root_chunk_pinned(pmm, <<r>>) /\ ~pmm.in_eviction[r]
    => \E n \in {Used, Unused} : <<r>> \in Range(pmm.list[n])

(***************************************************************************)
(* No memory is lost or found twice: the free lists and the eviction lists *)
(* are exact after every claim, free, merge, pin and eviction              *)
(* (chunk_update_lists_locked).                                            *)
(***************************************************************************)
ListsExact == FreeListsExact /\ Evictable

(***************************************************************************)
(* PMM uses only memory PMA has given it, and kernel memory, which cannot  *)
(* be evicted, is pinned in PMA (alloc_root_chunk, free_root_chunk,        *)
(* pick_and_evict_root_chunk).                                             *)
(***************************************************************************)
PmaAgrees ==
  \A r \in Roots :
    pmm.state[<<r>>] # "PMA_OWNED" =>
      /\ pma[r] \in {"unpinned", "pinned"}
      /\ pmm.type[r] = "KERNEL" => pma[r] = "pinned"

(***************************************************************************)
(* When uvm_pmm_gpu_pma_evict_range returns NV_OK, every root chunk of the *)
(* range is back in PMA, whatever was allocated and freed meanwhile.       *)
(***************************************************************************)
RangeEvicted ==
  At(Pma, "range_done") => \A r \in pma_evicting : pma[r] = "free" /\ pmm.state[<<r>>] = "PMA_OWNED"

(***************************************************************************)
(* The lists and the counts by which chunks are allocated, merged, pinned  *)
(* and evicted are those of the chunks there are.                          *)
(***************************************************************************)
BooksExact == ListsExact /\ CountsExact

(***************************************************************************)
(* PMM and PMA agree on who owns a root chunk, and what PMM has told PMA   *)
(* it evicted is PMA's.                                                    *)
(***************************************************************************)
PmaExact == PmaAgrees /\ RangeEvicted
=============================================================================
