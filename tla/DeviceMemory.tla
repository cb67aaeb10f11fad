----------------------------- MODULE DeviceMemory -----------------------------
(***************************************************************************)
(* nvidia.ko's system memory (nv.c, nv-vm.c, nv-mmap.c, nv-dma.c,          *)
(* os-mlock.c) and the private data of a control file: allocations RM asks *)
(* for, which live until RM and every user mapping have let go of them,    *)
(* their DMA mappings, pinned user pages, and the queue of events.         *)
(*                                                                         *)
(* RM's own lock makes its calls into this code one at a time.  A mapping  *)
(* is undone under the mmap_sem of its process only: the file's free_list  *)
(* is not locked, and two processes that share the file can meet there.    *)
(***************************************************************************)
EXTENDS Naturals, FiniteSets, FiniteSetsExt, Sequences, SequencesExt

CONSTANTS MemPages,    \* physical pages: 0..MemPages - 1
          MemLow,      \* pages below 4MB, which the kernel may map with NX set
          MemAlloc,    \* nv_alloc_t
          MemProc,     \* processes that share the file
          MemSubmap,   \* NV_DMA_SUBMAP_MAX_PAGES
          MemMaxEvents,\* bound on the events queued
          MemNone,     \* a NULL pointer
          MemSetups    \* the setups to explore, see MemAssumption

(* part: what the file is used for; procs: the processes that map; meet:   *)
(* two of them may be in nvidia_vma_release at once.                       *)
ASSUME MemAssumption ==
    /\ MemPages \in Nat /\ MemSubmap \in Nat \ {0} /\ MemMaxEvents \in Nat
    /\ MemLow \subseteq 0..(MemPages - 1) /\ MemNone \notin MemAlloc
    /\ \A s \in MemSetups : s.part \in {"pages", "user", "events"} /\ s.procs \subseteq MemProc /\ s.meet \in BOOLEAN

VARIABLES
    memPage,   \* [page -> "free", "wb", "uc", "user", "pinned" or "dropped"]
    memAt,     \* [nv_alloc_t -> its state]
    memFree,   \* nvfp->free_list: the first allocation of the list
    memPush,   \* [process -> the allocation nvidia_vma_release is about to list]
    memOpen,   \* the file is open
    memEvents, \* [chain, tail, pending]: event_head and what follows it, event_tail, event_pending
    memAsleep, \* somebody sleeps in poll
    memSetup

memVars == <<memPage, memAt, memFree, memPush, memOpen, memEvents, memAsleep, memSetup>>

MemPageIds == 0..(MemPages - 1)

(* kind: "none" when it does not exist; rm: RM refers to it; vmas: the     *)
(* mappings of each process; dma: mapped for DMA, or the rest of a         *)
(* mapping that failed; next: at->next.                                    *)
NoAt == [kind |-> "none", pages |-> <<>>, cached |-> TRUE, usage |-> 0, rm |-> FALSE,
         vmas |-> [p \in MemProc |-> 0], dma |-> "no", next |-> MemNone]
NoEvents == [chain |-> <<>>, tail |-> MemNone, pending |-> FALSE]

MemInit ==
    /\ memSetup \in MemSetups
    /\ memPage = [p \in MemPageIds |-> IF memSetup.part = "user" THEN "user" ELSE "free"]
    /\ memAt = [a \in MemAlloc |-> NoAt] /\ memFree = MemNone
    /\ memPush = [p \in MemProc |-> MemNone] /\ memOpen = FALSE
    /\ memEvents = NoEvents /\ memAsleep = FALSE

(***************************************************************************)
(* Pages.  Each loop stops at its bad-th round when that is not 0.         *)
(***************************************************************************)
Become_(S, what) == [p \in MemPageIds |-> IF p \in S THEN what ELSE memPage[p]]

(* nv_set_memory_type and nv_set_contig_memory_type.                       *)
nv_set_memory_type(pg, S, cached) == IF cached THEN pg ELSE [p \in MemPageIds |-> IF p \in S THEN "uc" ELSE pg[p]]

(* Page by page, in whatever order they come; a low page is dropped for    *)
(* good, which order does not count.  A round that fails frees what the    *)
(* earlier ones got.                                                       *)
nv_alloc_system_pages(order, bad, cached) ==
    LET got == IF bad = 0 THEN order ELSE SubSeq(order, 1, bad - 1)
        low == {p \in Range(got) : p \in MemLow}
        rest == SelectSeq(got, LAMBDA p : p \notin MemLow)
        pg == [p \in MemPageIds |-> IF p \in low THEN "dropped" ELSE IF p \in Range(rest) THEN "wb" ELSE memPage[p]]
    IN  IF bad = 0 THEN [ok |-> TRUE, pages |-> rest, page |-> nv_set_memory_type(pg, Range(rest), cached)]
        ELSE [ok |-> FALSE, pages |-> <<>>, page |-> [p \in MemPageIds |-> IF p \in Range(rest) THEN "free" ELSE pg[p]]]

(* One block of pages; a page without a physical address frees the block.  *)
nv_alloc_contig_pages(order, bad, cached) ==
    IF bad = 0 THEN [ok |-> TRUE, pages |-> order, page |-> nv_set_memory_type(Become_(Range(order), "wb"), Range(order), cached)]
    ELSE [ok |-> FALSE, pages |-> <<>>, page |-> memPage]

(* The memory type goes back to write-back before the pages do.            *)
nv_free_system_pages(pg, at) == [p \in MemPageIds |-> IF p \in Range(at.pages) THEN "free" ELSE pg[p]]

(***************************************************************************)
(* RM's calls                                                              *)
(***************************************************************************)
MemOrders(kind) ==
    LET free == {p \in MemPageIds : memPage[p] = "free"} IN
    IF kind = "contig" THEN {<<p, p + 1>> : p \in {q \in free : q + 1 \in free}}
    ELSE {s \in UNION {[1..n -> free] : n \in 1..Cardinality(free)} :
              IsInjective(s) /\ Cardinality(Range(s) \ MemLow) = 2 /\ Last(s) \notin MemLow}

nv_alloc_pages(a, kind, cached) ==
    /\ memOpen /\ memSetup.part = "pages" /\ memAt[a].kind = "none"
    /\ \E order \in MemOrders(kind), bad \in 0..3 :
          /\ bad <= Len(order)
          /\ LET r == IF kind = "contig" THEN nv_alloc_contig_pages(order, bad, cached)
                                         ELSE nv_alloc_system_pages(order, bad, cached)
             IN  /\ memPage' = r.page
                 /\ memAt' = IF r.ok THEN [memAt EXCEPT ![a] = [NoAt EXCEPT !.kind = kind, !.pages = r.pages,
                                                            !.cached = cached, !.usage = 1, !.rm = TRUE]]
                             ELSE memAt
    /\ UNCHANGED <<memFree, memPush, memOpen, memEvents, memAsleep, memSetup>>

(* usage_count drops; at zero the pages and the nv_alloc_t are freed.      *)
PutAlloc(w, a) ==
    LET at == w.at[a] IN
    IF at.usage > 1 THEN [w EXCEPT !.at[a].usage = @ - 1, !.at[a].rm = FALSE]
    ELSE [w EXCEPT !.page = IF at.kind = "guest" THEN @ ELSE nv_free_system_pages(@, at), !.at[a] = NoAt]

(* RM undoes its DMA mappings first.                                       *)
nv_free_pages(a) ==
    /\ memAt[a].rm /\ memAt[a].dma = "no" /\ memAt[a].kind # "locked"
    /\ LET w == PutAlloc([page |-> memPage, at |-> memAt], a) IN memPage' = w.page /\ memAt' = w.at
    /\ UNCHANGED <<memFree, memPush, memOpen, memEvents, memAsleep, memSetup>>

(* The pages belong to a guest.                                            *)
nv_alias_pages(a) ==
    /\ memOpen /\ memSetup.part = "pages" /\ memAt[a].kind = "none"
    /\ memAt' = [memAt EXCEPT ![a] = [NoAt EXCEPT !.kind = "guest", !.usage = 1, !.rm = TRUE]]
    /\ UNCHANGED <<memPage, memFree, memPush, memOpen, memEvents, memAsleep, memSetup>>

(* os_lock_user_pages pins pages one after the other and gives back the    *)
(* ones it has pinned when it cannot pin all, or when nv_register_user_    *)
(* pages fails after it.                                                   *)
os_lock_user_pages(pinned, n) ==
    IF n = MemPages THEN pinned ELSE {}
nv_register_user_pages(a) ==
    /\ memOpen /\ memSetup.part = "user" /\ memAt[a].kind = "none" /\ \A b \in MemAlloc : memAt[b].kind = "none"
    /\ \E n \in 0..MemPages, ok \in BOOLEAN :
          LET pinned == IF ok THEN os_lock_user_pages(0..(n - 1), n) ELSE {}
          IN  /\ memPage' = Become_(pinned, "pinned")
              /\ memAt' = IF pinned = {} THEN memAt
                          ELSE [memAt EXCEPT ![a] = [NoAt EXCEPT !.kind = "locked", !.rm = TRUE,
                                       !.pages = SetToSortSeq(pinned, LAMBDA x, y : x < y)]]
    /\ UNCHANGED <<memFree, memPush, memOpen, memEvents, memAsleep, memSetup>>
nv_unregister_user_pages(a) ==
    /\ memAt[a].kind = "locked" /\ memAt[a].dma = "no"
    /\ memPage' = Become_(Range(memAt[a].pages), "user")
    /\ memAt' = [memAt EXCEPT ![a] = NoAt]
    /\ UNCHANGED <<memFree, memPush, memOpen, memEvents, memAsleep, memSetup>>

(***************************************************************************)
(* DMA mappings.  Pages that are not contiguous are mapped submap by       *)
(* submap; either loop can fail in the middle.                             *)
(***************************************************************************)
Submaps(n) == (n + MemSubmap - 1) \div MemSubmap
(* The submaps that have a scatterlist, and those that are mapped.         *)
nv_create_dma_map_scatterlist(n, bad) == IF bad = 0 THEN 1..n ELSE 1..(bad - 1)
nv_map_dma_map_scatterlist(n, bad) == IF bad = 0 THEN 1..n ELSE 1..(bad - 1)
(* Both undo loops run to the first submap that was not reached.           *)
nv_unmap_dma_map_scatterlist(mapped, n) == {i \in 1..n : i \in mapped /\ ~(\A j \in 1..i : j \in mapped)}
nv_destroy_dma_map_scatterlist(made, n) == {i \in 1..n : i \in made /\ ~(\A j \in 1..i : j \in made)}

(* What a failing nv_dma_map_scatterlist leaves behind.                    *)
nv_dma_map_scatterlist(n, badSgl, badMap) ==
    LET made == nv_create_dma_map_scatterlist(n, badSgl)
        mapped == IF badSgl # 0 THEN {} ELSE nv_map_dma_map_scatterlist(n, badMap)
    IN  nv_unmap_dma_map_scatterlist(mapped, n) \union nv_destroy_dma_map_scatterlist(made, n)

nv_dma_map_alloc(a) ==
    /\ memAt[a].rm /\ memAt[a].dma = "no" /\ memAt[a].pages # <<>>
    /\ LET n == Submaps(Len(memAt[a].pages)) IN
       \E badSgl, badMap \in 0..n, addressable \in BOOLEAN :
          memAt' = [memAt EXCEPT ![a].dma =
                       IF badSgl = 0 /\ badMap = 0 /\ addressable THEN "mapped"
                       ELSE IF nv_dma_map_scatterlist(n, badSgl, badMap) = {} THEN "no" ELSE "partial"]
    /\ UNCHANGED <<memPage, memFree, memPush, memOpen, memEvents, memAsleep, memSetup>>
nv_dma_unmap_alloc(a) ==
    /\ memAt[a].dma = "mapped"
    /\ memAt' = [memAt EXCEPT ![a].dma = "no"]
    /\ UNCHANGED <<memPage, memFree, memPush, memOpen, memEvents, memAsleep, memSetup>>

(***************************************************************************)
(* User mappings                                                           *)
(***************************************************************************)
(* A page that cannot be inserted takes the reference back.  RM only lets  *)
(* through what it still refers to.                                        *)
nvidia_mmap_helper(p, a) ==
    /\ memOpen /\ p \in memSetup.procs /\ memAt[a].rm /\ memAt[a].kind \in {"contig", "system"} /\ memAt[a].vmas[p] = 0
    /\ memAt' = [memAt EXCEPT ![a].usage = @ + 1, ![a].vmas[p] = @ + 1]
    /\ UNCHANGED <<memPage, memFree, memPush, memOpen, memEvents, memAsleep, memSetup>>
(* A fork copies the mapping.                                              *)
nvidia_vma_open(p, q, a) ==
    /\ {p, q} \subseteq memSetup.procs /\ p # q /\ memAt[a].vmas[p] > 0 /\ memAt[a].vmas[q] = 0
    /\ memAt' = [memAt EXCEPT ![a].usage = @ + 1, ![a].vmas[q] = @ + 1]
    /\ UNCHANGED <<memPage, memFree, memPush, memOpen, memEvents, memAsleep, memSetup>>

(* Mutant: the reference the free_list stands for is not taken again.      *)
release_forgets_reference(p, a) ==
    /\ memAt[a].vmas[p] > 0 /\ \A q \in MemProc : p = q \/ ~memSetup.meet => memPush[q] = MemNone
    /\ LET last == memAt[a].usage = 1 IN
       /\ memAt' = [memAt EXCEPT ![a].vmas[p] = @ - 1, ![a].usage = @ - 1,
                                 ![a].next = IF last THEN memFree ELSE @]
       /\ memPush' = [memPush EXCEPT ![p] = IF last THEN a ELSE @]
    /\ UNCHANGED <<memPage, memFree, memOpen, memEvents, memAsleep, memSetup>>

(* The last reference goes to the file's free_list, with a reference of    *)
(* its own: at->next is set here and free_list in ListAlloc.               *)
nvidia_vma_release(p, a) ==
    /\ memAt[a].vmas[p] > 0 /\ \A q \in MemProc : p = q \/ ~memSetup.meet => memPush[q] = MemNone
    /\ LET last == memAt[a].usage = 1 IN
       /\ memAt' = [memAt EXCEPT ![a].vmas[p] = @ - 1, ![a].usage = IF last THEN @ ELSE @ - 1,
                                 ![a].next = IF last THEN memFree ELSE @]
       /\ memPush' = [memPush EXCEPT ![p] = IF last THEN a ELSE @]
    /\ UNCHANGED <<memPage, memFree, memOpen, memEvents, memAsleep, memSetup>>
ListAlloc(p) ==
    /\ memPush[p] # MemNone
    /\ memFree' = memPush[p] /\ memPush' = [memPush EXCEPT ![p] = MemNone]
    /\ UNCHANGED <<memPage, memAt, memOpen, memEvents, memAsleep, memSetup>>

(***************************************************************************)
(* The control file                                                        *)
(***************************************************************************)
nvidia_ctl_open ==
    /\ ~memOpen /\ memOpen' = TRUE
    /\ UNCHANGED <<memPage, memAt, memFree, memPush, memEvents, memAsleep, memSetup>>

MemListed == LET from[n \in Nat] == IF n = 0 THEN <<memFree>>
                                    ELSE LET s == from[n - 1] IN
                                         IF Last(s) = MemNone THEN s ELSE Append(s, memAt[Last(s)].next)
             IN  SelectSeq(from[Cardinality(MemAlloc)], LAMBDA a : a # MemNone)

(* A mapping keeps its file open.  RM frees what its clients left, then    *)
(* the free_list is worked off, and the events go with the private data.   *)
nvidia_ctl_close ==
    /\ memOpen /\ ~memAsleep /\ \A p \in MemProc : memPush[p] = MemNone /\ \A a \in MemAlloc : memAt[a].vmas[p] = 0
    /\ \A a \in MemAlloc : memAt[a].rm => memAt[a].dma = "no" /\ memAt[a].kind # "locked"
    /\ LET left == SetToSeq({a \in MemAlloc : memAt[a].rm}) \o MemListed
           w == FoldLeft(PutAlloc, [page |-> memPage, at |-> memAt], left)
       IN  memPage' = w.page /\ memAt' = w.at
    /\ memFree' = MemNone /\ memOpen' = FALSE /\ memEvents' = NoEvents
    /\ UNCHANGED <<memPush, memAsleep, memSetup>>

(* An event with data is queued, one without only marks the file; when the *)
(* event cannot be allocated nothing happens at all.  A queued event is    *)
(* linked behind event_tail.                                               *)
nv_post_event(e, data) ==
    /\ memOpen /\ memSetup.part = "events" /\ Len(memEvents.chain) < MemMaxEvents /\ e \notin Range(memEvents.chain)
    /\ memEvents' = [chain |-> IF ~data THEN memEvents.chain
                               ELSE IF memEvents.chain = <<>> THEN <<e>>
                               ELSE IF memEvents.tail = Last(memEvents.chain) THEN Append(memEvents.chain, e)
                               ELSE memEvents.chain,
                     tail |-> IF data THEN e ELSE memEvents.tail,
                     pending |-> TRUE]
    /\ memAsleep' = FALSE
    /\ UNCHANGED <<memPage, memAt, memFree, memPush, memOpen, memSetup>>
nv_get_event ==
    /\ memOpen /\ memEvents.chain # <<>>
    /\ memEvents' = [memEvents EXCEPT !.chain = Tail(@),
                                      !.tail = IF @ = Head(memEvents.chain) THEN MemNone ELSE @]
    /\ UNCHANGED <<memPage, memAt, memFree, memPush, memOpen, memAsleep, memSetup>>
(* The poll either reports something or its caller sleeps.                 *)
nvidia_poll ==
    /\ memOpen /\ memSetup.part = "events" /\ ~memAsleep
    /\ memEvents' = [memEvents EXCEPT !.pending = FALSE]
    /\ memAsleep' = (memEvents.chain = <<>> /\ ~memEvents.pending)
    /\ UNCHANGED <<memPage, memAt, memFree, memPush, memOpen, memSetup>>

MemNext ==
    \/ \E a \in MemAlloc :
          \/ \E k \in {"contig", "system"}, c \in BOOLEAN : nv_alloc_pages(a, k, c)
          \/ nv_free_pages(a) \/ nv_alias_pages(a)
          \/ nv_register_user_pages(a) \/ nv_unregister_user_pages(a)
          \/ nv_dma_map_alloc(a) \/ nv_dma_unmap_alloc(a)
          \/ \E p \in MemProc : nvidia_mmap_helper(p, a) \/ nvidia_vma_release(p, a)
          \/ \E p, q \in MemProc : nvidia_vma_open(p, q, a)
    \/ \E p \in MemProc : ListAlloc(p)
    \/ nvidia_ctl_open \/ nvidia_ctl_close
    \/ \E e \in 1..MemMaxEvents, data \in BOOLEAN : nv_post_event(e, data)
    \/ nv_get_event \/ nvidia_poll

MemSpec == MemInit /\ [][MemNext]_memVars

(***************************************************************************)
(* Properties                                                              *)
(***************************************************************************)
MemVmas(a) == MapThenSumSet(LAMBDA p : memAt[a].vmas[p], MemProc)
MemOwned == UNION {Range(memAt[a].pages) : a \in MemAlloc}

(* Memory is neither lost nor freed too early: the count of an allocation  *)
(* is the number of those who refer to it (RM, its mappings, the file's    *)
(* free_list); every page in use belongs to exactly one allocation and     *)
(* every page given back is write-back memory again; a closed file leaves  *)
(* nothing behind but the low pages it had to drop.                        *)
MemoryExact ==
    /\ \A a \in MemAlloc :
          LET refs == (IF memAt[a].rm THEN 1 ELSE 0) + MemVmas(a)
                      + Cardinality({i \in DOMAIN MemListed : MemListed[i] = a})
                      + Cardinality({p \in MemProc : memPush[p] = a})
          IN  /\ memAt[a].kind \notin {"none", "locked"} => memAt[a].usage = refs
              /\ memAt[a].dma # "partial"
    /\ \A p \in MemPageIds : (memPage[p] \in {"wb", "uc", "pinned"}) <=> p \in MemOwned
    /\ \A a, b \in MemAlloc : a # b => Range(memAt[a].pages) \intersect Range(memAt[b].pages) = {}
    /\ \A p \in MemPageIds : memPage[p] = "dropped" => p \in MemLow
    /\ ~memOpen => \A a \in MemAlloc : memAt[a].kind = "none"

(* No event is lost: event_tail is the end of the queue, or NULL when the  *)
(* queue is empty, and nobody sleeps in poll while there is something to   *)
(* report.                                                                 *)
EventsReported ==
    /\ IF memEvents.chain = <<>> THEN memEvents.tail = MemNone ELSE memEvents.tail = Last(memEvents.chain)
    /\ memAsleep => memEvents.chain = <<>> /\ ~memEvents.pending

(* Both: what nvidia.ko keeps for its files.                               *)
FilesExact == MemoryExact /\ EventsReported
================================================================================
