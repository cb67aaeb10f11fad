------------------------------ MODULE LiteStreams ------------------------------
(***************************************************************************)
(* UVM-Lite (uvm_lite.c, uvm_lite_api.c, uvm_lite_region_tracking.c,       *)
(* uvm_page_cache.c): the memory of a process whose GPU does not fault.  A *)
(* mapping is committed to a GPU and to a stream; while the stream runs on *)
(* the GPU its pages are there and the CPU may not touch them, otherwise   *)
(* CPU faults bring them back one by one.                                  *)
(*                                                                         *)
(* Every operation holds the process's uvmPrivLock in write mode from end  *)
(* to end, so each is one action.  There is one mapping, of LitePages      *)
(* pages, and one GPU.                                                     *)
(***************************************************************************)
EXTENDS Naturals, FiniteSets, FiniteSetsExt, Sequences, SequencesExt

CONSTANTS LitePages,    \* pages of the mapping
          LiteSpan,     \* <<first page, pages>> given to the API
          LiteStream,   \* ids of the ordinary streams
          StreamAll,    \* UVM_STREAM_ALL
          StreamNone,   \* UVM_STREAM_NONE
          LiteSetups,   \* the setups to explore, see LiteAssumption
          LiteMaxRunning, \* bound on runningStreams
          LiteNoStream  \* a NULL stream pointer

ASSUME LiteAssumption ==
    /\ LitePages \in Nat \ {0}
    /\ LiteSetups \subseteq [records : Nat \ {0}, events : BOOLEAN, failures : BOOLEAN]
    /\ \A x \in LiteSpan : x[1] \in Nat /\ x[2] \in Nat \ {0} /\ x[1] + x[2] <= LitePages
    /\ StreamAll \notin LiteStream /\ StreamNone \notin LiteStream \union {StreamAll}
    /\ LiteNoStream \notin LiteStream \union {StreamAll, StreamNone}

VARIABLES
    liteVma,      \* "none", "tracked", or "detached": vm_private_data is NULL
    liteRec,      \* the commit records of the region tracker, oldest first
    liteStreams,  \* [id -> the stream record]; the domain is allStreamList
    liteCache,    \* the slot of streamsCache the ids of the model share
    liteRunning,  \* runningStreams
    litePage,     \* [page -> "none", "clean" or "dirty"]: commitRecordPages
    liteUser,     \* pages mapped in the user's page table
    liteFresh,    \* [page -> the memories that hold its latest value]
    liteGpu,      \* [enabled, tracker]: the GPU's state and the migTracker
    liteSetup,    \* records that can be allocated, migration events enabled, failures
    liteFailed    \* some migration has failed

liteVars == <<liteVma, liteRec, liteStreams, liteCache, liteRunning, litePage, liteUser, liteFresh,
              liteGpu, liteSetup, liteFailed>>

LitePage == 0..(LitePages - 1)
LiteId == LiteStream \union {StreamAll, StreamNone}

LiteInit ==
    /\ liteVma = "none" /\ liteRec = <<>>
    /\ liteStreams = << >> /\ liteCache = LiteNoStream /\ liteRunning = 0
    /\ litePage = [p \in LitePage |-> "none"] /\ liteUser = {}
    /\ liteFresh = [p \in LitePage |-> {"gpu"}]
    /\ liteGpu = [enabled |-> TRUE, tracker |-> FALSE]
    /\ liteSetup \in LiteSetups /\ liteFailed = FALSE

(* What an operation works on: it may fail half way and what it has done   *)
(* stays.                                                                  *)
LiteWorld == [rec |-> liteRec, str |-> liteStreams, cache |-> liteCache, run |-> liteRunning,
              page |-> litePage, user |-> liteUser, fresh |-> liteFresh, gpu |-> liteGpu,
              failed |-> liteFailed, ok |-> TRUE]
LiteBecome(w) ==
    /\ liteRec' = w.rec /\ liteStreams' = w.str /\ liteCache' = w.cache /\ liteRunning' = w.run
    /\ litePage' = w.page /\ liteUser' = w.user /\ liteFresh' = w.fresh /\ liteGpu' = w.gpu
    /\ liteFailed' = w.failed

(***************************************************************************)
(* The region tracker.  Nodes are ordered so that a region comes after the *)
(* ones inside it, and a newer one before an older one of the same span:   *)
(* a lookup finds the innermost.                                           *)
(***************************************************************************)
RecPages(r) == r.base..(r.base + r.len - 1)
Innermost(R, S) ==
    CHOOSE i \in S : \A j \in S : R[i].len < R[j].len \/ (R[i].len = R[j].len /\ j <= i)
uvm_get_owner_from_address(R, p) == Innermost(R, {i \in DOMAIN R : p \in RecPages(R[i])})
uvm_get_owner_from_region(R, a, n) == Innermost(R, {i \in DOMAIN R : a..(a + n - 1) \subseteq RecPages(R[i])})

(***************************************************************************)
(* Streams                                                                 *)
(***************************************************************************)
_stream_find_or_alloc(w, s) ==
    [w EXCEPT !.str = IF s \in DOMAIN @ THEN @
                      ELSE [x \in DOMAIN @ \union {s} |-> IF x = s THEN [isRunning |-> FALSE, list |-> <<>>] ELSE @[x]],
              !.cache = s]
_stream_destroy(w, s) ==
    [w EXCEPT !.str = [x \in DOMAIN @ \ {s} |-> @[x]],
              !.cache = IF @ = s THEN LiteNoStream ELSE @]
_stream_destroy_if_empty(w, s) ==
    IF s = LiteNoStream \/ s \notin DOMAIN w.str THEN w
    ELSE IF w.str[s].isRunning \/ w.str[s].list # <<>> THEN w
    ELSE _stream_destroy(w, s)

(* list_del of the record's streamRegionsListNode.                         *)
Unlist(w, i) ==
    [w EXCEPT !.str = [s \in DOMAIN @ |-> [@[s] EXCEPT !.list = SelectSeq(@, LAMBDA j : j # i)]]]
_record_detach_from_stream(w, i) == _stream_destroy_if_empty(Unlist(w, i), w.rec[i].stream)

(***************************************************************************)
(* Migration of a record to the GPU: its pages are unmapped, the dirty     *)
(* ones copied, and all of them freed.  bad is the record whose copy fails,*)
(* or 0: the channel reports an error, and the record loses its channel.   *)
(* With events enabled the status of the event replaces that of the copy.  *)
(***************************************************************************)
_clear_cache(w, P) ==
    [w EXCEPT !.page = [p \in LitePage |-> IF p \in P THEN "none" ELSE @[p]],
              !.fresh = [p \in LitePage |-> IF p \in P THEN @[p] \ {"cpu"} ELSE @[p]]]

(* An error on the channel, found before the copy, while waiting for its   *)
(* semaphore, or by the ECC check after it.                                *)
_wait_for_migration_completion(w, i) ==
    [w EXCEPT !.rec[i].home = FALSE, !.failed = TRUE, !.ok = liteSetup.events]

migrate_cpu_to_gpu(w, i, bad) ==
    LET dirty == {p \in RecPages(w.rec[i]) : w.page[p] = "dirty"} IN
    IF dirty # {} /\ i = bad THEN _wait_for_migration_completion(w, i)
    ELSE [w EXCEPT !.fresh = [p \in LitePage |-> IF p \in dirty /\ "cpu" \in @[p] THEN @[p] \union {"gpu"} ELSE @[p]]]

(* Mutant: the user's mapping of the pages outlives their migration.       *)
migrate_leaves_mapping(w, i, bad) ==
    LET r == w.rec[i]
        moved == migrate_cpu_to_gpu([w EXCEPT !.rec[i].mapped = FALSE], i, bad)
    IN IF ~r.home \/ ~w.gpu.tracker THEN [w EXCEPT !.ok = FALSE, !.failed = TRUE]
       ELSE IF ~r.mapped THEN w
       ELSE IF moved.ok THEN _clear_cache(moved, RecPages(r))
       ELSE moved

uvmlite_migrate_to_gpu(w, i, bad) ==
    LET r == w.rec[i]
        unmapped == [w EXCEPT !.rec[i].mapped = FALSE, !.user = @ \ RecPages(r)]
        moved == migrate_cpu_to_gpu(unmapped, i, bad)
    IN IF ~r.home \/ ~w.gpu.tracker THEN [w EXCEPT !.ok = FALSE, !.failed = TRUE]
       ELSE IF ~r.mapped THEN w
       ELSE IF moved.ok THEN _clear_cache(moved, RecPages(r))
       ELSE moved

(* _record_attach_to_stream: the record follows the state of its stream.   *)
_record_attach_to_stream(w, i, s, bad) ==
    LET old == w.rec[i].stream
        changed == IF old = LiteNoStream THEN TRUE ELSE w.str[old].isRunning # w.str[s].isRunning
        hidden == [w EXCEPT !.rec[i].isAccessible = FALSE]
        moved == IF ~changed THEN w
                 ELSE IF w.str[s].isRunning THEN uvmlite_migrate_to_gpu(hidden, i, bad)
                 ELSE [w EXCEPT !.rec[i].isAccessible = TRUE]
        listed == [Unlist(moved, i) EXCEPT !.str[s].list = Append(@, i), !.rec[i].stream = s]
    IN _stream_destroy_if_empty(listed, old)

uvmlite_region_set_stream(w, i, s, bad) ==
    IF w.rec[i].stream = s THEN w ELSE _record_attach_to_stream(_stream_find_or_alloc(w, s), i, s, bad)

(***************************************************************************)
(* Records                                                                 *)
(***************************************************************************)
uvmlite_create_commit_record(base, len) ==
    [base |-> base, len |-> len, stream |-> LiteNoStream, home |-> FALSE, mapped |-> FALSE,
     isAccessible |-> TRUE, isChild |-> FALSE, hasChildren |-> FALSE]

(* Every record of the tracker leaves its stream, and the pages are freed. *)
uvm_destroy_region_tracker(w) ==
    LET detached == FoldSet(LAMBDA i, v : IF v.rec[i].hasChildren THEN v ELSE _record_detach_from_stream(v, i),
                            w, DOMAIN w.rec)
    IN [_clear_cache(detached, LitePage) EXCEPT !.rec = <<>>, !.user = {}]

(* uvmlite_split_commit_record at n pages from the record's base: the two  *)
(* new records share the array of pages, and the original keeps its place  *)
(* in the tracker.  They are created accessible and not mapped.  A split   *)
(* point outside the record asks for an impossible amount of memory.       *)
uvmlite_split_commit_record(w, i, n) ==
    LET r == w.rec[i]
        half(a, l) == [uvmlite_create_commit_record(a, l) EXCEPT !.isChild = TRUE, !.stream = r.stream, !.home = r.home]
        left == Len(w.rec) + 1
    IN IF n <= 0 \/ n >= r.len \/ Len(w.rec) + 2 > liteSetup.records THEN [w EXCEPT !.ok = FALSE]
       ELSE [Unlist(w, i) EXCEPT
                !.rec = [@ EXCEPT ![i].stream = LiteNoStream, ![i].hasChildren = TRUE]
                        \o <<half(r.base, n), half(r.base + n, r.len - n)>>,
                !.str[r.stream].list = @ \o <<left, left + 1>>]

(***************************************************************************)
(* The mapping                                                             *)
(***************************************************************************)
uvmlite_mmap ==
    /\ liteVma = "none"
    /\ liteVma' = "tracked"
    /\ liteRec' = <<[uvmlite_create_commit_record(0, LitePages) EXCEPT !.isAccessible = FALSE]>>
    /\ liteFresh' = [p \in LitePage |-> {"gpu"}]
    /\ UNCHANGED <<liteStreams, liteCache, liteRunning, litePage, liteUser, liteGpu, liteSetup, liteFailed>>

(* The vma is split by a partial munmap or mremap, or cloned by a fork:    *)
(* both vmas are left without records.                                     *)
_mmap_open ==
    /\ liteVma = "tracked" /\ liteVma' = "detached"
    /\ LiteBecome(uvm_destroy_region_tracker(LiteWorld))
    /\ UNCHANGED liteSetup

_mmap_close ==
    /\ liteVma = "tracked" /\ liteVma' = "none"
    /\ LiteBecome(uvm_destroy_region_tracker(LiteWorld))
    /\ UNCHANGED liteSetup

munmap_detached ==
    /\ liteVma = "detached" /\ liteVma' = "none"
    /\ UNCHANGED <<liteRec, liteStreams, liteCache, liteRunning, litePage, liteUser, liteFresh, liteGpu, liteSetup, liteFailed>>

(* uvmlite_close, once the mapping is gone: the streams that are left are  *)
(* destroyed, and the channels.                                            *)
_stop_and_destroy_leftover_streams == liteStreams' = << >> /\ liteCache' = LiteNoStream
uvmlite_close ==
    /\ liteVma = "none"
    /\ _stop_and_destroy_leftover_streams /\ liteRunning' = 0
    /\ liteGpu' = [liteGpu EXCEPT !.tracker = FALSE]
    /\ liteFailed' = FALSE
    /\ UNCHANGED <<liteVma, liteRec, litePage, liteUser, liteFresh, liteSetup>>

(* The GPU's channel, which cannot be had when the GPU is stopped or its   *)
(* resources cannot be created.                                            *)
_create_or_check_channel(fails) == liteGpu.enabled /\ (liteGpu.tracker \/ ~fails)

(* uvm_api_region_commit of the whole mapping: the channel, then the       *)
(* stream.  A failure destroys the record and detaches   *)
(* the mapping.  The user library commits a mapping before it splits it.   *)
uvm_api_region_commit(s, fails, bad) ==
    LET i == uvm_get_owner_from_region(liteRec, 0, LitePages)
        w == [LiteWorld EXCEPT !.rec[i].home = TRUE, !.gpu.tracker = TRUE]
        gone == [_clear_cache(_record_detach_from_stream(LiteWorld, i), LitePage) EXCEPT !.rec = <<>>, !.user = {}]
    IN
    /\ liteVma = "tracked" /\ liteRec[i].len = LitePages
    /\ ~\E j \in DOMAIN liteRec : liteRec[j].isChild
    /\ IF _create_or_check_channel(fails) THEN LiteBecome(_record_attach_to_stream(_stream_find_or_alloc(w, s), i, s, bad)) /\ UNCHANGED liteVma
       ELSE LiteBecome(gone) /\ liteVma' = "detached"
    /\ UNCHANGED liteSetup

(* uvm_api_region_set_stream on a whole record: the records inside it stay *)
(* in the tracker (uvm_destroy_included_regions removes none of them), and *)
(* the record joins the stream again.                                      *)
SetWhole(w, i, s, bad) == uvmlite_region_set_stream([w EXCEPT !.rec[i].hasChildren = FALSE], i, s, bad)

(* On part of a record that has no children: it is split at `length` pages *)
(* from its base, at either end, whatever the start.  The status of the    *)
(* splits is not looked at: after a failed one the whole record moves.     *)
(* (With two pages a part of a record with children is one of them; the    *)
(* loop over children is not modelled.)                                    *)
SetPart(w, i, a, n, s, bad) ==
    LET r == w.rec[i]
        one == IF a # r.base THEN uvmlite_split_commit_record(w, i, n) ELSE w
        at1 == IF a # r.base /\ one.ok THEN Len(one.rec) ELSE i
        two == IF a + n # r.base + r.len THEN uvmlite_split_commit_record(one, at1, n) ELSE one
        at2 == IF a + n # r.base + r.len /\ Len(two.rec) > Len(one.rec) THEN Len(two.rec) - 1 ELSE at1
    IN uvmlite_region_set_stream([two EXCEPT !.ok = TRUE], at2, s, bad)

uvm_api_region_set_stream(a, n, s, bad) ==
    LET i == uvm_get_owner_from_region(liteRec, a, n)
        r == liteRec[i]
    IN
    /\ liteVma = "tracked"
    /\ r.len = n \/ (~r.hasChildren /\ r.stream # LiteNoStream)
    /\ LiteBecome(IF r.base = a /\ r.len = n THEN SetWhole(LiteWorld, i, s, bad) ELSE SetPart(LiteWorld, i, a, n, s, bad))
    /\ UNCHANGED <<liteVma, liteSetup>>

(***************************************************************************)
(* Streams start and stop.  The ALL stream runs while another stream does. *)
(***************************************************************************)
_set_records_running(w, s, bad) ==
    FoldLeft(LAMBDA v, i : IF ~v.ok THEN v ELSE uvmlite_migrate_to_gpu([v EXCEPT !.rec[i].isAccessible = FALSE], i, bad),
             w, w.str[s].list)

_set_all_running(w, bad) ==
    LET a == _stream_find_or_alloc(w, StreamAll)
        b == _set_records_running(a, StreamAll, bad)
    IN IF a.str[StreamAll].isRunning THEN a
       ELSE IF b.ok THEN [b EXCEPT !.str[StreamAll].isRunning = TRUE] ELSE b

uvmlite_set_stream_running(s, bad) ==
    LET a == _stream_find_or_alloc(LiteWorld, s)
        b == _set_records_running(a, s, bad)
        c == [b EXCEPT !.run = @ + 1]
        d == IF c.run = 1 THEN _set_all_running(c, bad) ELSE c
    IN
    /\ liteRunning < LiteMaxRunning
    /\ LiteBecome(IF a.str[s].isRunning THEN a
                  ELSE IF ~b.ok THEN b
                  ELSE IF ~d.ok THEN d
                  ELSE [d EXCEPT !.str[s].isRunning = TRUE])
    /\ UNCHANGED <<liteVma, liteSetup>>

_set_records_stopped(w, s) ==
    [w EXCEPT !.rec = [i \in DOMAIN @ |-> IF i \in ToSet(w.str[s].list) THEN [@[i] EXCEPT !.isAccessible = TRUE] ELSE @[i]]]
Stopped(w, s) == _stream_destroy_if_empty([w EXCEPT !.str[s].isRunning = FALSE], s)

_set_all_stopped(w) ==
    LET a == [w EXCEPT !.cache = StreamAll] IN
    IF StreamAll \notin DOMAIN w.str THEN [w EXCEPT !.ok = FALSE]
    ELSE IF ~w.str[StreamAll].isRunning THEN a
    ELSE Stopped(_set_records_stopped(a, StreamAll), StreamAll)

(* When the last stream stops, the ALL stream does.                        *)
uvmlite_set_streams_stopped(s) ==
    LET a == [LiteWorld EXCEPT !.cache = s]
        b == [_set_records_stopped(a, s) EXCEPT !.run = @ - 1]
        c == IF b.run = 0 THEN _set_all_stopped(b) ELSE b
    IN
    /\ s \in DOMAIN liteStreams
    /\ LiteBecome(IF ~a.str[s].isRunning THEN a ELSE IF c.ok THEN Stopped(c, s) ELSE c)
    /\ UNCHANGED <<liteVma, liteSetup>>

uvm_api_migrate_to_gpu(a, n, bad) ==
    /\ liteVma = "tracked"
    /\ LiteBecome(uvmlite_migrate_to_gpu(LiteWorld, uvm_get_owner_from_region(liteRec, a, n), bad))
    /\ UNCHANGED <<liteVma, liteSetup>>

(***************************************************************************)
(* _fault_common on a page the user has not mapped.  A page that is not    *)
(* there comes from the GPU, with the pages that the prefetcher adds: it   *)
(* may take any page of the record that is not there.  A failure of the    *)
(* copy or of the checks frees the page, the one that was there too.       *)
(***************************************************************************)
migrate_gpu_to_cpu(w, P) ==
    [w EXCEPT !.page = [q \in LitePage |-> IF q \in P THEN "clean" ELSE @[q]],
              !.fresh = [q \in LitePage |-> IF q \in P /\ "gpu" \in @[q] THEN @[q] \union {"cpu"} ELSE @[q]]]

prefetch_on_fault(r, p) == SUBSET {q \in RecPages(r) \ {p} : litePage[q] = "none"}

_fault_common(p, fails, Q) ==
    LET i == uvm_get_owner_from_address(liteRec, p)
        r == liteRec[i]
        major == litePage[p] = "none"
        refuse == ~r.isAccessible \/ ~r.home
        lost == _clear_cache(LiteWorld, {p})
        mapped == [LiteWorld EXCEPT !.rec[i].mapped = TRUE, !.user = @ \union {p} \union Q]
        failed == _wait_for_migration_completion(lost, i)
    IN
    /\ liteVma = "tracked" /\ p \notin liteUser
    /\ Q \in prefetch_on_fault(r, p)
    /\ ~major => fails = "no" /\ Q = {}
    /\ refuse \/ fails # "no" \/ ~liteGpu.tracker => Q = {}
    /\ \/ refuse /\ LiteBecome(lost)
       \/ ~refuse /\ ~major /\ LiteBecome(mapped)
       \/ ~refuse /\ major /\ fails = "oom" /\ LiteBecome(LiteWorld)
       \/ ~refuse /\ major /\ fails # "oom" /\ ~liteGpu.tracker /\ LiteBecome([lost EXCEPT !.failed = TRUE])
       \/ /\ ~refuse /\ major /\ fails = "no" /\ liteGpu.tracker
          /\ LiteBecome(migrate_gpu_to_cpu(mapped, {p} \union Q))
       \/ /\ ~refuse /\ major /\ fails = "copy" /\ liteGpu.tracker
          /\ LiteBecome(IF failed.ok THEN [failed EXCEPT !.rec[i].mapped = TRUE, !.user = @ \union {p}, !.page[p] = "clean"]
                        ELSE failed)
    /\ UNCHANGED <<liteVma, liteSetup>>

(* The user's program: the CPU writes pages it has mapped, the GPU those   *)
(* of its running streams.                                                 *)
cpu_write(p) ==
    /\ p \in liteUser
    /\ litePage' = [litePage EXCEPT ![p] = "dirty"]
    /\ liteFresh' = [liteFresh EXCEPT ![p] = {"cpu"}]
    /\ UNCHANGED <<liteVma, liteRec, liteStreams, liteCache, liteRunning, liteUser, liteGpu, liteSetup, liteFailed>>

OnGpu(p) ==
    LET s == liteRec[uvm_get_owner_from_address(liteRec, p)].stream IN
    liteVma = "tracked" /\ (IF s \in DOMAIN liteStreams THEN liteStreams[s].isRunning ELSE FALSE)
gpu_write(p) ==
    /\ liteVma = "tracked" /\ OnGpu(p) /\ liteGpu.tracker
    /\ liteFresh' = [liteFresh EXCEPT ![p] = {"gpu"}]
    /\ UNCHANGED <<liteVma, liteRec, liteStreams, liteCache, liteRunning, litePage, liteUser, liteGpu, liteSetup, liteFailed>>

(* uvmlite_gpu_event_stop_device destroys the channels on the GPU;         *)
(* start_device allows commits again.                                      *)
umvlite_destroy_per_process_gpu_resources == liteGpu' = [enabled |-> FALSE, tracker |-> FALSE]
uvmlite_gpu_event_stop_device ==
    /\ liteGpu.enabled /\ liteSetup.failures
    /\ umvlite_destroy_per_process_gpu_resources
    /\ UNCHANGED <<liteVma, liteRec, liteStreams, liteCache, liteRunning, litePage, liteUser, liteFresh, liteSetup, liteFailed>>
uvmlite_gpu_event_start_device ==
    /\ ~liteGpu.enabled
    /\ liteGpu' = [liteGpu EXCEPT !.enabled = TRUE]
    /\ UNCHANGED <<liteVma, liteRec, liteStreams, liteCache, liteRunning, litePage, liteUser, liteFresh, liteSetup, liteFailed>>

LiteNext ==
    \/ uvmlite_mmap \/ munmap_detached \/ uvmlite_close
    \/ _mmap_open \/ _mmap_close
    \/ \E bad \in {0} \union IF liteSetup.failures THEN DOMAIN liteRec ELSE {} :
        \/ \E s \in LiteId, fails \in {FALSE, liteSetup.failures} : uvm_api_region_commit(s, fails, bad)
        \/ \E s \in LiteStream : uvmlite_set_stream_running(s, bad)
        \/ \E x \in LiteSpan :
            \/ \E s \in LiteId : uvm_api_region_set_stream(x[1], x[2], s, bad)
            \/ uvm_api_migrate_to_gpu(x[1], x[2], bad)
    \/ \E s \in LiteStream : uvmlite_set_streams_stopped(s)
    \/ \E p \in LitePage :
        \/ \E fails \in {"no"} \union IF liteSetup.failures THEN {"oom", "copy"} ELSE {}, Q \in SUBSET LitePage : _fault_common(p, fails, Q)
        \/ cpu_write(p) \/ gpu_write(p)
    \/ uvmlite_gpu_event_stop_device \/ uvmlite_gpu_event_start_device

LiteSpec == LiteInit /\ [][LiteNext]_liteVars

(***************************************************************************)
(* Properties                                                              *)
(***************************************************************************)
(* As long as no migration has failed, the pages of a mapping that was not *)
(* split are coherent: a page the CPU has mapped holds the latest value    *)
(* and its stream is not running, and when the stream runs the GPU's copy  *)
(* holds the latest value.                                                 *)
LiteCoherent ==
    ~liteFailed /\ liteVma = "tracked" => \A p \in LitePage :
        LET i == uvm_get_owner_from_address(liteRec, p) IN
        ~liteRec[i].isChild =>
            /\ p \in liteUser => "cpu" \in liteFresh[p] /\ ~OnGpu(p)
            /\ OnGpu(p) => "gpu" \in liteFresh[p]

(* As long as no migration has failed, runningStreams counts the running   *)
(* streams and the ALL stream runs exactly when there are any; and always  *)
(* the stream records are those that run or have records, their lists are  *)
(* those of the records, and the cache holds no freed stream.              *)
LiteStreamsExact ==
    /\ ~liteFailed =>
        /\ liteRunning = Cardinality({s \in LiteStream \intersect DOMAIN liteStreams : liteStreams[s].isRunning})
        /\ liteRunning > 0 <=> StreamAll \in DOMAIN liteStreams /\ liteStreams[StreamAll].isRunning
        /\ \A s \in DOMAIN liteStreams : liteStreams[s].isRunning \/ liteStreams[s].list # <<>>
    /\ liteCache \in DOMAIN liteStreams \union {LiteNoStream}
    /\ \A s \in DOMAIN liteStreams : ToSet(liteStreams[s].list) = {i \in DOMAIN liteRec : liteRec[i].stream = s}
    /\ \A i \in DOMAIN liteRec : liteRec[i].stream \in DOMAIN liteStreams \union {LiteNoStream}

(* uvm_lite.c on SetStreamRunning: "For each region attached to the stream *)
(* ID, or to the all-stream: 1. unmap page range from user space 2. copy   *)
(* cpu to gpu, for dirty pages only".  A page of a running stream has its  *)
(* latest value on the GPU.                                                *)
LiteRunningHasData ==
    ~liteFailed /\ liteVma = "tracked" => \A p \in LitePage : OnGpu(p) => "gpu" \in liteFresh[p]

(* uvm_lite.h on runningStreams: "Number of streams (other than NO and ALL *)
(* streams) in the running state".                                         *)
LiteRunningCounted ==
    liteRunning = Cardinality({s \in LiteStream \intersect DOMAIN liteStreams : liteStreams[s].isRunning})

(* Pages, streams and records agree.                                       *)
LiteExact == LiteCoherent /\ LiteStreamsExact
================================================================================
