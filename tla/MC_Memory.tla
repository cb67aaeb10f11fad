------------------------------- MODULE MC_Memory -------------------------------
(***************************************************************************)
(* Instances of the modules about GPU memory, UVM's tools, trackers and    *)
(* locks.  They share no state: a behaviour is one of one of them, and the *)
(* others stay as they start.                                              *)
(*                                                                         *)
(* Pmm: two root chunks of two subchunks, two VA blocks, two client        *)
(* threads and PMA's.  Each setup lets the threads make the calls of one   *)
(* scenario as often and in any order they like.                           *)
(***************************************************************************)
EXTENDS Pmm, PageTree, BlockPtes, Tools, Tracker, LockOrder, TLC

CONSTANTS o1, o2, t1, t2, p, b1, b2, m0, m1, m2, m3, m4

VARIABLE part

PmmCalls(free, first, second, pmaCalls, failures) ==
  [free |-> free, failures |-> failures,
   calls |-> (t1 :> first) @@ (t2 :> second) @@ (p :> pmaCalls)]

(* Two blocks populated from one root chunk, one of them killed, while     *)
(* splitting and zeroing a chunk may fail.                                 *)
Populating == PmmCalls({1}, {"populate", "kill"}, {"populate"}, {}, {"split", "zero"})

(* Page tables against a block and a range eviction, which may time out. *)
PageTables == PmmCalls({1}, {"populate", "touch"}, {"kernel", "evict_kernel", "free_kernel"},
                       {"range"}, {"timeout"})

(* A block killed, or killed and split, against each of PMA's callbacks. *)
PagesEvicted == PmmCalls({1}, {"populate"}, {"kill"}, {"pages"}, {})
RangeOfOne == PmmCalls({1}, {"populate"}, {"kill", "split"}, {"range"}, {})

(* Two root chunks evicted together, and other clients of PMA. *)
RangeOfTwo == PmmCalls({1, 2}, {"populate"}, {}, {"range", "other"}, {})

(* One thread, two root chunks, evictions that fail. *)
FailingAlone == PmmCalls({1, 2}, {"populate", "kill", "evict_kernel", "free_kernel"}, {}, {},
                         {"evict", "track", "split"})

PmmParts == {Populating, PageTables, PagesEvicted, RangeOfOne, RangeOfTwo, FailingAlone}

BlockSymmetry == Permutations({b1, b2})

(* PageTree: a thread that wants 4k entries and one beside it that wants   *)
(* the same, a 2M entry, or two ranges at once.                            *)
Want(size, path, first, last) == [size |-> size, path |-> path, first |-> first, last |-> last]
Small == Want("small", <<0, 0>>, 0, 1)
PtWants ==
    t1 :> {<<Small>>, <<Want("2m", <<0>>, 1, 1)>>} @@
    t2 :> {<<Small>>, <<Want("big", <<0, 0>>, 0, 0), Want("big", <<0, 1>>, 0, 0)>>}
PtParts == {[sys |-> FALSE]}

BpOff == [two_m |-> FALSE, retry |-> FALSE, cancel |-> FALSE, split |-> FALSE, remove |-> FALSE,
          again |-> FALSE]
BpParts ==
    {[BpOff EXCEPT !.two_m = TRUE, !.cancel = TRUE, !.remove = TRUE],
     [BpOff EXCEPT !.two_m = TRUE, !.split = TRUE],
     [BpOff EXCEPT !.split = TRUE, !.cancel = TRUE, !.remove = TRUE],
     [BpOff EXCEPT !.retry = TRUE]}
BpAsked == {0..4, {2}}

TqParts == {[part |-> x, fails |-> FALSE] : x \in {"queue", "subs", "migs"}}

(* Tracker: two channels of two GPUs, one tracker merged into the other.   *)
TkGpus == m1 :> t1 @@ m2 :> t2
TkValues == m1 :> 2 @@ m2 :> 1
TkMerges == {<<o1, o2>>}
TkParts == {[fails |-> x, errors |-> ~x] : x \in BOOLEAN}

(* LockOrder: two threads, the bottom half and RM, then two threads with   *)
(* two block locks of which one may disable the tracking.                  *)
LoParts ==
    {[fails |-> FALSE, skips |-> FALSE, threads |-> {t1, t2, p}, blocks |-> {m1}],
     [fails |-> FALSE, skips |-> TRUE, threads |-> {t1, t2}, blocks |-> {m1, m2}]}

(* Every setup of the module that runs, one of each other module.          *)
Runs(name, it, setups) == part = name \/ it = CHOOSE s \in setups : TRUE

MCInit ==
    /\ part \in {"pmm", "page_tree", "ptes", "tools", "trackers", "locks"}
    /\ Init /\ Runs("pmm", setup, Setups)
    /\ PtInit /\ Runs("page_tree", ptSetup, PtSetups)
    /\ BpInit /\ Runs("ptes", bpSetup, BpSetups) /\ Runs("ptes", bpWatch, {2})
    /\ TqInit /\ Runs("tools", tqSetup, TqSetups)
    /\ TkInit /\ Runs("trackers", tkSetup, TkSetups)
    /\ LoInit /\ Runs("locks", loSetup, LoSetups)

Rest(name) ==
    /\ part = name /\ UNCHANGED part
    /\ IF name = "pmm" THEN TRUE ELSE UNCHANGED vars
    /\ IF name = "page_tree" THEN TRUE ELSE UNCHANGED ptVars
    /\ IF name = "ptes" THEN TRUE ELSE UNCHANGED bpVars
    /\ IF name = "tools" THEN TRUE ELSE UNCHANGED tqVars
    /\ IF name = "trackers" THEN TRUE ELSE UNCHANGED tkVars
    /\ IF name = "locks" THEN TRUE ELSE UNCHANGED loVars

mcVars == <<part, vars, ptVars, bpVars, tqVars, tkVars, loVars>>

(* Only Pmm and LockOrder never stop.                                      *)
MCNext ==
    \/ Rest("pmm") /\ Next
    \/ Rest("page_tree") /\ PtNext
    \/ Rest("ptes") /\ BpNext
    \/ Rest("tools") /\ TqNext
    \/ Rest("trackers") /\ TkNext
    \/ Rest("locks") /\ LoNext
    \/ part \notin {"pmm", "locks"} /\ UNCHANGED mcVars

MCSpec == MCInit /\ [][MCNext]_mcVars

(* Pmm: every allocated chunk is its client's, the lists, counters and bits *)
(* agree, and PMA is told the truth.                                       *)
ChunksOwned == part = "pmm" => ClientsOwnTheirChunks
ChunksBooked == part = "pmm" => BooksExact
PmaToldTheTruth == part = "pmm" => PmaExact

(* What the page tables hold is what was asked for and counted (PageTree,  *)
(* BlockPtes).                                                             *)
PageTablesExact == (part = "page_tree" => PageTreeExact) /\ (part = "ptes" => BlockPtesExact)

(* Events and counters reach those that subscribed (Tools).                *)
ToolsInformed == part = "tools" => ToolsExact

(* Trackers answer for all they were told (Tracker).                       *)
TrackersAnswer == part = "trackers" => TrackersExact
================================================================================
