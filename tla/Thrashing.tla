------------------------------ MODULE Thrashing ------------------------------
(***************************************************************************)
(* Detection of thrashing pages of one VA block (uvm8_perf_thrashing.c)    *)
(* and what fault servicing does with its hints.  Stamps are kept as the   *)
(* time since, up to ThOld.  A batch of faults is serviced under the       *)
(* block's lock: one hint per page, then migrations and revocations, which *)
(* are the events, then the mappings.                                      *)
(***************************************************************************)
EXTENDS Integers, FiniteSets, FiniteSetsExt

CONSTANTS ThCpu, ThGpu,
          ThPages,         \* pages of the block, 0 and up
          ThLapse, ThEpoch,
          ThMaxEvents,     \* UVM_PERF_THRASHING_THRESHOLD_MAX
          ThPinThreshold, ThMaxResets,
          ThNone,
          ThSetups
          (* threshold; preferred: location of the range, or ThNone;       *)
          (* nvlink: GPUs are linked; slow: a batch may take an epoch;     *)
          (* fails: allocations and loading may fail; who faults on which  *)
          (* pages, in how many batches                                    *)

ThProcessor == ThGpu \union {ThCpu}
ASSUME ThAssumption ==
    /\ {ThLapse, ThEpoch, ThMaxEvents, ThPinThreshold} \subseteq Nat \ {0}
    /\ ThMaxResets \in Nat
    /\ ThLapse < ThEpoch /\ ThPages \subseteq Nat /\ ThCpu \notin ThGpu /\ ThNone \notin ThProcessor
    /\ \A s \in ThSetups :
          /\ s.threshold \in 1 .. ThMaxEvents /\ s.preferred \in ThProcessor \union {ThNone}
          /\ {s.nvlink, s.slow, s.fails} \subseteq BOOLEAN
          /\ s.who \subseteq ThProcessor /\ s.pages \subseteq ThPages /\ s.batches \in Nat

VARIABLES thLoaded, \* events whose callback is registered
          thInfo,   \* block_thrashing_info_t, see NoInfo
          thPage,   \* [ThPages -> page_thrashing_info_t, see NoPage]
          thHome,   \* [ThPages -> where the page is]
          thBatch,  \* faults being serviced, see NoBatch
          thOpen,   \* <<page, GPU>>: throttling that started, for the tools
          thDropped,\* those whose pages were freed before an end was recorded
          thBatches,\* number of batches so far
          thSetup

thVars == <<thLoaded, thInfo, thPage, thHome, thBatch, thOpen, thDropped, thBatches, thSetup>>

ThOld == ThEpoch + 1
ThNever == ThEpoch + 2   \* a stamp of 0
(* on: the struct exists; pages: its array does; proc and seen: of the     *)
(* last event, last: the last event on a thrashing page.                   *)
NoInfo == [on |-> FALSE, pages |-> FALSE, num |-> 0, mask |-> {}, proc |-> ThNone,
           seen |-> ThNever, last |-> ThNever, resets |-> 0]
NoPage == [seen |-> ThNever, events |-> 0, migrated |-> FALSE, revoked |-> FALSE,
           pinned |-> FALSE, throttles |-> 0, procs |-> {}, throttled |-> {}]
(* who faults, or ThNone; faults: pages not looked at yet; want: where the *)
(* others will be; pins: thrashing_pin_mask; spent: time it has taken.     *)
NoBatch == [who |-> ThNone, faults |-> {}, want |-> [p \in ThPages |-> ThNone], pins |-> {},
            spent |-> 0]
g_callbacks_thrashing == {"destroy", "unload", "shrink", "migration", "revocation"}

ThInit ==
    /\ thLoaded = {} /\ thInfo = NoInfo /\ thPage = [p \in ThPages |-> NoPage]
    /\ thHome = [p \in ThPages |-> ThCpu] /\ thBatch = NoBatch /\ thOpen = {} /\ thDropped = {}
    /\ thBatches = 0 /\ thSetup \in ThSetups

ThOutcomes == IF thSetup.fails THEN BOOLEAN ELSE {TRUE}
ThTracked == thLoaded # {}
accessible_from(home) ==
    IF home = ThCpu THEN ThProcessor ELSE IF thSetup.nvlink THEN ThGpu ELSE {home}
has_nvlink_from(home) == IF home = ThCpu \/ ~thSetup.nvlink THEN {} ELSE ThGpu
Older(age, n) == IF age = ThNever THEN ThNever ELSE Min({age + n, ThOld})
Thrashes(page) == page.events >= thSetup.threshold

(***************************************************************************)
(* The module in a VA space                                                *)
(***************************************************************************)
(* Callbacks are registered for all events or none.                        *)
uvm_perf_module_load ==
    /\ thLoaded = {} /\ thInfo = NoInfo
    /\ \E ok \in ThOutcomes : thLoaded' = IF ok THEN g_callbacks_thrashing ELSE {}
    /\ UNCHANGED <<thInfo, thPage, thHome, thBatch, thOpen, thDropped, thBatches, thSetup>>

thrashing_info_destroy ==
    /\ thInfo' = NoInfo /\ thPage' = [p \in ThPages |-> NoPage]
    /\ thDropped' = thDropped \union thOpen

(* The block is destroyed or shrinks: its data goes, if it is listened to. *)
thrashing_block_destroy_cb(event) ==
    /\ thBatch = NoBatch /\ event \in {"destroy", "shrink"}
    /\ IF event \in thLoaded THEN thrashing_info_destroy ELSE UNCHANGED <<thInfo, thPage, thDropped>>
    /\ UNCHANGED <<thLoaded, thHome, thBatch, thOpen, thBatches, thSetup>>

(* The data of every block goes, then the callbacks.                       *)
uvm_perf_module_unload ==
    /\ thBatch = NoBatch /\ ThTracked
    /\ IF "unload" \in thLoaded THEN thrashing_info_destroy ELSE UNCHANGED <<thInfo, thPage, thDropped>>
    /\ thLoaded' = {}
    /\ UNCHANGED <<thHome, thBatch, thOpen, thBatches, thSetup>>

(***************************************************************************)
(* Hints                                                                   *)
(***************************************************************************)
(* Its throttling ends; what was pinned and counted stays.                 *)
thrashing_reset_page(p, info, pages, open) ==
    [info |-> [info EXCEPT !.num = @ - 1, !.mask = @ \ {p}],
     pages |-> [pages EXCEPT ![p] = [@ EXCEPT !.seen = ThNever, !.events = 0, !.migrated = FALSE,
                                              !.revoked = FALSE, !.throttled = {}]],
     open |-> open \ ({p} \X pages[p].throttled)]

HintOf(type, where) == [type |-> type, where |-> where]
Throttled(page, who) ==
    IF who \in page.throttled THEN page
    ELSE [page EXCEPT !.throttled = @ \union {who},
                      !.throttles = Min({@ + 1, ThPinThreshold})]
Pinned(page) == [page EXCEPT !.pinned = TRUE]

get_hint_for_revocation_thrashing(page) == HintOf("throttle", ThNone)

(* The closest copy is at home, if home is one of those that want it.      *)
get_hint_for_migration_thrashing(p, page, who) ==
    LET closest == IF thHome[p] \in page.procs THEN thHome[p] ELSE ThNone
        near == closest # ThNone /\ who \in accessible_from(closest)
    IN  IF thSetup.preferred # ThNone
        THEN IF who \in accessible_from(thSetup.preferred) THEN HintOf("pin", thSetup.preferred)
             ELSE HintOf("throttle", ThNone)
        ELSE IF closest # ThNone /\ page.procs \subseteq has_nvlink_from(closest)
        THEN HintOf("pin", closest)
        ELSE IF page.throttles >= ThPinThreshold /\ ~page.pinned
        THEN HintOf("pin", IF near THEN closest ELSE who)
        ELSE HintOf("throttle", ThNone)

(* What a hint and the tables become, as [hint, info, pages, open, drop].  *)
uvm_perf_thrashing_get_hint(p, who) ==
    LET page == [thPage[p] EXCEPT !.procs = @ \union {who}]
        same == [hint |-> HintOf("none", ThNone), info |-> thInfo, pages |-> thPage,
                 open |-> thOpen, drop |-> {}]
        reset == thrashing_reset_page(p, thInfo, thPage, thOpen)
        hint == IF page.revoked /\ ~page.migrated THEN get_hint_for_revocation_thrashing(page)
                ELSE get_hint_for_migration_thrashing(p, page, who)
    IN  IF ~thInfo.pages THEN same
        ELSE IF thInfo.last # ThNever /\ thInfo.resets < ThMaxResets /\ thInfo.last > ThEpoch
        THEN [same EXCEPT !.info = [NoInfo EXCEPT !.on = TRUE, !.resets = thInfo.resets + 1],
                          !.pages = [q \in ThPages |-> NoPage], !.drop = thOpen]
        ELSE IF ~Thrashes(thPage[p]) THEN same
        ELSE IF thPage[p].seen > ThLapse
        THEN [same EXCEPT !.info = reset.info, !.pages = reset.pages, !.open = reset.open]
        ELSE [same EXCEPT !.hint = hint,
                 !.pages[p] = IF hint.type = "pin" THEN Pinned(page) ELSE Throttled(page, who),
                 !.open = IF hint.type = "throttle" /\ who \in ThGpu \ thPage[p].throttled
                          THEN @ \union {<<p, who>>} ELSE @]

(***************************************************************************)
(* Events                                                                  *)
(***************************************************************************)
(* Mutant: a page counts as thrashing only with its next event.            *)
thrashing_detected_late(page, who, kind) ==
    LET seen == [page EXCEPT !.pinned = @ /\ who \in page.procs, !.procs = @ \union {who}, !.seen = 0]
        events == Min({page.events + 1, ThMaxEvents})
    IN  IF page.seen = ThNever THEN [page |-> seen, detected |-> FALSE, over |-> FALSE]
        ELSE IF page.seen <= ThLapse
        THEN [page |-> [seen EXCEPT !.events = events, !.migrated = @ \/ kind = "migration",
                                    !.revoked = @ \/ kind = "revocation"],
              detected |-> events = thSetup.threshold + 1, over |-> FALSE]
        ELSE [page |-> seen, detected |-> FALSE, over |-> Thrashes(page)]

(* One page of the event: what it becomes, whether thrashing is detected   *)
(* and whether it is over.                                                 *)
PageEvent(page, who, kind) ==
    LET seen == [page EXCEPT !.pinned = @ /\ who \in page.procs, !.procs = @ \union {who}, !.seen = 0]
        events == Min({page.events + 1, ThMaxEvents})
    IN  IF page.seen = ThNever THEN [page |-> seen, detected |-> FALSE, over |-> FALSE]
        ELSE IF page.seen <= ThLapse
        THEN [page |-> [seen EXCEPT !.events = events, !.migrated = @ \/ kind = "migration",
                                    !.revoked = @ \/ kind = "revocation"],
              detected |-> events = thSetup.threshold, over |-> FALSE]
        ELSE [page |-> seen, detected |-> FALSE, over |-> Thrashes(page)]

(* Pages of a region, one after the other.                                 *)
UpdatePage(who, kind, p, t) ==
    LET x == PageEvent(t.pages[p], who, kind)
        info == IF x.detected THEN [t.info EXCEPT !.num = @ + 1, !.mask = @ \union {p}] ELSE t.info
        pages == [t.pages EXCEPT ![p] = x.page]
        again == thrashing_reset_page(p, info, pages, t.open)
    IN  IF x.over THEN again
        ELSE [info |-> IF Thrashes(x.page) /\ t.pages[p].seen <= ThLapse
                       THEN [info EXCEPT !.last = 0] ELSE info,
              pages |-> pages, open |-> t.open]

(* Pages are followed once two processors had events within a lapse.       *)
thrashing_event_cb(kind, who, region, info, ok) ==
    LET on == [info EXCEPT !.on = TRUE]
        follow == on.pages \/ (on.seen <= ThLapse /\ on.proc # who /\ ok)
        t == FoldSet(LAMBDA p, t : UpdatePage(who, kind, p, t),
                     [info |-> [on EXCEPT !.pages = TRUE], pages |-> thPage, open |-> thOpen], region)
        after == IF follow THEN t ELSE [info |-> on, pages |-> thPage, open |-> thOpen]
    IN  IF ~info.on /\ ~ok THEN [info |-> info, pages |-> thPage, open |-> thOpen]
        ELSE [after EXCEPT !.info.seen = 0, !.info.proc = who]

(***************************************************************************)
(* Fault servicing                                                         *)
(***************************************************************************)
(* A fault of the CPU is one page, a GPU's batch may have several.         *)
BeginBatch(who, faults) ==
    /\ thBatch = NoBatch /\ thBatches < thSetup.batches /\ faults # {}
    /\ (who = ThCpu => Cardinality(faults) = 1)
    /\ thBatch' = [NoBatch EXCEPT !.who = who, !.faults = faults] /\ thBatches' = thBatches + 1
    /\ UNCHANGED <<thLoaded, thInfo, thPage, thHome, thOpen, thDropped, thSetup>>

(* The CPU always moves pages to itself, and so does the preferred one.    *)
select_residency_after_fault(p, hint) ==
    IF thBatch.who \in {ThCpu, thSetup.preferred} THEN thBatch.who
    ELSE IF hint.type = "pin" THEN hint.where
    ELSE IF thHome[p] = thSetup.preferred /\ thBatch.who \in accessible_from(thHome[p])
    THEN thHome[p] ELSE thBatch.who

(* The first fault left.  A throttled one waits for a later batch.         *)
ServiceFault ==
    LET p == Min(thBatch.faults)
        x == uvm_perf_thrashing_get_hint(p, thBatch.who)
    IN  /\ thBatch.faults # {}
        /\ thInfo' = x.info /\ thPage' = x.pages /\ thOpen' = x.open
        /\ thDropped' = thDropped \union x.drop
        /\ thBatch' = [thBatch EXCEPT
              !.faults = @ \ {p}, !.pins = IF x.hint.type = "pin" THEN @ \union {p} ELSE @,
              !.want[p] = IF x.hint.type = "throttle" THEN ThNone
                          ELSE select_residency_after_fault(p, x.hint)]
        /\ UNCHANGED <<thLoaded, thHome, thBatches, thSetup>>

(* Pages move to where they are wanted, one region at a time; those that   *)
(* are there already may cost others their permission instead.  Then the   *)
(* pages are mapped, pinned ones for all that thrash, and it is over.      *)
Moves(where) == {p \in ThPages : thBatch.want[p] = where /\ thHome[p] # where}
ServiceMigration(where) ==
    LET region == Moves(where)
    IN  /\ thBatch.faults = {} /\ region # {}
        /\ thHome' = [p \in ThPages |-> IF p \in region THEN where ELSE thHome[p]]
        /\ IF "migration" \notin thLoaded THEN UNCHANGED <<thInfo, thPage, thOpen>>
           ELSE \E ok \in ThOutcomes :
                   LET x == thrashing_event_cb("migration", where, region, thInfo, ok)
                   IN  thInfo' = x.info /\ thPage' = x.pages /\ thOpen' = x.open
        /\ UNCHANGED <<thLoaded, thBatch, thDropped, thBatches, thSetup>>

ServiceRevocation(p) ==
    /\ thBatch.faults = {} /\ p \in ThPages /\ thBatch.want[p] = thHome[p]
    /\ \E who \in thSetup.who \ {thBatch.who, thHome[p]} :
          IF "revocation" \notin thLoaded THEN UNCHANGED <<thInfo, thPage, thOpen>>
          ELSE \E ok \in ThOutcomes :
                  LET x == thrashing_event_cb("revocation", who, {p}, thInfo, ok)
                  IN  thInfo' = x.info /\ thPage' = x.pages /\ thOpen' = x.open
    /\ thBatch' = [thBatch EXCEPT !.want[p] = ThNone]
    /\ UNCHANGED <<thLoaded, thHome, thDropped, thBatches, thSetup>>

uvm_perf_thrashing_get_thrashing_processors(p) == thPage[p].procs
ServiceMapping ==
    /\ thBatch.who # ThNone /\ thBatch.faults = {} /\ \A where \in ThProcessor : Moves(where) = {}
    /\ thBatch' = NoBatch
    /\ UNCHANGED <<thLoaded, thInfo, thPage, thHome, thOpen, thDropped, thBatches, thSetup>>

(* A batch takes less than what is between a lapse and an epoch, unless    *)
(* slow.                                                                   *)
ThTick ==
    /\ thBatch # NoBatch => thSetup.slow \/ thBatch.spent < ThEpoch - ThLapse
    /\ thBatch' = IF thBatch = NoBatch THEN thBatch
                  ELSE [thBatch EXCEPT !.spent = Min({@ + 1, ThEpoch})]
    /\ thInfo' = [thInfo EXCEPT !.seen = Older(@, 1), !.last = Older(@, 1)]
    /\ thPage' = [p \in ThPages |-> [thPage[p] EXCEPT !.seen = Older(@, 1)]]
    /\ UNCHANGED <<thLoaded, thHome, thOpen, thDropped, thBatches, thSetup>>

ThNext ==
    \/ uvm_perf_module_load
    \/ \E event \in {"destroy", "shrink"} : thrashing_block_destroy_cb(event)
    \/ uvm_perf_module_unload
    \/ \E who \in thSetup.who, faults \in SUBSET thSetup.pages : BeginBatch(who, faults)
    \/ ServiceFault
    \/ \E where \in ThProcessor : ServiceMigration(where)
    \/ \E p \in ThPages : ServiceRevocation(p)
    \/ ServiceMapping
    \/ ThTick

ThSpec == ThInit /\ [][ThNext]_thVars

(***************************************************************************)
(* Properties                                                              *)
(***************************************************************************)
(* The mask and the count of thrashing pages, which prefetching subtracts, *)
(* are those whose events reached the threshold.                           *)
MaskExact ==
    /\ thInfo.mask = {p \in ThPages : Thrashes(thPage[p])}
    /\ thInfo.num = Cardinality(thInfo.mask)

(* Only what is thrashing is throttled, and a thrashing page had an event  *)
(* not before the block's last: an epoch without one finds all of them.    *)
ThrottledThrash ==
    \A p \in ThPages :
        /\ thPage[p].throttled # {} => p \in thInfo.mask
        /\ p \in thInfo.mask => thInfo.last <= thPage[p].seen /\ thPage[p].procs # {}

(* Pages that were pinned earlier in a batch are still followed when they  *)
(* are mapped, for whoever faulted too.                                    *)
PinsFollowed ==
    \A p \in thBatch.pins :
        thInfo.pages /\ thBatch.who \in uvm_perf_thrashing_get_thrashing_processors(p)

(* Throttling that started has an end to come, or its page was dropped.    *)
ThrottlingPaired ==
    LET throttled == UNION {{p} \X (thPage[p].throttled \ {ThCpu}) : p \in ThPages}
    IN  throttled \subseteq thOpen /\ thOpen \subseteq throttled \union thDropped

(* Data exists only while there is somebody to free it.                    *)
DataListened == thInfo.on => ThTracked

ThrashingExact ==
    MaskExact /\ ThrottledThrash /\ PinsFollowed /\ ThrottlingPaired /\ DataListened
==============================================================================
