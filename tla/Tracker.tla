------------------------------- MODULE Tracker -------------------------------
(***************************************************************************)
(* Trackers of pushed GPU work (uvm8_tracker.c).  One thread at a time     *)
(* uses them, under its caller's lock, while the GPUs complete work, or    *)
(* fail, on their own.  A tracker remembers one value of each channel.     *)
(***************************************************************************)
EXTENDS Integers, Sequences, FiniteSets, FiniteSetsExt, SequencesExt

CONSTANTS TkTracker, TkChannel,
          TkGpuOf,     \* the GPU of each channel
          TkFirst,     \* entries of the first dynamic allocation, 8
          TkMaxValue,  \* pushes of each channel
          TkInto,      \* which tracker is merged into which, <<dst, src>>
          TkNone,
          TkSetups     \* fails: allocations may fail, errors: channels may

ASSUME TkAssumption ==
    /\ TkFirst \in Nat \ {0, 1} /\ TkMaxValue \in [TkChannel -> Nat]
    /\ DOMAIN TkGpuOf = TkChannel /\ TkInto \subseteq TkTracker \X TkTracker
    /\ \A s \in TkSetups : {s.fails, s.errors} \subseteq BOOLEAN

VARIABLES tkTracker,  \* [TkTracker -> uvm_tracker_t]
          tkTold,     \* [TkTracker -> [TkChannel -> value it has to answer for]]
          tkGpus,     \* what was pushed and completed, channels in error, the global error
          tkCall,     \* the call that waits, or the last one that did
          tkSetup
tkVars == <<tkTracker, tkTold, tkGpus, tkCall, tkSetup>>

uvm_tracker_init == [entries |-> <<>>, max_size |-> 1]
NothingTold == [c \in TkChannel |-> 0]
(* op: wait, others (wait_for_other_gpus), entry or idle; told: what the   *)
(* call has to answer for when it returns; i: the entry that is looked at. *)
TkIdle == [op |-> "idle", t |-> TkNone, gpu |-> TkNone, i |-> 0, dst |-> TkNone, told |-> NothingTold]

TkInit ==
    /\ tkTracker = [t \in TkTracker |-> uvm_tracker_init]
    /\ tkTold = [t \in TkTracker |-> NothingTold]
    /\ tkGpus = [queued |-> NothingTold, done |-> NothingTold, failed |-> {}, error |-> FALSE]
    /\ tkCall = TkIdle
    /\ tkSetup \in TkSetups

TkOutcomes == IF tkSetup.fails THEN BOOLEAN ELSE {TRUE}
Entry(c, v) == [channel |-> c, value |-> v]
Answers(told, e) == [told EXCEPT ![e.channel] = IF e.value > @ THEN e.value ELSE @]
(* What is completed needs no answer any more.                             *)
StillPending(told, done) == [c \in TkChannel |-> IF told[c] > done[c] THEN told[c] ELSE 0]
TkUnion(told, other) == [c \in TkChannel |-> IF told[c] > other[c] THEN told[c] ELSE other[c]]
Of(tracker) == [c \in TkChannel |->
    LET mine == {i \in DOMAIN tracker.entries : tracker.entries[i].channel = c}
    IN  IF mine = {} THEN 0 ELSE tracker.entries[CHOOSE i \in mine : TRUE].value]

uvm_tracker_is_entry_completed(e) == e.value <= tkGpus.done[e.channel]

(***************************************************************************)
(* Entries                                                                 *)
(***************************************************************************)
PowerAbove(n) == CHOOSE p \in {1, 2, 4, 8, 16} : p >= n /\ (p = 1 \/ p \div 2 < n)
(* Dynamic entries never shrink; ok: an allocation would succeed.          *)
uvm_tracker_reserve(tracker, n, ok) ==
    LET needed == Len(tracker.entries) + n
        size == IF PowerAbove(needed) > TkFirst THEN PowerAbove(needed) ELSE TkFirst
    IN  IF needed <= tracker.max_size THEN [ok |-> TRUE, tracker |-> tracker]
        ELSE [ok |-> ok, tracker |-> IF ok THEN [tracker EXCEPT !.max_size = size] ELSE tracker]

uvm_tracker_clear(tracker) == [tracker EXCEPT !.entries = <<>>]

uvm_tracker_add_entry(tracker, e, ok) ==
    LET mine == {i \in DOMAIN tracker.entries : tracker.entries[i].channel = e.channel}
        room == uvm_tracker_reserve(tracker, 1, ok)
    IN  IF mine # {}
        THEN [ok |-> TRUE, tracker |->
                 [tracker EXCEPT !.entries[CHOOSE i \in mine : TRUE].value =
                     IF e.value > @ THEN e.value ELSE @]]
        ELSE IF room.ok
             THEN [ok |-> TRUE, tracker |-> [room.tracker EXCEPT !.entries = Append(@, e)]]
             ELSE room

(* The last entry takes the place of one that is completed.                *)
Removed(v, n) ==
    LET last == Len(v.s)
    IN  IF uvm_tracker_is_entry_completed(v.s[v.i])
        THEN [v EXCEPT !.s = SubSeq([v.s EXCEPT ![v.i] = v.s[last]], 1, last - 1)]
        ELSE [v EXCEPT !.i = @ + 1]
uvm_tracker_remove_completed(tracker) ==
    [tracker EXCEPT !.entries = FoldLeft(Removed, [s |-> @, i |-> 1], [k \in DOMAIN @ |-> k]).s]
uvm_tracker_is_completed(tracker) == uvm_tracker_remove_completed(tracker).entries = <<>>

(* Entries are added one by one; there is room for them.                   *)
AddedTo(dst, src) ==
    FoldLeft(LAMBDA d, e : uvm_tracker_add_entry(d, e, FALSE).tracker, dst, src.entries)
(* Mutant: every entry of the destination is taken for a common one.       *)
reserve_as_if_common(dst, src, ok) ==
    uvm_tracker_reserve(dst, Len(src.entries) - Len(dst.entries), ok)
reserve_for_entries_from_tracker(dst, src, ok) ==
    uvm_tracker_reserve(dst,
        Cardinality({i \in DOMAIN src.entries : \A k \in DOMAIN dst.entries :
                        dst.entries[k].channel # src.entries[i].channel}), ok)

(* What both trackers become; without memory, what is completed makes room *)
(* and what both know needs none.                                          *)
uvm_tracker_add_tracker(dst, src, ok) ==
    LET room == uvm_tracker_reserve(dst, Len(src.entries), ok)
        less == uvm_tracker_remove_completed(src)
        made == reserve_for_entries_from_tracker(uvm_tracker_remove_completed(dst), less, ok)
    IN  IF room.ok THEN [ok |-> TRUE, dst |-> AddedTo(room.tracker, src), src |-> src]
        ELSE [ok |-> made.ok, src |-> less,
              dst |-> IF made.ok THEN AddedTo(made.tracker, less) ELSE made.tracker]

uvm_tracker_overwrite(dst, src, ok) ==
    LET room == uvm_tracker_reserve(uvm_tracker_clear(dst), Len(src.entries), ok)
    IN  [ok |-> room.ok,
         tracker |-> IF room.ok THEN [room.tracker EXCEPT !.entries = src.entries] ELSE room.tracker]

(***************************************************************************)
(* Calls                                                                   *)
(***************************************************************************)
(* After the error that ends the driver nothing is promised any more.      *)
TkIsIdle == tkCall.op = "idle" /\ ~tkGpus.error
(* What was waited for is of interest until anything else happens.         *)
Later == tkCall' = IF tkCall.op = "idle" THEN TkIdle ELSE tkCall

(* A push ends on channel c: the callers' trackers may be told its value.  *)
EndPush(c) ==
    /\ tkGpus.queued[c] < TkMaxValue[c]
    /\ tkGpus' = [tkGpus EXCEPT !.queued[c] = @ + 1]
    /\ Later /\ UNCHANGED <<tkTracker, tkTold, tkSetup>>

(* The safe variant waits for the entry that found no room; the other      *)
(* leaves it to its caller.                                                *)
uvm_tracker_add_push(t, c, v, safe) ==
    /\ TkIsIdle /\ v \in 1 .. tkGpus.queued[c]
    /\ \E ok \in TkOutcomes :
         LET added == uvm_tracker_add_entry(tkTracker[t], Entry(c, v), ok)
             told == StillPending(Answers(tkTold[t], Entry(c, v)), tkGpus.done)
         IN  /\ tkTracker' = [tkTracker EXCEPT ![t] = added.tracker]
             /\ tkTold' = IF added.ok THEN [tkTold EXCEPT ![t] = told] ELSE tkTold
             /\ tkCall' = IF added.ok \/ ~safe THEN TkIdle
                          ELSE [TkIdle EXCEPT !.op = "entry", !.dst = t, !.told = told, !.i = v, !.gpu = c]
    /\ UNCHANGED <<tkGpus, tkSetup>>

uvm_tracker_overwrite_with_push(t, c, v) ==
    /\ TkIsIdle /\ v \in 1 .. tkGpus.queued[c]
    /\ tkTracker' = [tkTracker EXCEPT ![t] =
           uvm_tracker_add_entry(uvm_tracker_clear(@), Entry(c, v), FALSE).tracker]
    /\ tkTold' = [tkTold EXCEPT ![t] = StillPending(Answers(NothingTold, Entry(c, v)), tkGpus.done)]
    /\ tkCall' = TkIdle
    /\ UNCHANGED <<tkGpus, tkSetup>>

WaitFor(t, dst, told) == [TkIdle EXCEPT !.op = "wait", !.t = t, !.dst = dst, !.told = told]

AddTracker(dst, src, safe) ==
    /\ TkIsIdle /\ dst # src
    /\ \E ok \in TkOutcomes :
         LET added == uvm_tracker_add_tracker(tkTracker[dst], tkTracker[src], ok)
             told == TkUnion(tkTold[dst], tkTold[src])
         IN  /\ tkTracker' = [tkTracker EXCEPT ![dst] = added.dst, ![src] = added.src]
             /\ tkTold' = IF added.ok THEN [tkTold EXCEPT ![dst] = told] ELSE tkTold
             /\ tkCall' = IF added.ok \/ ~safe THEN TkIdle ELSE WaitFor(src, dst, told)
    /\ UNCHANGED <<tkGpus, tkSetup>>

Overwrite(dst, src, safe) ==
    /\ TkIsIdle /\ dst # src
    /\ \E ok \in TkOutcomes :
         LET over == uvm_tracker_overwrite(tkTracker[dst], tkTracker[src], ok)
         IN  /\ tkTracker' = [tkTracker EXCEPT ![dst] = over.tracker]
             /\ tkTold' = [tkTold EXCEPT ![dst] = IF over.ok THEN tkTold[src] ELSE NothingTold]
             /\ tkCall' = IF over.ok \/ ~safe THEN TkIdle ELSE WaitFor(src, dst, tkTold[src])
    /\ UNCHANGED <<tkGpus, tkSetup>>

(* The caller is no longer interested, or starts over without dynamic      *)
(* entries.                                                                *)
Forget(t, tracker) ==
    /\ TkIsIdle
    /\ tkTracker' = [tkTracker EXCEPT ![t] = tracker]
    /\ tkTold' = [tkTold EXCEPT ![t] = NothingTold]
    /\ tkCall' = TkIdle
    /\ UNCHANGED <<tkGpus, tkSetup>>
Clear(t) == Forget(t, uvm_tracker_clear(tkTracker[t]))
uvm_tracker_deinit(t) == tkTracker[t] # uvm_tracker_init /\ Forget(t, uvm_tracker_init)

(* A channel in error is noticed when it is looked at and is everybody's   *)
(* error from then on.                                                     *)
uvm_tracker_check_errors(tracker) ==
    tkGpus.error \/ \E i \in DOMAIN tracker.entries : tracker.entries[i].channel \in tkGpus.failed

uvm_tracker_query(t) ==
    /\ TkIsIdle
    /\ LET left == uvm_tracker_remove_completed(tkTracker[t])
       IN  /\ tkTracker' = [tkTracker EXCEPT ![t] = left]
           /\ tkGpus' = [tkGpus EXCEPT !.error = uvm_tracker_check_errors(left)]
    /\ tkCall' = TkIdle
    /\ UNCHANGED <<tkTold, tkSetup>>

(***************************************************************************)
(* Waiting                                                                 *)
(***************************************************************************)
Wait(t) ==
    /\ TkIsIdle
    /\ tkCall' = WaitFor(t, TkNone, NothingTold)
    /\ UNCHANGED <<tkTracker, tkTold, tkGpus, tkSetup>>
WaitForOtherGpus(t, gpu) ==
    /\ TkIsIdle
    /\ tkCall' = [TkIdle EXCEPT !.op = "others", !.t = t, !.gpu = gpu, !.i = 1]
    /\ UNCHANGED <<tkTracker, tkTold, tkGpus, tkSetup>>

(* The call returns: dst answers for what was waited for.                  *)
WaitReturns(ok) ==
    /\ tkCall' = IF ok THEN [tkCall EXCEPT !.op = "idle", !.dst = TkNone, !.told = NothingTold, !.i = 0]
                 ELSE TkIdle
    /\ tkTold' = IF tkCall.dst # TkNone /\ ok
                 THEN [tkTold EXCEPT ![tkCall.dst] = StillPending(tkCall.told, tkGpus.done)] ELSE tkTold

(* A round of the loop of uvm_tracker_wait.                                *)
uvm_tracker_wait ==
    /\ tkCall.op = "wait"
    /\ LET left == uvm_tracker_remove_completed(tkTracker[tkCall.t])
           bad == left.entries # <<>> /\ uvm_tracker_check_errors(left)
       IN  /\ left # tkTracker[tkCall.t] \/ left.entries = <<>> \/ bad
           /\ tkTracker' = [tkTracker EXCEPT ![tkCall.t] = IF bad THEN uvm_tracker_clear(left) ELSE left]
           /\ tkGpus' = [tkGpus EXCEPT !.error = @ \/ bad]
           /\ IF bad \/ left.entries = <<>> THEN WaitReturns(~bad) ELSE UNCHANGED <<tkTold, tkCall>>
    /\ UNCHANGED tkSetup

uvm_tracker_wait_for_entry ==
    /\ tkCall.op = "entry"
    /\ LET completed == uvm_tracker_is_entry_completed(Entry(tkCall.gpu, tkCall.i))
           bad == ~completed /\ (tkGpus.error \/ tkCall.gpu \in tkGpus.failed)
       IN  /\ completed \/ bad
           /\ tkGpus' = [tkGpus EXCEPT !.error = @ \/ bad]
           /\ IF bad THEN tkCall' = TkIdle /\ UNCHANGED tkTold
              ELSE /\ tkCall' = TkIdle
                   /\ tkTold' = [tkTold EXCEPT ![tkCall.dst] = StillPending(tkCall.told, tkGpus.done)]
    /\ UNCHANGED <<tkTracker, tkSetup>>

(* Entry after entry; those that complete are removed at the end.          *)
uvm_tracker_wait_for_other_gpus ==
    /\ tkCall.op = "others"
    /\ LET tracker == tkTracker[tkCall.t]
           e == tracker.entries[tkCall.i]
           last == tkCall.i > Len(tracker.entries)
           passed == TkGpuOf[e.channel] = tkCall.gpu \/ uvm_tracker_is_entry_completed(e)
           bad == ~last /\ ~passed /\ (tkGpus.error \/ e.channel \in tkGpus.failed)
       IN  /\ IF last \/ bad THEN TRUE ELSE passed
           /\ tkGpus' = [tkGpus EXCEPT !.error = @ \/ bad]
           /\ IF last \/ bad
              THEN /\ WaitReturns(~bad)
                   /\ tkTracker' = [tkTracker EXCEPT ![tkCall.t] =
                          IF bad THEN uvm_tracker_clear(@) ELSE uvm_tracker_remove_completed(@)]
              ELSE /\ tkCall' = [tkCall EXCEPT !.i = @ + 1]
                   /\ UNCHANGED <<tkTracker, tkTold>>
    /\ UNCHANGED tkSetup

(* A GPU completes work, or a channel of it fails for good.                *)
Complete(c) ==
    /\ tkGpus.done[c] < tkGpus.queued[c] /\ c \notin tkGpus.failed
    /\ tkGpus' = [tkGpus EXCEPT !.done[c] = @ + 1]
    /\ tkTold' = [t \in TkTracker |-> StillPending(tkTold[t], tkGpus'.done)]
    /\ Later /\ UNCHANGED <<tkTracker, tkSetup>>
ChannelFails(c) ==
    /\ tkSetup.errors /\ tkGpus.done[c] < tkGpus.queued[c] /\ tkGpus.failed = {}
    /\ tkGpus' = [tkGpus EXCEPT !.failed = {c}]
    /\ Later /\ UNCHANGED <<tkTracker, tkTold, tkSetup>>

TkNext ==
    \/ \E c \in TkChannel : EndPush(c) \/ Complete(c) \/ ChannelFails(c)
    \/ \E t \in TkTracker, c \in TkChannel : \E v \in 1 .. TkMaxValue[c] :
          \/ \E safe \in BOOLEAN : uvm_tracker_add_push(t, c, v, safe)
          \/ uvm_tracker_overwrite_with_push(t, c, v)
    \/ \E p \in TkInto, safe \in BOOLEAN : AddTracker(p[1], p[2], safe) \/ Overwrite(p[1], p[2], safe)
    \/ \E t \in TkTracker : Clear(t) \/ uvm_tracker_deinit(t) \/ uvm_tracker_query(t) \/ Wait(t)
    \/ \E t \in TkTracker, gpu \in {TkGpuOf[c] : c \in TkChannel} : WaitForOtherGpus(t, gpu)
    \/ uvm_tracker_wait \/ uvm_tracker_wait_for_entry \/ uvm_tracker_wait_for_other_gpus

TkSpec == TkInit /\ [][TkNext]_tkVars

(***************************************************************************)
(* Properties                                                              *)
(***************************************************************************)
(* What a tracker was told of, itself or through another one, it waits     *)
(* for, or it is completed, or the driver has failed for good.             *)
NothingLost ==
    tkGpus.error \/ \A t \in TkTracker, c \in TkChannel :
        tkTold[t][c] > tkGpus.done[c] => Of(tkTracker[t])[c] = tkTold[t][c]

(* It waits for nothing else, once per channel, within its array.          *)
NothingElse ==
    \A t \in TkTracker :
        /\ Len(tkTracker[t].entries) <= tkTracker[t].max_size
        /\ \A i \in DOMAIN tkTracker[t].entries : LET e == tkTracker[t].entries[i] IN
             /\ e.value <= tkGpus.done[e.channel] \/ e.value <= tkTold[t][e.channel]
             /\ \A k \in DOMAIN tkTracker[t].entries : tkTracker[t].entries[k].channel = e.channel => k = i

(* After a wait that was not cut short by an error, only the GPU that was  *)
(* named has work left of what the tracker was told.                       *)
WaitedFor ==
    (TkIsIdle /\ tkCall.t # TkNone) =>
        \A c \in TkChannel :
            tkTold[tkCall.t][c] > tkGpus.done[c] => TkGpuOf[c] = tkCall.gpu

TrackersExact == NothingLost /\ NothingElse /\ WaitedFor
==============================================================================
