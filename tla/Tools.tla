--------------------------------- MODULE Tools ---------------------------------
(***************************************************************************)
(* UVM's tools (uvm8_tools.c, uvm8_perf_events.c).  A setup explores one   *)
(* of three parts that meet only through locks:                            *)
(*                                                                         *)
(*   queue  one event queue shared with user space: the kernel puts, user  *)
(*          space gets, a reader sleeps in poll;                           *)
(*   subs   files that become event trackers, what they subscribe to, the  *)
(*          callbacks this registers, and the events that reach them;      *)
(*   migs   the records of migrations in flight, the list of channels that *)
(*          have some, and who frees them.                                 *)
(***************************************************************************)
EXTENDS Naturals, Sequences, FiniteSets

CONSTANTS TqSize,       \* entries of the queue
          TqThresholds, \* the notification thresholds user space sets
          TqMaxEvents,  \* bound: events recorded
          TqTracker,    \* event tracker objects; none is used twice
          TqMig,        \* records of migrations; none is used twice
          TqChannel,    \* channels of the VA space
          TqThread,     \* threads that flush events
          TqNone,
          TqSetups      \* the setups to explore, see TqAssumption

(* part: see above; fails: the memory of a callback may be missing.        *)
ASSUME TqAssumption ==
    /\ TqSize \in {2, 4, 8, 16} /\ TqThresholds \subseteq Nat /\ TqMaxEvents \in Nat
    /\ TqNone \notin TqTracker \union TqMig \union TqThread
    /\ \A s \in TqSetups : s.part \in {"queue", "subs", "migs"} /\ s.fails \in BOOLEAN

VARIABLES
    tqQueue,   \* the queue and its control page
    tqReader,  \* a thread of user space that waits for events
    tqSpace,   \* va_space->tools, its callbacks and its place in the global list
    tqTrack,   \* [TqTracker -> event tracker]
    tqMig,     \* [TqMig -> block_migration_data_t]
    tqList,    \* tools.channel_list: the migs whose self_channel_entry is linked
    tqFlush,   \* [TqThread -> uvm_tools_schedule_completed_events]
    tqLife,    \* how far the destruction of the VA space is
    tqSetup

tqQueueVars == <<tqQueue, tqReader>>
tqSubVars == <<tqSpace, tqTrack>>
tqMigVars == <<tqMig, tqList, tqFlush, tqLife>>
tqVars == <<tqQueueVars, tqSubVars, tqMigVars, tqSetup>>

(* get_ahead and get_behind are written by user space; kept: the events    *)
(* accepted and not given back yet.                                        *)
NoQueue == [slot |-> [i \in 0..TqSize - 1 |-> 0], get_ahead |-> 0, get_behind |-> 0,
            put_behind |-> 0, dropped |-> 0, threshold |-> TqSize \div 2,
            is_wakeup_get_valid |-> FALSE, wakeup_get |-> 0, sent |-> 0, kept |-> <<>>]

(* at: awake, window (poll has looked and is not on the wait queue yet),   *)
(* asleep or woken; missed: a wake-up was given in the window.             *)
NoReader == [at |-> "awake", missed |-> FALSE]

(* mem: unused, live or freed; mapped: its user pages are held; subs: the  *)
(* lists it is in; seen: events it was given; owed: events it subscribed.  *)
NoTracker == [mem |-> "unused", is_queue |-> FALSE, mapped |-> FALSE, subs |-> {},
              seen |-> 0, owed |-> 0]

(* at: none, pushed, done (by the GPU), queued (for the kthread), recorded *)
(* channel_entry: the mig whose entry counts this one; pending_event_count *)
(* and parent_alive belong to its own entry.                               *)
NoMig == [at |-> "none", mem |-> "unused", channel |-> TqNone, channel_entry |-> TqNone,
          pending_event_count |-> 0, parent_alive |-> FALSE]

TqCallbacks == {"fault", "migration", "begin"}
TqMasks == {{"fault"}, {"migration", "replay"}}

TqInit ==
    /\ tqQueue = NoQueue /\ tqReader = NoReader
    /\ tqSpace = [enabled |-> FALSE, listed |-> FALSE, private_data |-> TqNone, refs |-> 0,
                  callbacks |-> [c \in TqCallbacks |-> 0]]
    /\ tqTrack = [k \in TqTracker |-> NoTracker]
    /\ tqMig = [m \in TqMig |-> NoMig] /\ tqList = <<>>
    /\ tqFlush = [t \in TqThread |-> [at |-> "none", count |-> 0, i |-> 0, entry |-> TqNone]]
    /\ tqLife = "live"
    /\ tqSetup \in TqSetups

TqOutcomes(mayFail) == IF mayFail THEN BOOLEAN ELSE {TRUE}

(***************************************************************************)
(* The queue                                                               *)
(***************************************************************************)
TqNext1(i) == (i + 1) % TqSize

queue_needs_wakeup(q) == (TqSize + q.put_behind - q.get_ahead) % TqSize >= q.threshold

(* Whoever sleeps is woken; a reader not on the wait queue hears nothing.  *)
WokenReader ==
    CASE tqReader.at = "asleep" -> [tqReader EXCEPT !.at = "woken"]
      [] tqReader.at = "window" -> [tqReader EXCEPT !.missed = TRUE]
      [] OTHER -> tqReader

(* One event under the queue's lock: dropped if the queue is full; a       *)
(* wake-up is given once per value of get_ahead.                           *)
enqueue_event ==
    LET q == tqQueue
        event == q.sent + 1
        put == [q EXCEPT !.sent = event, !.slot[q.put_behind] = event,
                         !.put_behind = TqNext1(@), !.kept = Append(@, event)]
        wakes == /\ queue_needs_wakeup(put)
                 /\ ~(q.is_wakeup_get_valid /\ q.wakeup_get = q.get_ahead)
    IN  /\ tqSetup.part = "queue" /\ q.sent < TqMaxEvents
        /\ IF (TqSize + q.get_behind - q.put_behind) % TqSize = 1
           THEN tqQueue' = [q EXCEPT !.sent = event, !.dropped = @ + 1] /\ UNCHANGED tqReader
           ELSE /\ tqQueue' = IF wakes THEN [put EXCEPT !.is_wakeup_get_valid = TRUE,
                                                        !.wakeup_get = q.get_ahead]
                              ELSE put
                /\ tqReader' = IF wakes THEN WokenReader ELSE tqReader
        /\ UNCHANGED <<tqSubVars, tqMigVars, tqSetup>>

(* Mutant: the wake-up already given is not forgotten.                     *)
poll_keeps_wakeup(q) == q

poll_snapshot(q) == [q EXCEPT !.is_wakeup_get_valid = FALSE]

(* The queue is looked at under its lock; poll_wait comes after it.        *)
PollLooks ==
    /\ tqSetup.part = "queue" /\ tqReader.at = "awake"
    /\ tqQueue' = poll_snapshot(tqQueue)
    /\ tqReader' = IF queue_needs_wakeup(tqQueue) THEN NoReader
                   ELSE [at |-> "window", missed |-> FALSE]
    /\ UNCHANGED <<tqSubVars, tqMigVars, tqSetup>>

PollWaits ==
    /\ tqReader.at = "window"
    /\ tqReader' = [tqReader EXCEPT !.at = "asleep"]
    /\ UNCHANGED <<tqQueue, tqSubVars, tqMigVars, tqSetup>>

(* The kernel's loop calls poll again; the reader is on the queue already. *)
uvm_tools_poll ==
    /\ tqReader.at = "woken"
    /\ tqQueue' = poll_snapshot(tqQueue)
    /\ tqReader' = IF queue_needs_wakeup(tqQueue) THEN NoReader ELSE [NoReader EXCEPT !.at = "asleep"]
    /\ UNCHANGED <<tqSubVars, tqMigVars, tqSetup>>

uvm_api_tools_set_notification_threshold(n) ==
    LET q == [tqQueue EXCEPT !.threshold = n]
    IN  /\ tqSetup.part = "queue" /\ n # tqQueue.threshold
        /\ tqQueue' = q
        /\ tqReader' = IF queue_needs_wakeup(q) THEN WokenReader ELSE tqReader
        /\ UNCHANGED <<tqSubVars, tqMigVars, tqSetup>>

(* User space claims an entry, copies it and gives the oldest back.        *)
UserClaims ==
    /\ tqQueue.get_ahead # tqQueue.put_behind
    /\ tqQueue' = [tqQueue EXCEPT !.get_ahead = TqNext1(@)]
    /\ UNCHANGED <<tqReader, tqSubVars, tqMigVars, tqSetup>>

UserGivesBack ==
    /\ tqQueue.get_behind # tqQueue.get_ahead
    /\ tqQueue' = [tqQueue EXCEPT !.get_behind = TqNext1(@), !.kept = Tail(@)]
    /\ UNCHANGED <<tqReader, tqSubVars, tqMigVars, tqSetup>>

(***************************************************************************)
(* Trackers and subscriptions; every change is under the locks of the      *)
(* global list and of the VA space's events, both for writing              *)
(***************************************************************************)
tools_are_enabled(tracks) == \E k \in TqTracker : tracks[k].subs # {}

(* The callbacks are registered in order; a failure leaves the earlier     *)
(* ones, and the status as it was.                                         *)
tools_register_perf_events(space, registered) ==
    [space EXCEPT !.callbacks = [c \in TqCallbacks |-> @[c] + IF c \in registered THEN 1 ELSE 0]]

(* Unregistering removes one description of the callback, if there is one. *)
tools_unregister_perf_events(space) ==
    [space EXCEPT !.callbacks = [c \in TqCallbacks |-> IF @[c] = 0 THEN 0 ELSE @[c] - 1]]

TqRegistered == {{"fault", "migration", "begin"}} \union
    IF tqSetup.fails THEN {{}, {"fault"}, {"fault", "migration"}} ELSE {}

tools_update_status(tracks, space, registered) ==
    LET should == tools_are_enabled(tracks)
    IN  IF should = space.enabled THEN space
        ELSE IF ~should THEN [tools_unregister_perf_events(space) EXCEPT
                                  !.listed = FALSE, !.enabled = FALSE]
        ELSE IF registered = TqCallbacks
        THEN [tools_register_perf_events(space, registered) EXCEPT !.listed = TRUE, !.enabled = TRUE]
        ELSE tools_register_perf_events(space, registered)

(* The tracker, a reference to the UVM file, and the user's pages.  What   *)
(* fails before the file is known only frees the tracker.                  *)
InitTracker(k, is_queue) ==
    /\ tqSetup.part = "subs" /\ tqTrack[k].mem = "unused"
    /\ tqTrack' = [tqTrack EXCEPT ![k].mem = "live", ![k].is_queue = is_queue, ![k].mapped = TRUE]
    /\ tqSpace' = [tqSpace EXCEPT !.refs = @ + 1]
    /\ UNCHANGED <<tqQueueVars, tqMigVars, tqSetup>>

(* Out of its lists, unmapped, the status brought up to date, the file put *)
destroy_event_tracker(k, space) ==
    LET tracks == [tqTrack EXCEPT ![k].subs = {}, ![k].mapped = FALSE, ![k].mem = "freed"]
    IN  /\ tqTrack' = tracks
        /\ tqSpace' = [tools_update_status(tracks, space, TqCallbacks) EXCEPT !.refs = @ - 1]

(* The first tracker becomes the file's; any other is destroyed.           *)
uvm_api_tools_init_event_tracker(k) ==
    /\ tqTrack[k].mem = "live" /\ tqSpace.private_data # k
    /\ IF tqSpace.private_data = TqNone
       THEN tqSpace' = [tqSpace EXCEPT !.private_data = k] /\ UNCHANGED tqTrack
       ELSE destroy_event_tracker(k, tqSpace)
    /\ UNCHANGED <<tqQueueVars, tqMigVars, tqSetup>>

(* The last reference to the file is gone: no call on it is under way.     *)
uvm_tools_release ==
    LET k == tqSpace.private_data
    IN  /\ k # TqNone
        /\ \A o \in TqTracker \ {k} : tqTrack[o].mem # "live"
        /\ destroy_event_tracker(k, [tqSpace EXCEPT !.private_data = TqNone])
        /\ UNCHANGED <<tqQueueVars, tqMigVars, tqSetup>>

TqSubscribed(subs) ==
    LET k == tqSpace.private_data
        tracks == [tqTrack EXCEPT ![k].subs = subs]
    IN  \E registered \in TqRegistered :
          /\ tqTrack' = tracks
          /\ tqSpace' = tools_update_status(tracks, tqSpace, registered)

insert_event_tracker(list_mask) ==
    LET k == tqSpace.private_data
    IN  /\ k # TqNone
        /\ TqSubscribed(tqTrack[k].subs \union list_mask)
        /\ UNCHANGED <<tqQueueVars, tqMigVars, tqSetup>>

remove_event_tracker(list_mask) ==
    LET k == tqSpace.private_data
    IN  /\ k # TqNone
        /\ TqSubscribed(tqTrack[k].subs \ list_mask)
        /\ UNCHANGED <<tqQueueVars, tqMigVars, tqSetup>>

(* How often an event is recorded: by every callback registered for it, or *)
(* by a caller that looks at enabled.                                      *)
uvm_perf_event_notify(kind) ==
    IF kind \in TqCallbacks THEN tqSpace.callbacks[kind]
    ELSE IF tqSpace.enabled THEN 1 ELSE 0

(* An event reaches every tracker in the list of its type.                 *)
uvm_tools_record_event(kind) ==
    /\ tqSetup.part = "subs"
    /\ \A k \in TqTracker : tqTrack[k].owed < TqMaxEvents
    /\ tqTrack' = [k \in TqTracker |->
           IF kind \notin tqTrack[k].subs THEN tqTrack[k]
           ELSE [tqTrack[k] EXCEPT !.seen = @ + uvm_perf_event_notify(kind), !.owed = @ + 1]]
    /\ UNCHANGED <<tqSpace, tqQueueVars, tqMigVars, tqSetup>>

(* Who records: the callbacks of a fault and of a migration, and the fault *)
(* servicing's replay for every VA space in the global list.               *)
uvm_tools_record_fault == uvm_tools_record_event("fault")
uvm_tools_record_migration == uvm_tools_record_event("migration")
uvm_tools_record_replay == uvm_tools_record_event("replay")

(* User space subscribes and unsubscribes; counters are events whose queue *)
(* is a page of sums.                                                      *)
uvm_api_tools_event_queue_enable_events == \E mask \in TqMasks : insert_event_tracker(mask)
uvm_api_tools_event_queue_disable_events == \E mask \in TqMasks : remove_event_tracker(mask)

(***************************************************************************)
(* Migrations in flight; the list and the counts are under its lock        *)
(***************************************************************************)
TqFreed(m) == IF m = "live" THEN "freed" ELSE "broken"

(* A push of a migration begins: the record counts on the entry its        *)
(* channel has in the list, or brings its own.                             *)
uvm_tools_record_block_migration_begin(m, c) ==
    LET mine == [NoMig EXCEPT !.at = "pushed", !.mem = "live", !.channel = c, !.parent_alive = TRUE]
        there == {e \in TqMig : tqMig[e].channel = c /\ \E i \in DOMAIN tqList : tqList[i] = e}
        e == IF there = {} THEN m ELSE CHOOSE x \in there : TRUE
    IN  /\ tqSetup.part = "migs" /\ tqLife = "live"
        /\ tqMig[m].at = "none"
        /\ tqMig' = [[tqMig EXCEPT ![m] = [mine EXCEPT !.channel_entry = e]]
                        EXCEPT ![e].pending_event_count = @ + 1]
        /\ tqList' = IF there = {} THEN Append(tqList, m) ELSE tqList
        /\ UNCHANGED <<tqFlush, tqLife, tqQueueVars, tqSubVars, tqSetup>>

GpuFinishes(m) ==
    /\ tqMig[m].at = "pushed"
    /\ tqMig' = [tqMig EXCEPT ![m].at = "done"]
    /\ UNCHANGED <<tqList, tqFlush, tqLife, tqQueueVars, tqSubVars, tqSetup>>

(* The last one to leave an entry unlinks it, and frees the record around  *)
(* it if that has been recorded.                                           *)
remove_pending_event_for_channel(migs, e) ==
    LET left == [migs EXCEPT ![e].pending_event_count = @ - 1]
    IN  IF left[e].pending_event_count = 0 /\ ~left[e].parent_alive
        THEN [left EXCEPT ![e].mem = TqFreed(@)] ELSE left

TqLinked(migs, list) == SelectSeq(list, LAMBDA e : migs[e].pending_event_count # 0)

(* The push's callback, whoever notices that the push is complete.         *)
on_block_migration_complete(m) ==
    LET migs == remove_pending_event_for_channel(tqMig, tqMig[m].channel_entry)
    IN  /\ tqMig[m].at = "done"
        /\ tqMig' = [migs EXCEPT ![m].at = "queued"]
        /\ tqList' = TqLinked(migs, tqList)
        /\ UNCHANGED <<tqFlush, tqLife, tqQueueVars, tqSubVars, tqSetup>>

(* On the tools' kthread: the events are recorded, and the record freed    *)
(* unless its entry is still counted on.                                   *)
record_migration_events(m) ==
    /\ tqMig[m].at = "queued"
    /\ tqMig' = [tqMig EXCEPT ![m].at = "recorded", ![m].parent_alive = FALSE,
                              ![m].mem = IF tqMig[m].pending_event_count = 0 THEN TqFreed(@) ELSE @]
    /\ UNCHANGED <<tqList, tqFlush, tqLife, tqQueueVars, tqSubVars, tqSetup>>

(* uvm_tools_schedule_completed_events holds every entry there is,         *)
(* brings the channels up to date without the lock, and lets go of as many *)
(* entries from the head of the list.                                      *)
CanFlush(t) ==
    /\ tqSetup.part = "migs" /\ tqFlush[t].at = "none"
    /\ tqLife = "unregistering" => \A o \in TqThread : tqFlush[o].at = "none"

ScheduleCounts(t) ==
    /\ CanFlush(t) /\ tqLife \in {"live", "unregistering"}
    /\ tqMig' = [m \in TqMig |-> IF \E i \in DOMAIN tqList : tqList[i] = m
                                 THEN [tqMig[m] EXCEPT !.pending_event_count = @ + 1] ELSE tqMig[m]]
    /\ tqFlush' = IF tqList = <<>> THEN tqFlush
                  ELSE [tqFlush EXCEPT ![t] = [at |-> "walk", count |-> Len(tqList), i |-> 0,
                                               entry |-> Head(tqList)]]
    /\ tqList # <<>> \/ tqLife = "unregistering"
    /\ tqLife' = IF tqList = <<>> THEN "flushing" ELSE tqLife
    /\ UNCHANGED <<tqList, tqQueueVars, tqSubVars, tqSetup>>

(* The channel of the entry has nothing complete any more; on to the next. *)
ScheduleWalks(t) ==
    LET f == tqFlush[t]
        at == {i \in DOMAIN tqList : tqList[i] = f.entry}
        next == {i \in DOMAIN tqList : \E j \in at : i = j + 1}
    IN  /\ f.at = "walk" /\ f.i < f.count
        /\ \A m \in TqMig : tqMig[m].at = "done" => tqMig[m].channel # tqMig[f.entry].channel
        /\ tqFlush' = [tqFlush EXCEPT ![t].i = @ + 1,
               ![t].entry = IF next = {} THEN TqNone ELSE tqList[CHOOSE i \in next : TRUE]]
        /\ UNCHANGED <<tqMig, tqList, tqLife, tqQueueVars, tqSubVars, tqSetup>>

uvm_tools_schedule_completed_events(t) ==
    LET f == tqFlush[t]
        held == {tqList[i] : i \in 1..f.count}
        gone == [m \in TqMig |->
            IF m \in held THEN remove_pending_event_for_channel(tqMig, m)[m] ELSE tqMig[m]]
    IN  /\ f.at = "walk" /\ f.i = f.count
        /\ tqMig' = gone
        /\ tqList' = TqLinked(gone, tqList)
        /\ tqFlush' = [tqFlush EXCEPT ![t] = [at |-> "none", count |-> 0, i |-> 0, entry |-> TqNone]]
        /\ tqLife' = IF tqLife = "unregistering" THEN "flushing" ELSE tqLife
        /\ UNCHANGED <<tqQueueVars, tqSubVars, tqSetup>>

(* The VA space is destroyed with its lock held for writing: nothing       *)
(* migrates and nobody flushes, and the blocks have waited for the GPU.    *)
DestroySpace ==
    /\ tqSetup.part = "migs" /\ tqLife = "live"
    /\ \A m \in TqMig : tqMig[m].at # "pushed"
    /\ \A t \in TqThread : tqFlush[t].at = "none"
    /\ tqLife' = "unregistering"
    /\ UNCHANGED <<tqMig, tqList, tqFlush, tqQueueVars, tqSubVars, tqSetup>>

(* nv_kthread_q_flush, then the VA space is freed.                         *)
uvm_tools_flush_events ==
    /\ tqLife = "flushing"
    /\ \A m \in TqMig : tqMig[m].at # "queued"
    /\ tqLife' = "freed"
    /\ UNCHANGED <<tqMig, tqList, tqFlush, tqQueueVars, tqSubVars, tqSetup>>

TqNext ==
    \/ enqueue_event \/ PollLooks \/ PollWaits \/ uvm_tools_poll \/ UserClaims \/ UserGivesBack
    \/ \E n \in TqThresholds : uvm_api_tools_set_notification_threshold(n)
    \/ \E k \in TqTracker : \/ \E q \in BOOLEAN : InitTracker(k, q)
                            \/ uvm_api_tools_init_event_tracker(k)
    \/ uvm_tools_release
    \/ uvm_api_tools_event_queue_enable_events \/ uvm_api_tools_event_queue_disable_events
    \/ uvm_tools_record_fault \/ uvm_tools_record_migration \/ uvm_tools_record_replay
    \/ \E m \in TqMig :
         \/ \E c \in TqChannel : uvm_tools_record_block_migration_begin(m, c)
         \/ GpuFinishes(m) \/ on_block_migration_complete(m) \/ record_migration_events(m)
    \/ \E t \in TqThread : \/ ScheduleCounts(t) \/ ScheduleWalks(t)
                           \/ uvm_tools_schedule_completed_events(t)
    \/ DestroySpace \/ uvm_tools_flush_events

TqSpec == TqInit /\ [][TqNext]_tqVars

(***************************************************************************)
(* Properties                                                              *)
(***************************************************************************)
(* What user space has not given back is in the queue, in order, whatever  *)
(* was dropped meanwhile; and a reader sleeps while enough events wait     *)
(* only if its wake-up was given in the window between poll's look and     *)
(* poll_wait (enqueue_event, uvm_tools_poll).                              *)
QueueIntact ==
    LET q == tqQueue IN
      /\ \A i \in DOMAIN q.kept : q.slot[(q.get_behind + i - 1) % TqSize] = q.kept[i]
      /\ Len(q.kept) = (TqSize + q.put_behind - q.get_behind) % TqSize
      /\ tqReader.at = "asleep" /\ queue_needs_wakeup(q) => tqReader.missed

(* A tracker is in lists only while it is the file's and its pages are     *)
(* mapped, it keeps the VA space alive, the callbacks are registered once  *)
(* exactly while somebody subscribes, and every event reaches every        *)
(* subscriber once (tools_update_status, destroy_event_tracker).           *)
SubscribersServed ==
    /\ \A k \in TqTracker : LET r == tqTrack[k] IN
         /\ r.subs # {} => tqSpace.private_data = k /\ r.mem = "live" /\ r.mapped
         /\ r.mem = "freed" => ~r.mapped
         /\ r.seen = r.owed
    /\ tqSpace.refs = Cardinality({k \in TqTracker : tqTrack[k].mem = "live"})
    /\ tqSpace.listed = tqSpace.enabled
    /\ \A c \in TqCallbacks : tqSpace.callbacks[c] = IF tools_are_enabled(tqTrack) THEN 1 ELSE 0

(* A record is freed once, when it is recorded and nothing counts on its   *)
(* entry; the list links only live entries that are counted on, one for a  *)
(* channel; a flushing thread only looks at live entries; and no record    *)
(* outlives its VA space (remove_pending_event_for_channel,                *)
(* record_migration_events, uvm_tools_schedule_completed_events).          *)
MigrationsFreed ==
    /\ \A m \in TqMig : LET r == tqMig[m] IN
         /\ r.mem # "broken"
         /\ r.mem = "freed" <=> r.at = "recorded" /\ r.pending_event_count = 0
         /\ r.at \in {"pushed", "done"} => tqMig[r.channel_entry].mem = "live"
         /\ r.pending_event_count =
              Cardinality({o \in TqMig : tqMig[o].at \in {"pushed", "done"} /\ tqMig[o].channel_entry = m})
              + Cardinality({t \in TqThread : \E i \in DOMAIN tqList : i <= tqFlush[t].count /\ tqList[i] = m})
    /\ \A i \in DOMAIN tqList :
         /\ tqMig[tqList[i]].mem = "live" /\ tqMig[tqList[i]].pending_event_count > 0
         /\ \A j \in DOMAIN tqList : tqMig[tqList[i]].channel = tqMig[tqList[j]].channel => i = j
    /\ \A t \in TqThread : tqFlush[t].at = "walk" /\ tqFlush[t].i < tqFlush[t].count =>
         tqFlush[t].entry # TqNone /\ tqMig[tqFlush[t].entry].mem = "live"
    /\ tqLife = "flushing" => tqList = <<>>
    /\ tqLife = "freed" => \A m \in TqMig : tqMig[m].at \in {"none", "recorded"}

(* Everything the tools promise.                                           *)
ToolsExact == QueueIntact /\ SubscribersServed /\ MigrationsFreed
================================================================================
