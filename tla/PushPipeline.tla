---------------------------- MODULE PushPipeline ----------------------------
(***************************************************************************)
(* The path every piece of GPU work takes through UVM: uvm8_push.c,        *)
(* uvm8_channel.c and uvm8_pushbuffer.c.  A thread reserves a GPFIFO entry *)
(* on a channel, claims a chunk of the pushbuffer, writes its methods      *)
(* there, publishes the GPFIFO entry, and any thread later notices that    *)
(* the GPU is done and gives the entry and the chunk's space back.         *)
(*                                                                         *)
(* The channels are those of one pool and share its spin lock, which an    *)
(* update of a channel's progress holds over several entries; it is the    *)
(* only lock held from one step to the next.  The pushbuffer's lock and    *)
(* the tracking semaphore's are each held within one step.                 *)
(***************************************************************************)
EXTENDS ChunkRing, FiniteSets, SequencesExt

CONSTANTS
    ChannelList,          \* the pool's channels, in list order
    Threads,
    NoThread,             \* no thread, no push, no on_complete
    numGpFifoEntries,
    NumChunks,            \* UVM_PUSHBUFFER_CHUNKS
    OtherPool, HeldChunks,\* sets of chunks that pushes of another pool, which
                          \* shares the pushbuffer, may hold throughout
    PushSizes,            \* sizes a finished push can have
    PayloadRange,         \* 2^32
    MaxToComplete,        \* entries one update_progress completes at most: 8
    FailingChannels,      \* channels that may report an error
    ToolsEnabled,         \* whether a tools session sets on_complete callbacks
    MaxQueued             \* bound: no call begins a push once a channel has had this many

Channels == Range(ChannelList)
Chunks == 0 .. (NumChunks - 1)
Entries == 0 .. (numGpFifoEntries - 1)

ASSUME PushPipelineAssumption ==
    /\ ChannelList \in Seq(Channels) \ {<<>>}
    /\ numGpFifoEntries \in Nat \ {0}
    /\ NumChunks \in Nat \ {0}
    /\ PushSizes \subseteq 1 .. MaxPushSize /\ MaxToComplete \in Nat
    /\ PayloadRange \in Nat /\ numGpFifoEntries <= PayloadRange
    /\ NoThread \notin Threads /\ OtherPool \notin Threads \cup {NoThread}
    /\ HeldChunks \subseteq SUBSET (0 .. (NumChunks - 1)) /\ HeldChunks # {}

VARIABLES
    \* uvm_channel_t, by channel
    cpu_put, gpu_get, current_pushes_count, next_push_info_index,
    queued_value, completed_value,
    gpfifo_entries,       \* by channel and index
    on_complete,          \* push_infos[i].on_complete: who set it, or NoThread
    \* the GPU, by channel
    released,             \* last value its copy engine has released
    rc_error,             \* its error notifier
    \* uvm_pushbuffer_t
    next_push_start, pending_gpfifos, current_push,  \* by chunk
    idle_chunks, available_chunks, concurrent_pushes_sema,
    \* driver-wide
    pool_lock,            \* the thread that holds the pool's lock
    fatal_error,          \* uvm_global_set_fatal_error was called
    oops,                 \* a thread followed the links of an unlinked entry
    \* threads
    pc,
    push,                 \* the uvm_push_t a thread works on, and its status
    update                \* locals of the progress update a thread is in

chan_vars == <<cpu_put, gpu_get, current_pushes_count, next_push_info_index,
               queued_value, completed_value, gpfifo_entries, on_complete>>
gpu_vars == <<released, rc_error>>
chunk_vars == <<next_push_start, pending_gpfifos, current_push, idle_chunks,
                available_chunks>>
vars == <<chan_vars, gpu_vars, chunk_vars, concurrent_pushes_sema, pool_lock,
          fatal_error, oops, pc, push, update>>

NoEntry == [value |-> 0, chunk |-> 0, start |-> 0, size |-> 1, info |-> 0]
NoPush == [channel |-> ChannelList[1], any |-> FALSE, failed |-> FALSE,
           chunk |-> 0, begin |-> 0, info |-> 0, entry |-> 0]
NoUpdate == [todo |-> <<>>, completed |-> 0, count |-> 0, return |-> "idle"]

\* uvm_pushbuffer_create, with the pushes another pool has going.
InitChunks ==
    /\ next_push_start = [k \in Chunks |-> 0]
    /\ pending_gpfifos = [k \in Chunks |-> <<>>]
    /\ \E held \in HeldChunks :
         /\ current_push = [k \in Chunks |-> IF k \in held THEN OtherPool ELSE NoThread]
         /\ idle_chunks = Chunks \ held
         /\ available_chunks = Chunks \ held
         /\ concurrent_pushes_sema = NumChunks - Cardinality(held)

Init ==
    /\ cpu_put = [c \in Channels |-> 0]
    /\ gpu_get = [c \in Channels |-> 0]
    /\ current_pushes_count = [c \in Channels |-> 0]
    /\ next_push_info_index = [c \in Channels |-> 0]
    /\ queued_value = [c \in Channels |-> 0]
    /\ completed_value = [c \in Channels |-> 0]
    /\ gpfifo_entries = [c \in Channels |-> [i \in Entries |-> NoEntry]]
    /\ on_complete = [c \in Channels |-> [i \in Entries |-> NoThread]]
    /\ released = [c \in Channels |-> 0]
    /\ rc_error = [c \in Channels |-> FALSE]
    /\ InitChunks
    /\ pool_lock = NoThread
    /\ fatal_error = FALSE
    /\ oops = FALSE
    /\ pc = [t \in Threads |-> "idle"]
    /\ push = [t \in Threads |-> NoPush]
    /\ update = [t \in Threads |-> NoUpdate]
-----------------------------------------------------------------------------
At(t, l) == ~oops /\ pc[t] = l
Goto(t, l) == pc' = [pc EXCEPT ![t] = l]
EndCall(t) == Goto(t, "idle") /\ push' = [push EXCEPT ![t] = NoPush]
PoolLockFree == pool_lock = NoThread

\* Start a progress update of the listed channels, and continue at l when it is
\* over.  A channel comes with its max_to_complete and whether the update is
\* made by uvm_channel_check_errors, which then sets the fatal error.
StartUpdate(t, todo, l) ==
    /\ Goto(t, "progress")
    /\ update' = [update EXCEPT ![t] = [NoUpdate EXCEPT !.todo = todo, !.return = l]]

Some(c) == <<c, MaxToComplete, FALSE>>
All(c) == <<c, numGpFifoEntries, TRUE>>
ManagerProgress == [n \in DOMAIN ChannelList |-> Some(ChannelList[n])]

NextChannel(c) ==
    LET n == CHOOSE n \in DOMAIN ChannelList : ChannelList[n] = c
    IN  ChannelList[(n % Len(ChannelList)) + 1]
IsLastChannel(c) == c = ChannelList[Len(ChannelList)]
-----------------------------------------------------------------------------
(***************************************************************************)
(* Reservation: uvm_channel_reserve waits for one channel,                 *)
(* uvm_channel_reserve_type takes whichever channel has a free entry.      *)
(***************************************************************************)
WithinBound(c) == queued_value[c] + current_pushes_count[c] < MaxQueued

uvm_push_begin_on_channel(t, c) ==
    /\ At(t, "idle")
    /\ WithinBound(c)
    /\ push' = [push EXCEPT ![t] = [NoPush EXCEPT !.channel = c]]
    /\ Goto(t, "claim_first")
    /\ UNCHANGED <<chan_vars, gpu_vars, chunk_vars, concurrent_pushes_sema,
                   pool_lock, fatal_error, oops, update>>

uvm_push_begin_acquire(t) ==
    /\ At(t, "idle")
    /\ \A c \in Channels : WithinBound(c)
    /\ push' = [push EXCEPT ![t] = [NoPush EXCEPT !.any = TRUE]]
    /\ Goto(t, "claim_first")
    /\ UNCHANGED <<chan_vars, gpu_vars, chunk_vars, concurrent_pushes_sema,
                   pool_lock, fatal_error, oops, update>>

\* Mutant: the pushes that are still being written are not counted.
AvailableIgnoringOngoing(c) ==
    (cpu_put[c] + 1) % numGpFifoEntries # gpu_get[c]

is_channel_available(c) ==
    (cpu_put[c] + current_pushes_count[c] + 1) % numGpFifoEntries # gpu_get[c]

\* try_claim_channel succeeds.  A reservation that saw an error before it
\* claimed the channel returns the error all the same.
ClaimChannel(t) ==
    LET c == push[t].channel IN
    /\ At(t, "claim_first") \/ At(t, "claim")
    /\ PoolLockFree
    /\ is_channel_available(c)
    /\ current_pushes_count' = [current_pushes_count EXCEPT ![c] = @ + 1]
    /\ IF push[t].failed THEN EndCall(t) ELSE Goto(t, "down") /\ UNCHANGED push
    /\ UNCHANGED <<cpu_put, gpu_get, next_push_info_index, queued_value,
                   completed_value, gpfifo_entries, on_complete, gpu_vars,
                   chunk_vars, concurrent_pushes_sema, pool_lock, fatal_error,
                   oops, update>>

\* The first attempts fail: try the next channel, or begin to spin.
ClaimFirstFails(t) ==
    LET c == push[t].channel
        next == IF push[t].any THEN NextChannel(c) ELSE c
    IN
    /\ At(t, "claim_first")
    /\ PoolLockFree
    /\ ~is_channel_available(c)
    /\ push' = [push EXCEPT ![t].channel = next]
    /\ IF push[t].any /\ ~IsLastChannel(c)
       THEN UNCHANGED <<pc, update>>
       ELSE StartUpdate(t, <<Some(next)>>, "claim")
    /\ UNCHANGED <<chan_vars, gpu_vars, chunk_vars, concurrent_pushes_sema,
                   pool_lock, fatal_error, oops>>

\* An attempt in the spin loop fails.  uvm_channel_check_errors updates the
\* failing channel's progress completely, then sets the fatal error;
\* uvm_channel_reserve still updates and tries once more before it returns.
ClaimFails(t) ==
    LET c == push[t].channel
        next == IF push[t].any THEN NextChannel(c) ELSE c
    IN
    /\ At(t, "claim")
    /\ PoolLockFree
    /\ ~is_channel_available(c)
    /\ IF push[t].failed
       THEN EndCall(t) /\ UNCHANGED update
       ELSE IF ~rc_error[c]
       THEN /\ push' = [push EXCEPT ![t].channel = next]
            /\ StartUpdate(t, <<Some(next)>>, "claim")
       ELSE IF push[t].any
       THEN /\ push' = [push EXCEPT ![t] = NoPush]
            /\ StartUpdate(t, <<All(c)>>, "idle")
       ELSE /\ push' = [push EXCEPT ![t].failed = TRUE]
            /\ StartUpdate(t, <<All(c), Some(c)>>, "claim")
    /\ UNCHANGED <<chan_vars, gpu_vars, chunk_vars, concurrent_pushes_sema,
                   pool_lock, fatal_error, oops>>
-----------------------------------------------------------------------------
(***************************************************************************)
(* uvm_pushbuffer_begin_push: the semaphore, then a chunk.                 *)
(***************************************************************************)
uvm_down(t) ==
    /\ At(t, "down")
    /\ concurrent_pushes_sema > 0
    /\ concurrent_pushes_sema' = concurrent_pushes_sema - 1
    /\ Goto(t, "chunk_first")
    /\ UNCHANGED <<chan_vars, gpu_vars, chunk_vars, pool_lock, fatal_error,
                   oops, push, update>>

Lowest(S) == CHOOSE k \in S : \A j \in S : k <= j
pick_chunk == Lowest(IF idle_chunks # {} THEN idle_chunks ELSE available_chunks)

\* Mutant: the claimed chunk stays in the map of idle chunks.
ClaimLeavesIdle(t) ==
    /\ At(t, "chunk_first") \/ At(t, "chunk")
    /\ idle_chunks \cup available_chunks # {}
    /\ current_push' = [current_push EXCEPT ![pick_chunk] = t]
    /\ available_chunks' = available_chunks \ {pick_chunk}
    /\ push' = [push EXCEPT ![t].chunk = pick_chunk,
                            ![t].begin = next_push_start[pick_chunk]]
    /\ Goto(t, IF push[t].failed THEN "up" ELSE "index")
    /\ UNCHANGED <<chan_vars, gpu_vars, next_push_start, pending_gpfifos,
                   idle_chunks, concurrent_pushes_sema, pool_lock, fatal_error,
                   oops, update>>

\* try_claim_chunk succeeds.  As above, a claim that follows an error is not
\* undone: only the semaphore is given back.
ClaimChunk(t) ==
    /\ At(t, "chunk_first") \/ At(t, "chunk")
    /\ idle_chunks \cup available_chunks # {}
    /\ current_push' = [current_push EXCEPT ![pick_chunk] = t]
    /\ idle_chunks' = idle_chunks \ {pick_chunk}
    /\ available_chunks' = available_chunks \ {pick_chunk}
    /\ push' = [push EXCEPT ![t].chunk = pick_chunk,
                            ![t].begin = next_push_start[pick_chunk]]
    /\ Goto(t, IF push[t].failed THEN "up" ELSE "index")
    /\ UNCHANGED <<chan_vars, gpu_vars, next_push_start, pending_gpfifos,
                   concurrent_pushes_sema, pool_lock, fatal_error, oops, update>>

\* No chunk: check for errors (unless this is the first attempt) and update
\* the progress of every channel.
ClaimChunkFails(t) ==
    LET failing == {n \in DOMAIN ChannelList : rc_error[ChannelList[n]]}
        first == ChannelList[Lowest(failing)]
    IN
    /\ At(t, "chunk_first") \/ At(t, "chunk")
    /\ idle_chunks \cup available_chunks = {}
    /\ IF push[t].failed
       THEN Goto(t, "up") /\ UNCHANGED <<push, update>>
       ELSE IF pc[t] = "chunk" /\ (fatal_error \/ failing # {})
       THEN /\ push' = [push EXCEPT ![t].failed = TRUE]
            /\ StartUpdate(t, (IF fatal_error THEN <<>> ELSE <<All(first)>>)
                                \o ManagerProgress, "chunk")
       ELSE StartUpdate(t, ManagerProgress, "chunk") /\ UNCHANGED push
    /\ UNCHANGED <<chan_vars, gpu_vars, chunk_vars, concurrent_pushes_sema,
                   pool_lock, fatal_error, oops>>

\* channel_get_next_push_info_index, the end of uvm_channel_begin_push.
channel_get_next_push_info_index(t) ==
    LET c == push[t].channel IN
    /\ At(t, "index")
    /\ PoolLockFree
    /\ push' = [push EXCEPT ![t].info = next_push_info_index[c]]
    /\ next_push_info_index' =
         [next_push_info_index EXCEPT ![c] = (@ + 1) % numGpFifoEntries]
    /\ Goto(t, "push")
    /\ UNCHANGED <<cpu_put, gpu_get, current_pushes_count, queued_value,
                   completed_value, gpfifo_entries, on_complete, gpu_vars,
                   chunk_vars, concurrent_pushes_sema, pool_lock, fatal_error,
                   oops, update>>

\* The pusher asks to be told of the completion (uvm8_tools.c).
SetOnComplete(t) ==
    LET c == push[t].channel IN
    /\ At(t, "push")
    /\ ToolsEnabled
    /\ on_complete[c][push[t].info] # t
    /\ on_complete' = [on_complete EXCEPT ![c][push[t].info] = t]
    /\ UNCHANGED <<cpu_put, gpu_get, current_pushes_count, next_push_info_index,
                   queued_value, completed_value, gpfifo_entries, gpu_vars,
                   chunk_vars, concurrent_pushes_sema, pool_lock, fatal_error,
                   oops, pc, push, update>>
-----------------------------------------------------------------------------
(***************************************************************************)
(* uvm_channel_end_push, under the pool's lock: number the push, fill the  *)
(* GPFIFO entry, publish it to the GPU.                                    *)
(***************************************************************************)
uvm_channel_end_push(t, size) ==
    LET c == push[t].channel
        entry == [value |-> queued_value[c] + 1,
                  chunk |-> push[t].chunk, start |-> push[t].begin, size |-> size,
                  info |-> push[t].info]
    IN
    /\ At(t, "push")
    /\ PoolLockFree
    /\ queued_value' = [queued_value EXCEPT ![c] = @ + 1]
    /\ gpfifo_entries' = [gpfifo_entries EXCEPT ![c][cpu_put[c]] = entry]
    /\ push' = [push EXCEPT ![t].entry = cpu_put[c]]
    /\ current_pushes_count' = [current_pushes_count EXCEPT ![c] = @ - 1]
    /\ cpu_put' = [cpu_put EXCEPT ![c] = (@ + 1) % numGpFifoEntries]
    /\ Goto(t, "end")
    /\ UNCHANGED <<gpu_get, next_push_info_index, completed_value, on_complete,
                   gpu_vars, chunk_vars, concurrent_pushes_sema, pool_lock,
                   fatal_error, oops, update>>

EntryAt(e) == gpfifo_entries[e[1]][e[2]]

\* update_chunk, for a chunk with these pending entries.
update_chunk(k, list) ==
    LET space == SpaceFor([n \in DOMAIN list |-> EntryAt(list[n])]) IN
    /\ idle_chunks' = IF list = <<>> THEN idle_chunks \cup {k} ELSE idle_chunks
    /\ IF space # NoSpace
       THEN /\ available_chunks' = available_chunks \cup {k}
            /\ next_push_start' = [next_push_start EXCEPT ![k] = space]
       ELSE UNCHANGED <<available_chunks, next_push_start>>

\* uvm_pushbuffer_end_push, after the pool's lock has been dropped.
uvm_pushbuffer_end_push(t) ==
    LET k == push[t].chunk
        list == Append(pending_gpfifos[k], <<push[t].channel, push[t].entry>>)
    IN
    /\ At(t, "end")
    /\ pending_gpfifos' = [pending_gpfifos EXCEPT ![k] = list]
    /\ update_chunk(k, list)
    /\ current_push' = [current_push EXCEPT ![k] = NoThread]
    /\ Goto(t, "up")
    /\ UNCHANGED <<chan_vars, gpu_vars, concurrent_pushes_sema, pool_lock,
                   fatal_error, oops, push, update>>

\* Mutant: the semaphore is not given back.
UpForgotten(t) ==
    /\ At(t, "up")
    /\ EndCall(t)
    /\ UNCHANGED <<chan_vars, gpu_vars, chunk_vars, concurrent_pushes_sema,
                   pool_lock, fatal_error, oops, update>>

\* uvm_up ends uvm_push_end, and a begin that failed.
uvm_up(t) ==
    /\ At(t, "up")
    /\ concurrent_pushes_sema' = concurrent_pushes_sema + 1
    /\ EndCall(t)
    /\ UNCHANGED <<chan_vars, gpu_vars, chunk_vars, pool_lock, fatal_error,
                   oops, update>>
-----------------------------------------------------------------------------
(***************************************************************************)
(* uvm_channel_update_progress_with_max, for each channel of the list.     *)
(***************************************************************************)
uvm_channel_manager_update_progress(t) ==
    /\ At(t, "idle")
    /\ StartUpdate(t, ManagerProgress, "idle")
    /\ UNCHANGED <<chan_vars, gpu_vars, chunk_vars, concurrent_pushes_sema,
                   pool_lock, fatal_error, oops, push>>

\* Mutant: the wrap of the payload is not noticed.
ExtendNoWrap(old, sem) == (old - (old % PayloadRange)) + sem

\* update_completed_value_locked: the payload is the low part of released.
Extend(old, sem) ==
    (old - (old % PayloadRange)) + sem
        + (IF sem < old % PayloadRange THEN PayloadRange ELSE 0)

uvm_channel_update_completed_value(t) ==
    LET c == update[t].todo[1][1]
        new == Extend(completed_value[c], released[c] % PayloadRange)
    IN
    /\ At(t, "progress")
    /\ completed_value' = [completed_value EXCEPT ![c] = new]
    /\ update' = [update EXCEPT ![t].completed = new, ![t].count = 0]
    /\ Goto(t, "lock")
    /\ UNCHANGED <<cpu_put, gpu_get, current_pushes_count, next_push_info_index,
                   queued_value, gpfifo_entries, on_complete, gpu_vars,
                   chunk_vars, concurrent_pushes_sema, pool_lock, fatal_error,
                   oops, push>>

AcquirePoolLock(t) ==
    /\ At(t, "lock")
    /\ PoolLockFree
    /\ pool_lock' = t
    /\ Goto(t, "mark")
    /\ UNCHANGED <<chan_vars, gpu_vars, chunk_vars, concurrent_pushes_sema,
                   fatal_error, oops, push, update>>

\* The entry the update looks at can be completed.
CanComplete(t) ==
    LET c == update[t].todo[1][1] IN
    /\ gpu_get[c] # cpu_put[c]
    /\ update[t].count < update[t].todo[1][2]
    /\ gpfifo_entries[c][gpu_get[c]].value <= update[t].completed

\* uvm_pushbuffer_mark_completed: the callback, then the entry leaves its
\* chunk's list.
uvm_pushbuffer_mark_completed(t) ==
    LET c == update[t].todo[1][1]
        g == gpu_get[c]
        entry == gpfifo_entries[c][g]
        list == pending_gpfifos[entry.chunk]
        rest == RemoveAt(list, CHOOSE n \in DOMAIN list : list[n] = <<c, g>>)
        at_an_end == <<c, g>> \in {Head(list), Last(list)}
    IN
    /\ At(t, "mark")
    /\ CanComplete(t)
    /\ <<c, g>> \in Range(list)
    /\ on_complete' = [on_complete EXCEPT ![c][entry.info] = NoThread]
    /\ pending_gpfifos' = [pending_gpfifos EXCEPT ![entry.chunk] = rest]
    /\ IF at_an_end /\ current_push[entry.chunk] = NoThread
       THEN update_chunk(entry.chunk, rest)
       ELSE UNCHANGED <<idle_chunks, available_chunks, next_push_start>>
    /\ gpu_get' = [gpu_get EXCEPT ![c] = (@ + 1) % numGpFifoEntries]
    /\ update' = [update EXCEPT ![t].count = @ + 1]
    /\ UNCHANGED <<cpu_put, current_pushes_count, next_push_info_index,
                   queued_value, completed_value, gpfifo_entries, gpu_vars,
                   current_push, concurrent_pushes_sema, pool_lock,
                   fatal_error, oops, pc, push>>

\* list_del on an entry that is on no list dereferences NULL or LIST_POISON.
MarkUnlinkedEntry(t) ==
    LET c == update[t].todo[1][1]
        g == gpu_get[c]
    IN
    /\ At(t, "mark")
    /\ CanComplete(t)
    /\ <<c, g>> \notin Range(pending_gpfifos[gpfifo_entries[c][g].chunk])
    /\ oops' = TRUE
    /\ UNCHANGED <<chan_vars, gpu_vars, chunk_vars, concurrent_pushes_sema,
                   pool_lock, fatal_error, pc, push, update>>

\* Nothing more to complete: unlock, next channel or return.
FinishUpdate(t) ==
    LET rest == Tail(update[t].todo) IN
    /\ At(t, "mark")
    /\ ~CanComplete(t)
    /\ pool_lock' = NoThread
    /\ fatal_error' = (fatal_error \/ update[t].todo[1][3])
    /\ Goto(t, IF rest = <<>> THEN update[t].return ELSE "progress")
    /\ update' = [update EXCEPT ![t] = IF rest = <<>> THEN NoUpdate
                                       ELSE [@ EXCEPT !.todo = rest]]
    /\ UNCHANGED <<chan_vars, gpu_vars, chunk_vars, concurrent_pushes_sema,
                   oops, push>>
-----------------------------------------------------------------------------
\* The GPU executes the next published push of a channel.
GpuExecutes(c) ==
    /\ ~oops
    /\ ~rc_error[c]
    /\ released[c] < queued_value[c]
    /\ released' = [released EXCEPT ![c] = @ + 1]
    /\ UNCHANGED <<chan_vars, rc_error, chunk_vars, concurrent_pushes_sema,
                   pool_lock, fatal_error, oops, pc, push, update>>

\* The GPU stops a channel and writes its error notifier.
GpuFails(c) ==
    /\ ~oops
    /\ c \in FailingChannels
    /\ ~rc_error[c]
    /\ rc_error' = [rc_error EXCEPT ![c] = TRUE]
    /\ UNCHANGED <<chan_vars, released, chunk_vars, concurrent_pushes_sema,
                   pool_lock, fatal_error, oops, pc, push, update>>

\* After an oops the machine is down.
Down == oops /\ UNCHANGED vars

BeginStep(t) ==
    \/ ClaimChannel(t)
    \/ ClaimFirstFails(t)
    \/ ClaimFails(t)
    \/ uvm_down(t)
    \/ ClaimChunk(t)
    \/ ClaimChunkFails(t)
    \/ channel_get_next_push_info_index(t)

UpdateStep(t) ==
    \/ uvm_channel_update_completed_value(t)
    \/ AcquirePoolLock(t)
    \/ uvm_pushbuffer_mark_completed(t)
    \/ MarkUnlinkedEntry(t)
    \/ FinishUpdate(t)

EndStep(t) ==
    \/ \E size \in PushSizes : uvm_channel_end_push(t, size)
    \/ uvm_pushbuffer_end_push(t)
    \/ uvm_up(t)

Call(t) ==
    \/ \E c \in Channels : uvm_push_begin_on_channel(t, c)
    \/ uvm_push_begin_acquire(t)
    \/ uvm_channel_manager_update_progress(t)

Next ==
    \/ \E t \in Threads :
          BeginStep(t) \/ UpdateStep(t) \/ EndStep(t) \/ SetOnComplete(t) \/ Call(t)
    \/ \E c \in Channels : GpuExecutes(c) \/ GpuFails(c)
    \/ Down

Spec == Init /\ [][Next]_vars

(***************************************************************************)
(* The GPU works on, and a thread inside a call takes its next step if it  *)
(* can take it again and again: spinning threads are scheduled, the pool's *)
(* spin lock and the semaphore are handed over in FIFO order, and every    *)
(* push that has begun is ended (between begin and end a thread only       *)
(* writes methods).                                                        *)
(***************************************************************************)
Fairness ==
    /\ \A c \in Channels : WF_vars(GpuExecutes(c))
    /\ \A t \in Threads : SF_vars(BeginStep(t) \/ UpdateStep(t) \/ EndStep(t))

FairSpec == Spec /\ Fairness
-----------------------------------------------------------------------------
BeginPCs == {"claim_first", "claim", "down", "chunk_first", "chunk", "index"}
UpdatePCs == {"progress", "lock", "mark"}
PushPCs == {"push", "end", "up"}

TypeOK ==
    /\ cpu_put \in [Channels -> Entries]
    /\ gpu_get \in [Channels -> Entries]
    /\ current_pushes_count \in [Channels -> Nat]
    /\ next_push_info_index \in [Channels -> Entries]
    /\ queued_value \in [Channels -> Nat]
    /\ completed_value \in [Channels -> Nat]
    /\ on_complete \in [Channels -> [Entries -> Threads \cup {NoThread}]]
    /\ released \in [Channels -> Nat]
    /\ next_push_start \in [Chunks -> 0 .. ChunkSize]
    /\ current_push \in [Chunks -> Threads \cup {NoThread, OtherPool}]
    /\ idle_chunks \subseteq Chunks
    /\ available_chunks \subseteq Chunks
    /\ concurrent_pushes_sema \in 0 .. NumChunks
    /\ pool_lock \in Threads \cup {NoThread}
    /\ pc \in [Threads -> {"idle"} \cup BeginPCs \cup UpdatePCs \cup PushPCs]

\* Entries between gpu_get and cpu_put.
PendingCount(c) == (cpu_put[c] - gpu_get[c] + numGpFifoEntries) % numGpFifoEntries

(***************************************************************************)
(* A channel never has more pushes on-going and pending than GPFIFO        *)
(* entries, less the one that tells a full ring from an empty one: no      *)
(* uvm_channel_end_push overwrites an entry that is still pending, however *)
(* many pushes were reserved before the first of them ended.               *)
(***************************************************************************)
RingNeverOverflows ==
    \A c \in Channels :
        PendingCount(c) + current_pushes_count[c] < numGpFifoEntries

\* The published pushes the GPU has not finished.
Unfinished ==
    {e \in Channels \X Entries : EntryAt(e).value > released[e[1]]}
\* The bytes of the pushbuffer an entry, or a push being written, owns.
EntryBytes(e) ==
    {EntryAt(e).chunk} \X (EntryAt(e).start .. (EntryAt(e).start + EntryAt(e).size - 1))
PushBytes(t) ==
    {push[t].chunk} \X (push[t].begin .. (push[t].begin + MaxPushSize - 1))
Writers == {t \in Threads : pc[t] \in {"index", "push"}}

(***************************************************************************)
(* The methods of a push are not overwritten before the GPU has executed   *)
(* them: the space a thread writes to belongs to no other thread's push    *)
(* and to no published push that is not finished, whatever order the       *)
(* channels complete in and wherever the chunk's ring wraps.               *)
(***************************************************************************)
PushesIntact ==
    /\ \A t \in Writers : PushBytes(t) \subseteq Chunks \X (0 .. (ChunkSize - 1))
    /\ \A t, u \in Writers : t # u => PushBytes(t) \cap PushBytes(u) = {}
    /\ \A t \in Writers, e \in Unfinished : PushBytes(t) \cap EntryBytes(e) = {}
    /\ \A d, e \in Unfinished : d # e => EntryBytes(d) \cap EntryBytes(e) = {}

(***************************************************************************)
(* The variables have their types, and the chunk bitmaps say what          *)
(* uvm8_pushbuffer.h says they say: an available chunk has no on-going     *)
(* push and room for a whole one, an idle one has no pending push either,  *)
(* and no chunk is lost: one with nothing on-going and nothing pending is  *)
(* idle.                                                                   *)
(***************************************************************************)
ChunkMapsExact ==
    TypeOK /\
    \A k \in Chunks :
        /\ k \in available_chunks =>
              /\ current_push[k] = NoThread
              /\ next_push_start[k] + MaxPushSize <= ChunkSize
        /\ k \in idle_chunks <=>
              pending_gpfifos[k] = <<>> /\ current_push[k] = NoThread

(***************************************************************************)
(* The semaphore admits only as many pushes as there are chunks, so that   *)
(* with no channel error a thread past the semaphore waits for the GPU and *)
(* never for another thread: some chunk has no on-going push.              *)
(***************************************************************************)
AdmittedHaveAChunk ==
    (\E t \in Threads : pc[t] = "chunk" /\ ~fatal_error)
        => \E k \in Chunks : current_push[k] = NoThread

(***************************************************************************)
(* For each channel, end_push, the GPU and the progress updates together   *)
(* keep the tracking semaphore's contract: the driver's view of the        *)
(* channel never runs ahead of the GPU, and the GPU is never further ahead *)
(* of the driver than the payload can tell.                                *)
(***************************************************************************)
Tracking(c) == INSTANCE CompletionSpec
                 WITH Window <- numGpFifoEntries - 1,
                      queued <- queued_value[c], released <- released[c],
                      known <- completed_value[c]
TracksCompletion ==
    /\ \A c \in Channels : Tracking(c)!CInit
    /\ [][\A c \in Channels : [Tracking(c)!CNext]_(Tracking(c)!cvars)]_vars

\* A thread holds a reservation: it is past uvm_channel_reserve and its push
\* has not ended, nor has its begin failed.
Reserved(t) ==
    LET l == IF pc[t] \in UpdatePCs THEN update[t].return ELSE pc[t]
    IN  l \in {"down", "chunk_first", "chunk", "index", "push"}

(***************************************************************************)
(* A completed entry is on its chunk's list when it is completed: "List of *)
(* uvm_gpfifo_entry_t that are pending and used this chunk".               *)
(***************************************************************************)
CompletedEntryIsListed == ~oops

(***************************************************************************)
(* "Number of currently on-going pushes on this channel": every unit of    *)
(* current_pushes_count belongs to a thread between its reservation and    *)
(* the end of its push.                                                    *)
(***************************************************************************)
CountsOngoingPushes ==
    \A c \in Channels :
        current_pushes_count[c] =
            Cardinality({t \in Threads : push[t].channel = c /\ Reserved(t)})

(***************************************************************************)
(* "UVM_ASSERT(push_info->on_complete == NULL && ...)": the push_info of   *)
(* an on-going push holds no other push's callback.                        *)
(***************************************************************************)
PushInfoIsFree ==
    \A t \in Threads :
        pc[t] = "push" =>
            on_complete[push[t].channel][push[t].info] \in {NoThread, t}

(***************************************************************************)
(* The pipeline does not jam: while a thread waits to begin a push, some   *)
(* push gets to its end (or the wait is over, in success or in error).     *)
(***************************************************************************)
PipelineMoves ==
    \A t \in Threads :
        pc[t] \in BeginPCs ~>
            \/ pc[t] \in {"push", "idle"}
            \/ \E u \in Threads : pc[u] = "end"
            \/ oops

(***************************************************************************)
(* Neither a GPFIFO entry nor the methods of a push are overwritten before *)
(* the GPU is done with them.                                              *)
(***************************************************************************)
RingExact == RingNeverOverflows /\ PushesIntact
=============================================================================
