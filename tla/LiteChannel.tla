------------------------------ MODULE LiteChannel -----------------------------
(***************************************************************************)
(* UVM-Lite's channels (uvm_channel_mgmt.c).  A manager, one of each GPU,  *)
(* has ring buffers whose memory pushbuffers take in turn, and channels    *)
(* whose GPFIFOs take what is submitted; both come back when a later       *)
(* request finds them done.  Callers work on a range with one pushbuffer   *)
(* of each manager: under the range's lock they acquire what its tracker   *)
(* names, and leave the new pushes in it.  Semaphores of all managers'     *)
(* channels are parts of one piece of memory.                              *)
(***************************************************************************)
EXTENDS Naturals, Sequences, FiniteSets

CONSTANTS LcChan, LcPb, LcThread, LcPool,
          LcRingSize, LcRes, \* size of a ring buffer and of a reservation
          LcFifo,            \* entries of a GPFIFO
          LcWrap,            \* a semaphore counts modulo LcWrap
          LcMaxSeq,          \* bound: pushes of a channel
          LcMaxPools,        \* UVM_MAX_NUM_CHANNEL_POOLS
          LcMaxMem,          \* bound: allocations of semaphore memory
          LcNone,
          LcSetups           \* the setups to explore, see LcAssumption

(* managers: the rings, numbers, and channels of each.  pools: only pools  *)
(* are created and destroyed.  Not handled by the code: fails, a structure *)
(* or a pool cannot be created; window, a pool is duplicated while it is   *)
(* being destroyed; wraps, semaphores wrap while pushes are reclaimed.     *)
ASSUME LcAssumption ==
    /\ {LcRingSize, LcRes, LcFifo, LcWrap, LcMaxSeq, LcMaxPools, LcMaxMem} \subseteq Nat \ {0}
    /\ LcRingSize >= LcRes /\ LcFifo > 1
    /\ \A s \in LcSetups :
          /\ {s.pools, s.fails, s.window, s.wraps} \subseteq BOOLEAN
          /\ \A m \in DOMAIN s.managers : s.managers[m].rings \subseteq Nat \ {0}
                                          /\ s.managers[m].chans \subseteq LcChan

VARIABLES
    lcRing,   \* [rings -> [pbs: its pushbuffers, the oldest first; cur: where the next begins]]
    lcFree,   \* [managers -> Seq of free rings]
    lcChan,   \* [LcChan -> UvmChannel, see NoUse]
    lcOrder,  \* [managers -> Seq of channels, the next to use first]
    lcPb,     \* [LcPb -> UvmPushbuffer, see NoPb]
    lcHw,     \* [LcChan -> pushes the GPU has completed]
    lcThread, \* [LcThread -> [ring, pbs, items]], see Idle
    lcLock,   \* who holds the range's lock, or LcNone
    lcTrack,  \* the range's tracker: [used: Seq of <<channel, seqNum>>, total: nTotalItems]
    lcHist,   \* what has been submitted for the range, in order
    lcPool,   \* [LcPool -> UvmChannelPool, see NoPool]
    lcActive, \* activePoolsHead, the first one first
    lcMem,    \* [alloc: bSemaPoolAllocated, count: poolCount, made: allocations so far]
    lcTaken,  \* <<allocation, pool id>> that have been used
    lcSetup

lcPushVars == <<lcRing, lcFree, lcChan, lcOrder, lcPb, lcHw, lcThread, lcLock, lcTrack, lcHist>>
lcPoolVars == <<lcPool, lcActive, lcMem, lcTaken>>
lcVars == <<lcPushVars, lcPoolVars, lcSetup>>

LcManagers == DOMAIN lcSetup.managers
Rings == UNION {lcSetup.managers[m].rings : m \in LcManagers}
(* The elements of a set in some order.                                    *)
Listed(S) == CHOOSE s \in [1 .. Cardinality(S) -> S] : \A x \in S : \E i \in DOMAIN s : s[i] = x

(* free and rsvd: GPFIFO entries, put: the next one; pend and done: the    *)
(* sequence numbers; sub: submitted pushbuffers.                           *)
NoUse == [free |-> LcFifo - 1, rsvd |-> 0, put |-> 0, pend |-> 0, done |-> 0, sub |-> <<>>]
(* st: free, open or submitted; acq: what it waits for; rsvd: acquires     *)
(* there is room for; at: its GPFIFO entry.                                *)
NoPb == [st |-> "free", ring |-> 0, begin |-> 0, size |-> 0, chan |-> LcNone, seq |-> 0, at |-> 0,
         rsvd |-> 0, acq |-> {}]
Idle == [ring |-> 0, pbs |-> <<>>, items |-> <<>>]
NoPool == [st |-> "none", mem |-> 0, id |-> 0]

LcInit ==
    /\ lcSetup \in LcSetups
    /\ lcRing = [r \in Rings |-> [pbs |-> <<>>, cur |-> 0]]
    /\ lcFree = [m \in LcManagers |-> Listed(lcSetup.managers[m].rings)]
    /\ lcChan = [c \in LcChan |-> NoUse]
    /\ lcOrder = [m \in LcManagers |-> Listed(lcSetup.managers[m].chans)]
    /\ lcPb = [p \in LcPb |-> NoPb]
    /\ lcHw = [c \in LcChan |-> 0]
    /\ lcThread = [t \in LcThread |-> Idle]
    /\ lcLock = LcNone /\ lcTrack = [used |-> <<>>, total |-> 0] /\ lcHist = <<>>
    /\ lcPool = [p \in LcPool |-> NoPool]
    /\ lcActive = <<>> /\ lcMem = [alloc |-> FALSE, count |-> 0, made |-> 0] /\ lcTaken = {}

(***************************************************************************)
(* Ring buffers and channels                                               *)
(***************************************************************************)
PbEnd(p) == lcPb[p].begin + lcPb[p].size

(* After the newest pushbuffer if there is room for a reservation, to the  *)
(* oldest one or to the end, else before the oldest.  At most one result.  *)
_find_memory_in_ringbuffer(r) ==
    LET pbs == lcRing[r].pbs
        head == lcPb[pbs[1]].begin
        tail == PbEnd(pbs[Len(pbs)])
    IN  IF pbs = <<>> THEN {0}
        ELSE IF head > lcPb[pbs[Len(pbs)]].begin
        THEN IF head >= tail + LcRes THEN {tail} ELSE {}
        ELSE IF LcRingSize >= tail + LcRes THEN {tail}
        ELSE IF head >= LcRes THEN {0} ELSE {}

FirstOf(s, fit) ==
    LET i == {k \in DOMAIN s : s[k] \in fit /\ \A j \in 1 .. (k - 1) : s[j] \notin fit}
    IN  {s[k] : k \in i}
Without(s, x) == SelectSeq(s, LAMBDA y : y # x)

uvm_channel_manager_get_ringbuffer(m) ==
    FirstOf(lcFree[m], {r \in Rings : _find_memory_in_ringbuffer(r) # {}})
uvm_channel_manager_get_channel(m) ==
    FirstOf(lcOrder[m], {c \in LcChan : lcChan[c].free > 0})

(* The semaphore has LcWrap's width, the software's number is wider.       *)
uvm_update_channel_progress(c) ==
    LET hw == lcHw[c] % LcWrap
        done == lcChan[c].done
        up == IF hw < done % LcWrap THEN done + LcWrap ELSE done
    IN  IF hw = done % LcWrap THEN done ELSE (up \div LcWrap) * LcWrap + hw

(* The first submitted ones whose number, as wide as a semaphore, is done. *)
_reclaim_pushbuffers(c) ==
    LET cur == uvm_update_channel_progress(c) % LcWrap
        sub == lcChan[c].sub
    IN  {sub[k] : k \in {i \in DOMAIN sub : \A j \in 1 .. i : lcPb[sub[j]].seq <= cur}}

(* The rings in turn: if the oldest pushbuffer of one is done, so may be   *)
(* others of its channel, in all rings.                                    *)
uvm_channel_manager_reclaim(m) ==
    LET rings == Listed(lcSetup.managers[m].rings)
        freed[i \in 0 .. Len(rings)] ==
            IF i = 0 THEN {}
            ELSE LET left == SelectSeq(lcRing[rings[i]].pbs, LAMBDA p : p \notin freed[i - 1])
                     c == lcPb[left[1]].chan
                 IN  IF left # <<>> /\ lcPb[left[1]].st = "submitted"
                        /\ uvm_update_channel_progress(c) >= lcPb[left[1]].seq
                     THEN freed[i - 1] \union _reclaim_pushbuffers(c) ELSE freed[i - 1]
    IN  freed[Len(rings)]

_free_submitted_pushbuffer(freed, m, rings) ==
    LET keeps(p) == p \notin freed
    IN  /\ lcPb' = [p \in LcPb |-> IF p \in freed THEN NoPb ELSE lcPb[p]]
        /\ lcRing' = [r \in Rings |-> [rings[r] EXCEPT !.pbs = SelectSeq(@, keeps)]]
        /\ lcChan' = [c \in LcChan |->
              [lcChan[c] EXCEPT
                  !.done = IF c \in lcSetup.managers[m].chans THEN uvm_update_channel_progress(c) ELSE @,
                  !.sub = SelectSeq(@, keeps),
                  !.free = @ + Cardinality({k \in DOMAIN lcChan[c].sub : lcChan[c].sub[k] \in freed})]]

(* One round of the loops, under the manager's lock.  Without a ring or a  *)
(* channel it reclaims and tries again, keeping a ring it has.  A          *)
(* structure that cannot be allocated gives back the ring and the channel, *)
(* but not the channel's entry.                                            *)
uvm_get_pushbuffer(t) ==
    LET th == lcThread[t]
        m == Len(th.pbs) + 1
        ring == IF th.ring # 0 THEN {th.ring} ELSE uvm_channel_manager_get_ringbuffer(m)
        chan == uvm_channel_manager_get_channel(m)
        left(r) == IF th.ring = 0 THEN [lcFree EXCEPT ![m] = Without(@, r)] ELSE lcFree
        begin(r) == IF th.ring = 0 THEN CHOOSE x \in _find_memory_in_ringbuffer(r) : TRUE
                    ELSE lcRing[r].cur
    IN  /\ ~lcSetup.pools /\ lcLock # t /\ m \in LcManagers
        /\ IF ring = {} \/ chan = {}
           THEN LET freed == uvm_channel_manager_reclaim(m) IN
                /\ \/ /\ ring = {} /\ UNCHANGED <<lcThread, lcFree>>
                      /\ _free_submitted_pushbuffer(freed, m, lcRing)
                   \/ \E r \in ring :
                         /\ lcThread' = [lcThread EXCEPT ![t].ring = r] /\ lcFree' = left(r)
                         /\ _free_submitted_pushbuffer(freed, m, [lcRing EXCEPT ![r].cur = begin(r)])
                /\ UNCHANGED lcOrder
           ELSE \E r \in ring, c \in chan :
                IF lcSetup.fails /\ \A p \in LcPb : lcPb[p].st # "free"
                THEN /\ lcFree' = [lcFree EXCEPT ![m] = Without(@, r) \o <<r>>]
                     /\ lcThread' = [lcThread EXCEPT ![t].ring = 0]
                     /\ lcOrder' = [lcOrder EXCEPT ![m] = <<c>> \o Without(@, c)]
                     /\ lcChan' = [lcChan EXCEPT ![c].free = @ - 1]
                     /\ UNCHANGED <<lcRing, lcPb>>
                ELSE LET p == CHOOSE p \in LcPb : lcPb[p].st = "free" IN
                     /\ \E q \in LcPb : lcPb[q].st = "free"
                     /\ lcPb' = [lcPb EXCEPT ![p] = [NoPb EXCEPT !.st = "open", !.ring = r,
                                                                 !.begin = begin(r), !.chan = c]]
                     /\ lcRing' = [lcRing EXCEPT ![r] = [pbs |-> @.pbs \o <<p>>, cur |-> begin(r)]]
                     /\ lcFree' = left(r)
                     /\ lcChan' = [lcChan EXCEPT ![c].free = @ - 1, ![c].rsvd = @ + 1]
                     /\ lcOrder' = [lcOrder EXCEPT ![m] = Without(@, c) \o <<c>>]
                     /\ lcThread' = [lcThread EXCEPT ![t].ring = 0, ![t].pbs = @ \o <<p>>]
        /\ UNCHANGED <<lcHw, lcLock, lcTrack, lcHist, lcPoolVars, lcSetup>>

(* The ring goes to the end of its list, the channel to the front.         *)
uvm_channel_manager_put_ringbuffer(m, r) == lcFree' = [lcFree EXCEPT ![m] = @ \o <<r>>]
uvm_channel_manager_put_channel(m, c) == lcOrder' = [lcOrder EXCEPT ![m] = <<c>> \o Without(@, c)]

uvm_cancel_pushbuffer(t) ==
    LET m == Len(lcThread[t].pbs)
        p == lcThread[t].pbs[m]
        c == lcPb[p].chan
        r == lcPb[p].ring
    IN  /\ lcLock # t /\ m > 0 /\ lcThread[t].ring = 0
        /\ lcPb' = [lcPb EXCEPT ![p] = NoPb]
        /\ lcRing' = [lcRing EXCEPT ![r].pbs = Without(@, p)]
        /\ lcChan' = [lcChan EXCEPT ![c].rsvd = @ - 1, ![c].free = @ + 1]
        /\ uvm_channel_manager_put_channel(m, c) /\ uvm_channel_manager_put_ringbuffer(m, r)
        /\ lcThread' = [lcThread EXCEPT ![t].pbs = SubSeq(@, 1, m - 1)]
        /\ UNCHANGED <<lcHw, lcLock, lcTrack, lcHist, lcPoolVars, lcSetup>>

(***************************************************************************)
(* Trackers                                                                *)
(***************************************************************************)
(* One item of a channel: the newest.  Callers have grown the tracker.     *)
uvm_merge_tracker_item(used, item) ==
    IF \E k \in DOMAIN used : used[k][1] = item[1]
    THEN [k \in DOMAIN used |-> IF used[k][1] = item[1] /\ used[k][2] < item[2] THEN item ELSE used[k]]
    ELSE used \o <<item>>

(* Items that are done become spare ones.                                  *)
uvm_retire_tracker_item(used) ==
    SelectSeq(used, LAMBDA item : uvm_update_channel_progress(item[1]) < item[2])

uvm_query_tracker(t) ==
    /\ lcLock = t /\ lcTrack.used # <<>>
    /\ lcTrack' = [lcTrack EXCEPT !.used = uvm_retire_tracker_item(@)]
    /\ lcChan' = [c \in LcChan |->
                    IF \E k \in DOMAIN lcTrack.used : lcTrack.used[k][1] = c
                    THEN [lcChan[c] EXCEPT !.done = uvm_update_channel_progress(c)] ELSE lcChan[c]]
    /\ UNCHANGED <<lcRing, lcFree, lcOrder, lcPb, lcHw, lcThread, lcLock, lcHist, lcPoolVars, lcSetup>>

(* The destination takes the source's used items and keeps as many spare   *)
(* ones as it had items before.                                            *)
uvm_move_tracker(dst, used) ==
    IF used = <<>> THEN dst
    ELSE [used |-> used, total |-> IF dst.total > Len(used) THEN dst.total ELSE Len(used)]

(* A caller with a pushbuffer of each manager takes the range's lock.      *)
LockRange(t) ==
    /\ lcLock = LcNone /\ Len(lcThread[t].pbs) = Len(lcSetup.managers)
    /\ \A k \in DOMAIN lcThread[t].pbs : lcChan[lcPb[lcThread[t].pbs[k]].chan].pend < LcMaxSeq
    /\ lcLock' = t
    /\ UNCHANGED <<lcRing, lcFree, lcChan, lcOrder, lcPb, lcHw, lcThread, lcTrack, lcHist,
                   lcPoolVars, lcSetup>>

(* Room for an acquire of each item, then methods, then the release.       *)
NextPb(t) == lcThread[t].pbs[Len(lcThread[t].items) + 1]
MayPush(t) == lcLock = t /\ Len(lcThread[t].items) < Len(lcThread[t].pbs)
uvm_reserve_acquire_space(t) ==
    LET p == NextPb(t)
        n == Len(lcTrack.used)
    IN  /\ MayPush(t) /\ lcPb[p].size = 0 /\ n > 0
        /\ lcPb' = [lcPb EXCEPT ![p].size = n, ![p].rsvd = n]
        /\ UNCHANGED <<lcRing, lcFree, lcChan, lcOrder, lcHw, lcThread, lcLock, lcTrack, lcHist,
                       lcPoolVars, lcSetup>>

AcquiredItems == {lcTrack.used[k] : k \in DOMAIN lcTrack.used}

(* The acquires that are left end where the room for them ends.  The push  *)
(* begins there, and the released value is the next number.                *)
uvm_submit_pushbuffer(t) ==
    LET p == NextPb(t)
        m == Len(lcThread[t].items) + 1
        c == lcPb[p].chan
        seq == lcChan[c].pend + 1
    IN  /\ MayPush(t) /\ Len(lcTrack.used) <= lcPb[p].rsvd
        /\ \E methods \in 0 .. 1 :
              /\ lcPb[p].size + methods + 1 <= LcRes
              /\ lcPb' = [lcPb EXCEPT ![p].st = "submitted", ![p].seq = seq, ![p].at = lcChan[c].put,
                                      ![p].size = @ + methods + 1, ![p].acq = AcquiredItems]
        /\ lcChan' = [lcChan EXCEPT ![c].pend = seq, ![c].put = (@ + 1) % LcFifo,
                                    ![c].rsvd = @ - 1, ![c].sub = @ \o <<p>>]
        /\ uvm_channel_manager_put_channel(m, c) /\ uvm_channel_manager_put_ringbuffer(m, lcPb[p].ring)
        /\ lcThread' = [lcThread EXCEPT ![t].items = @ \o <<<<c, seq>>>>]
        /\ lcHist' = lcHist \o <<<<c, seq>>>>
        /\ UNCHANGED <<lcRing, lcHw, lcLock, lcTrack, lcPoolVars, lcSetup>>

(* The new pushes, merged into a tracker of their own, replace the range's *)
(* items, which they have acquired.                                        *)
LeaveRange(t) ==
    LET items == lcThread[t].items
        merged[k \in 0 .. Len(items)] ==
            IF k = 0 THEN <<>> ELSE uvm_merge_tracker_item(merged[k - 1], items[k])
    IN  /\ lcLock = t /\ Len(items) = Len(lcThread[t].pbs)
        /\ lcTrack' = uvm_move_tracker(lcTrack, merged[Len(items)])
        /\ lcLock' = LcNone
        /\ lcThread' = [lcThread EXCEPT ![t] = Idle]
        /\ UNCHANGED <<lcRing, lcFree, lcChan, lcOrder, lcPb, lcHw, lcHist, lcPoolVars, lcSetup>>

(* The GPU completes the next push of a channel when what it acquires is   *)
(* done.                                                                   *)
GpuCompletes(c) ==
    /\ lcHw[c] < lcChan[c].pend
    /\ lcChan[c].pend > LcWrap - 1 => lcSetup.wraps
    /\ \A k \in DOMAIN lcChan[c].sub :
          lcPb[lcChan[c].sub[k]].seq = lcHw[c] + 1 =>
              \A x \in lcPb[lcChan[c].sub[k]].acq : lcHw[x[1]] >= x[2]
    /\ lcHw' = [lcHw EXCEPT ![c] = @ + 1]
    /\ UNCHANGED <<lcRing, lcFree, lcChan, lcOrder, lcPb, lcThread, lcLock, lcTrack, lcHist,
                   lcPoolVars, lcSetup>>

(***************************************************************************)
(* Pools and their semaphores                                              *)
(***************************************************************************)
(* The first pool allocates the memory, the others duplicate that of the   *)
(* first in the list.  Everything under the lock of g_uvmCMMObject.        *)
_map_semaphores_for_channel_pool(p) ==
    /\ lcSetup.pools /\ lcPool[p].st = "none" /\ lcMem.made < LcMaxMem
    /\ IF lcMem.alloc
       THEN /\ lcPool' = [lcPool EXCEPT ![p] = [st |-> "mapped", mem |-> lcPool[lcActive[1]].mem, id |-> 0]]
            /\ UNCHANGED lcMem
       ELSE /\ lcMem' = [lcMem EXCEPT !.alloc = TRUE, !.made = @ + 1]
            /\ lcPool' = [lcPool EXCEPT ![p] = [st |-> "mapped", mem |-> lcMem.made + 1, id |-> 0]]
    /\ lcActive' = <<p>> \o lcActive
    /\ UNCHANGED <<lcPushVars, lcTaken, lcSetup>>

_get_next_free_pool_id_safe == lcMem.count

(* Without an id the semaphores are given back, and the pool stays in the  *)
(* list.                                                                   *)
FinishPool(p) ==
    LET id == _get_next_free_pool_id_safe
    IN  /\ lcPool[p].st = "mapped"
        /\ IF id >= LcMaxPools
           THEN /\ lcSetup.fails
                /\ lcPool' = [lcPool EXCEPT ![p] = NoPool] /\ UNCHANGED <<lcMem, lcTaken>>
           ELSE /\ lcPool' = [lcPool EXCEPT ![p].st = "live", ![p].id = id]
                /\ lcMem' = [lcMem EXCEPT !.count = @ + 1]
                /\ lcTaken' = lcTaken \union {<<lcPool[p].mem, id>>}
        /\ UNCHANGED <<lcPushVars, lcActive, lcSetup>>

(* The semaphores go first, then, under the lock again, the pool's place   *)
(* in the list, and with the last one the memory.                          *)
UnlistPool(p, pools) ==
    /\ lcPool' = [pools EXCEPT ![p] = NoPool]
    /\ lcActive' = Without(lcActive, p)
    /\ lcMem' = IF Without(lcActive, p) = <<>> THEN [lcMem EXCEPT !.alloc = FALSE, !.count = 0]
                ELSE lcMem

_destroy_channel_pool(p) ==
    /\ IF lcSetup.window /\ lcPool[p].st = "live"
       THEN lcPool' = [lcPool EXCEPT ![p].st = "freed", ![p].mem = 0] /\ UNCHANGED <<lcActive, lcMem>>
       ELSE lcPool[p].st \in {"live", "freed"} /\ UnlistPool(p, lcPool)
    /\ UNCHANGED <<lcPushVars, lcTaken, lcSetup>>

LcNext ==
    \/ \E t \in LcThread :
          \/ uvm_get_pushbuffer(t) \/ uvm_cancel_pushbuffer(t) \/ LockRange(t)
          \/ uvm_query_tracker(t) \/ uvm_reserve_acquire_space(t) \/ uvm_submit_pushbuffer(t)
          \/ LeaveRange(t)
    \/ \E c \in LcChan : GpuCompletes(c)
    \/ \E p \in LcPool :
          _map_semaphores_for_channel_pool(p) \/ FinishPool(p) \/ _destroy_channel_pool(p)

LcSpec == LcInit /\ [][LcNext]_lcVars

(***************************************************************************)
(* Properties                                                              *)
(***************************************************************************)
(* What is being written, or still read by the GPU, is nobody else's.      *)
InUse(p) ==
    lcPb[p].st = "open" \/ (lcPb[p].st = "submitted" /\ lcPb[p].seq > lcHw[lcPb[p].chan])
Memory(p) ==
    lcPb[p].begin .. (lcPb[p].begin + (IF lcPb[p].st = "open" THEN LcRes ELSE lcPb[p].size) - 1)
RingsIntact ==
    \A p \in LcPb : InUse(p) =>
        /\ Memory(p) \subseteq 0 .. (LcRingSize - 1)
        /\ \A q \in LcPb \ {p} : InUse(q) /\ lcPb[q].ring = lcPb[p].ring
                                 => Memory(p) \intersect Memory(q) = {}

(* An entry of a GPFIFO is free, reserved by an open pushbuffer or one's   *)
(* that is not reclaimed, and nothing the GPU has not completed is.        *)
EntriesKept ==
    \A c \in LcChan :
        LET ch == lcChan[c] IN
        /\ ch.free + ch.rsvd + Len(ch.sub) = LcFifo - 1
        /\ ch.rsvd = Cardinality({p \in LcPb : lcPb[p].st = "open" /\ lcPb[p].chan = c})
        /\ ch.pend - lcHw[c] <= Len(ch.sub)
        /\ lcHw[c] >= ch.done

(* Each structure is free or in one ring, and in its channel's list, in    *)
(* order, once it is submitted; rings are free when none of theirs is open.*)
ListsKept ==
    /\ \A p \in LcPb : \A r \in Rings :
          Cardinality({k \in DOMAIN lcRing[r].pbs : lcRing[r].pbs[k] = p})
              = IF lcPb[p].st # "free" /\ lcPb[p].ring = r THEN 1 ELSE 0
    /\ \A c \in LcChan : \A k \in DOMAIN lcChan[c].sub :
          /\ lcPb[lcChan[c].sub[k]].chan = c /\ lcPb[lcChan[c].sub[k]].st = "submitted"
          /\ k > 1 => lcPb[lcChan[c].sub[k]].seq = lcPb[lcChan[c].sub[k - 1]].seq + 1
    /\ \A m \in LcManagers : \A r \in lcSetup.managers[m].rings :
          (\E k \in DOMAIN lcFree[m] : lcFree[m][k] = r)
              <=> /\ \A p \in LcPb : lcPb[p].st = "open" => lcPb[p].ring # r
                  /\ \A t \in LcThread : lcThread[t].ring # r

(* The acquires fit, and pushes for the range complete in the order of the *)
(* lock's holders; the tracker names what is not done of the last one.     *)
Complete(x) == lcHw[x[1]] >= x[2]
Batch(i) == (i - 1) \div Len(lcSetup.managers)
RangeOrdered ==
    /\ \A i, j \in DOMAIN lcHist : Batch(i) < Batch(j) /\ Complete(lcHist[j]) => Complete(lcHist[i])
    /\ lcLock = LcNone => \A i \in DOMAIN lcHist :
          \/ Complete(lcHist[i])
          \/ \E k \in DOMAIN lcTrack.used :
                \/ lcTrack.used[k][1] = lcHist[i][1] /\ lcTrack.used[k][2] >= lcHist[i][2]
                \/ ~Complete(lcTrack.used[k])

(* Pools that share memory have semaphores of their own, which nobody has  *)
(* used before; the pool at the front of the list has memory to duplicate. *)
PoolsApart ==
    /\ \A p, q \in LcPool : p # q /\ lcPool[p].st = "live" /\ lcPool[q].st = "live"
                            /\ lcPool[p].mem = lcPool[q].mem => lcPool[p].id # lcPool[q].id
    /\ \A p \in LcPool : lcPool[p].st = "mapped" =>
          <<lcPool[p].mem, _get_next_free_pool_id_safe>> \notin lcTaken
    /\ lcMem.alloc => lcActive # <<>> /\ lcPool[lcActive[1]].mem # 0

LiteChannelsExact == RingsIntact /\ EntriesKept /\ ListsKept /\ RangeOrdered /\ PoolsApart
================================================================================
