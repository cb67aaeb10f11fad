---------------------------- MODULE PageFaults -----------------------------
(***************************************************************************)
(* The servicing of replayable faults (uvm8_gpu_page_fault.c): the GPU's   *)
(* fault buffer, the bottom half that fetches, services, replays, flushes  *)
(* and cancels, and the threads that destroy channels and VA ranges.       *)
(*                                                                         *)
(* The GPU is external: its requests fault into the ring (or find it full  *)
(* and leave no entry), stall until a replay, and fault again.  That       *)
(* isr_lock excludes the bottom half and the threads is FaultIsr's; what a *)
(* block does with the pages it is asked to service is VaBlock's.          *)
(***************************************************************************)
EXTENDS Integers, FiniteSets, Sequences

CONSTANTS
  Requests,     \* memory accesses: [id, utlb, space, page, access, type]
  Setups,       \* [policy, requests, channels, oom, throttles, reuse]
  Allowed,      \* page -> the level of access its range permits
  MaxFaults,    \* max_faults, entries of the ring
  BatchCount,   \* fault_batch_count
  MaxBatches, MaxThrottle,   \* limits of one run of the bottom half
  MaxReplays    \* bound: replays pending on one channel

NoSpace == -1
NoFault == <<>>
NoRequest == [id |-> 0, utlb |-> 0, space |-> NoSpace, page |-> 0, access |-> "read", type |-> "pte"]
Level(access) == CASE access = "atomic" -> 3 [] access = "write" -> 2
                   [] access \in {"read", "prefetch"} -> 1
Intrusiveness(access) == IF access = "prefetch" THEN 0 ELSE Level(access)
Policies == {"BLOCK", "BATCH", "BATCH_FLUSH", "ONCE"}
Pages == DOMAIN Allowed
PagesPerBlock == 2
Block(page) == page \div PagesPerBlock
Blocks == {Block(p) : p \in Pages}
Spaces == {r.space : r \in Requests}
Utlbs == {r.utlb : r \in Requests}
Slots == 0 .. MaxFaults - 1
Channels == {1, 2}

Accesses == {"prefetch", "read", "write", "atomic"}
ASSUME PageFaultsAssumption ==
  /\ MaxFaults \in Nat /\ MaxFaults > 1 /\ BatchCount \in 1 .. MaxFaults
  /\ MaxBatches > 0 /\ MaxThrottle > 0 /\ MaxReplays > 0
  /\ Requests \subseteq [id : Nat, utlb : Nat, space : Nat, page : Pages, access : Accesses,
                         type : {"pte", "fatal"}]
  /\ Pages \subseteq Nat
  /\ Setups \subseteq [policy : Policies, requests : SUBSET Requests, channels : SUBSET Channels,
                       oom : Nat, throttles : Nat, reuse : SUBSET {"channel", "range"}]

VARIABLES
  setup,
  (* the GPU *)
  request,      \* request -> "idle", "stalled", "dropped", "retry", "done", ...
  ring,         \* slot -> [req, channel, range, valid]
  put,          \* the PUT register
  replays,      \* channel -> replays pushed and not finished
  lockdown,     \* uTLBs that accept no new requests
  (* uvm_replayable_fault_buffer_info_t *)
  cached_get, cached_put, fault_cache, max_utlb_id,
  num_pending_faults, fatal_utlbs, in_lockdown, cancelled, prev_fatal_fault,
  (* the bottom half *)
  pc, mode, todo, va_space, flush, batch, service,
  (* VA spaces *)
  channel, channel_gen, range, range_gen, gpu_va_space, needs_fault_buffer_flush, mapped

gpu_vars == <<request, ring, put, replays, lockdown>>
utlb_vars == <<num_pending_faults, fatal_utlbs, in_lockdown, cancelled, prev_fatal_fault>>
cache_vars == <<fault_cache, max_utlb_id, utlb_vars>>
bh_vars == <<mode, todo, va_space, flush, batch, service>>
space_vars == <<channel, channel_gen, range, range_gen, gpu_va_space,
                needs_fault_buffer_flush, mapped>>
pf_vars == <<setup, gpu_vars, cached_get, cached_put, cache_vars, pc, bh_vars, space_vars>>

Empty == [req |-> NoRequest, channel |-> 0, range |-> 0, valid |-> FALSE]
NoFlush == [type |-> "none", ret |-> "none"]
NewBatch == [fatal |-> FALSE, throttled |-> FALSE]
NewService == [replayed |-> FALSE, more |-> FALSE, batches |-> 0, throttled |-> 0]

PfInit ==
  /\ setup \in Setups
  /\ request = [r \in Requests |-> "idle"]
  /\ ring = [i \in Slots |-> Empty] /\ put = 0
  /\ replays = [c \in Channels |-> <<>>] /\ lockdown = {}
  /\ cached_get = 0 /\ cached_put = 0 /\ fault_cache = <<>> /\ max_utlb_id = 0
  /\ num_pending_faults = [u \in Utlbs |-> 0] /\ fatal_utlbs = {}
  /\ in_lockdown = {} /\ cancelled = {} /\ prev_fatal_fault = [u \in Utlbs |-> NoFault]
  /\ pc = "idle" /\ mode = "REGULAR" /\ todo = {} /\ va_space = NoSpace
  /\ flush = NoFlush /\ batch = NewBatch /\ service = NewService
  /\ channel = [s \in Spaces |-> "bound"] /\ channel_gen = [s \in Spaces |-> 0]
  /\ range = [x \in Spaces \X Blocks |-> TRUE]
  /\ range_gen = [x \in Spaces \X Blocks |-> 0]
  /\ gpu_va_space = [s \in Spaces |-> TRUE]
  /\ needs_fault_buffer_flush = [s \in Spaces |-> FALSE]
  /\ mapped = [x \in Spaces \X Pages |-> 0]

NextSlot(i) == (i + 1) % MaxFaults
InBuffer(get, limit) == {i \in Slots : (i - get) % MaxFaults < (limit - get) % MaxFaults}

-----------------------------------------------------------------------------
(* The GPU.  A request that finds no sufficient mapping writes an entry,   *)
(* whose valid bit appears later, and stalls; prefetches do not stall.     *)

Waiting(r) == request[r] \in {"stalled", "dropped"}
Live(r) == Waiting(r) \/ request[r] = "retry"
Authorized(r) == r.type = "pte" /\ mapped[<<r.space, r.page>>] >= Level(r.access)

Fault(r) ==
  /\ request' = [request EXCEPT ![r] = IF r.access = "prefetch" THEN "done"
                                       ELSE IF NextSlot(put) = cached_get THEN "dropped"
                                       ELSE "stalled"]
  /\ \/ /\ NextSlot(put) # cached_get
        /\ ring' = [ring EXCEPT ![put] =
             [req |-> r, channel |-> channel_gen[r.space],
              range |-> range_gen[<<r.space, Block(r.page)>>], valid |-> FALSE]]
        /\ put' = NextSlot(put)
     \/ NextSlot(put) = cached_get /\ UNCHANGED <<ring, put>>
Access(r) ==
  /\ \/ ~Authorized(r) /\ Fault(r)
     \/ Authorized(r) /\ request' = [request EXCEPT ![r] = "done"] /\ UNCHANGED <<ring, put>>
  /\ UNCHANGED <<setup, replays, lockdown, cached_get, cached_put, cache_vars, pc,
                 bh_vars, space_vars>>

(* After a cancel RM resets the channel: it issues nothing more, and what  *)
(* it has in flight ends at some moment.                                   *)
Reset(s) == \E r \in Requests : r.space = s /\ request[r] = "cancelled"
ResetChannel(s) ==
  /\ Reset(s) /\ \E r \in Requests : r.space = s /\ Live(r)
  /\ request' = [r \in Requests |-> IF r.space = s /\ Live(r) THEN "stopped" ELSE request[r]]
  /\ UNCHANGED <<setup, ring, put, replays, lockdown, cached_get, cached_put, cache_vars, pc,
                 bh_vars, space_vars>>

Issue(r) ==
  /\ r \in setup.requests /\ request[r] = "idle"
  /\ r.utlb \notin lockdown /\ channel[r.space] = "bound" /\ ~Reset(r.space)
  /\ r.access = "prefetch" => mode # "CANCEL"
  /\ Access(r)
Retry(r) == request[r] = "retry" /\ Access(r)

EntryWritten(i) ==
  /\ i \in InBuffer(cached_get, put) /\ ~ring[i].valid
  /\ ring' = [ring EXCEPT ![i].valid = TRUE]
  /\ UNCHANGED <<setup, request, put, replays, lockdown, cached_get, cached_put,
                 cache_vars, pc, bh_vars, space_vars>>

(* START releases the uTLBs; START_ACK_ALL keeps those with faults locked  *)
(* and ends when every request it replayed has succeeded or faulted again. *)
Replay(c) ==
  /\ replays[c] # <<>> /\ Head(replays[c]) \in {"START", "START_ACK_ALL"}
  /\ request' = [r \in Requests |-> IF Waiting(r) THEN "retry" ELSE request[r]]
  /\ \/ /\ Head(replays[c]) = "START"
        /\ replays' = [replays EXCEPT ![c] = Tail(@)]
        /\ lockdown' = {}
     \/ /\ Head(replays[c]) = "START_ACK_ALL"
        /\ replays' = [replays EXCEPT ![c] = <<"ACK">> \o Tail(@)]
        /\ lockdown' = {r.utlb : r \in {q \in Requests : Live(q)}}
  /\ UNCHANGED <<setup, ring, put, cached_get, cached_put, cache_vars, pc, bh_vars, space_vars>>
Acknowledge(c) ==
  /\ replays[c] # <<>> /\ Head(replays[c]) = "ACK"
  /\ \A r \in Requests : request[r] # "retry"
  /\ replays' = [replays EXCEPT ![c] = Tail(@)]
  /\ UNCHANGED <<setup, request, ring, put, lockdown, cached_get, cached_put, cache_vars,
                 pc, bh_vars, space_vars>>

(* A targeted cancel ends every stalled request of the uTLB.               *)
Cancel(u) ==
  /\ request' = [r \in Requests |-> IF r.utlb = u /\ Live(r) THEN "cancelled" ELSE request[r]]
  /\ lockdown' = lockdown \ {u}

-----------------------------------------------------------------------------
(* Helpers of the bottom half.                                             *)

uvm_replayable_faults_pending ==
  cached_get # cached_put \/ ring[cached_get].valid \/ put # cached_get

push_replay_on_gpu(type) ==
  \E c \in setup.channels :
    /\ Len(replays[c]) < MaxReplays
    /\ replays' = [replays EXCEPT ![c] = Append(@, type)]
ReplayTrackerDone == \A c \in Channels : replays[c] = <<>>

(* fault_buffer_flush_locked up to its wait for the valid bits; the rest   *)
(* is flush_entries, which continues at ret.                               *)
fault_buffer_flush_locked(update_put, type, ret) ==
  /\ cached_put' = IF update_put THEN put ELSE cached_put
  /\ flush' = [type |-> type, ret |-> ret]
  /\ pc' = "flush"

(* Mutant: GET follows the PUT register instead of the cached PUT.         *)
FlushToRegister == put
FlushTo == cached_put
flush_entries ==
  LET entries == InBuffer(cached_get, cached_put)
  IN /\ pc = "flush" /\ \A i \in entries : ring[i].valid
     /\ ring' = [i \in Slots |-> IF i \in entries THEN Empty ELSE ring[i]]
     /\ cached_get' = FlushTo
     /\ num_pending_faults' = [u \in Utlbs |-> IF u <= max_utlb_id THEN 0 ELSE num_pending_faults[u]]
     /\ fatal_utlbs' = {u \in fatal_utlbs : u > max_utlb_id}
     /\ push_replay_on_gpu(flush.type)
     /\ service' = [service EXCEPT !.replayed = @ \/ (mode = "REGULAR" /\ flush.ret # "idle"),
                                    !.more = flush.ret = "loop"]
     /\ va_space' = NoSpace
     /\ flush' = NoFlush /\ pc' = flush.ret
     /\ UNCHANGED <<setup, request, put, lockdown, cached_put, fault_cache, max_utlb_id,
                    in_lockdown, cancelled, prev_fatal_fault, mode, todo, batch, space_vars>>

-----------------------------------------------------------------------------
(* The bottom half: service_fault_buffer.                                  *)

(* The rest of the top half, with isr_lock free, is FaultIsr's.            *)
uvm8_isr_top_half ==
  /\ pc = "idle" /\ uvm_replayable_faults_pending
  /\ cached_put' = IF cached_get # cached_put \/ ring[cached_get].valid THEN cached_put ELSE put
  /\ pc' = "loop" /\ mode' = "REGULAR" /\ service' = NewService /\ batch' = NewBatch
  /\ UNCHANGED <<setup, gpu_vars, cached_get, cache_vars, todo, va_space, flush, space_vars>>

LimitReached == service.throttled >= MaxThrottle \/ service.batches >= MaxBatches

(* fetch_fault_buffer_entries reads PUT if it has used up the old one, and *)
(* with FAULT_FETCH_MODE_ALL, when it cancels, after the replay's end.     *)
fetch_start ==
  /\ \/ pc = "loop" /\ mode = "REGULAR"
     \/ pc = "refetch" /\ ReplayTrackerDone
  /\ batch' = NewBatch
  /\ \/ /\ pc = "loop" /\ LimitReached
        /\ pc' = "end" /\ UNCHANGED cached_put
     \/ /\ ~(pc = "loop" /\ LimitReached)
        /\ cached_put' = IF cached_get = cached_put THEN put ELSE cached_put
        /\ pc' = IF cached_put' # cached_get THEN "fetch"
                 ELSE IF mode = "REGULAR" THEN "end" ELSE "cancel_done"
  /\ max_utlb_id' = IF pc = "loop" /\ LimitReached THEN max_utlb_id ELSE 0
  /\ fault_cache' = IF pc' = "fetch" THEN fault_cache ELSE <<>>
  /\ UNCHANGED <<setup, gpu_vars, cached_get, utlb_vars, mode, todo, va_space, flush,
                 service, space_vars>>

Slot(k) == (cached_get + k - 1) % MaxFaults
Available == (cached_put - cached_get) % MaxFaults
Ready(n) == \A k \in 1 .. n : ring[Slot(k)].valid
FetchCount ==
  IF mode = "CANCEL" THEN Available
  ELSE CHOOSE n \in 0 .. Available :
         /\ Ready(n) /\ n <= BatchCount
         /\ n = Available \/ n = BatchCount \/ ~ring[Slot(n + 1)].valid
Key(r) == <<r.space, r.page, r.access, r.utlb>>

fetch_fault_buffer_entries ==
  LET n == FetchCount
      faults == [k \in 1 .. n |-> [req |-> ring[Slot(k)].req,
                   channel |-> ring[Slot(k)].channel, range |-> ring[Slot(k)].range,
                   is_fatal |-> ring[Slot(k)].req.type = "fatal"]]
      utlb == {faults[k].req.utlb : k \in 1 .. n}
      seen == {Key(faults[k].req) : k \in 1 .. n}
  IN /\ pc = "fetch" /\ n > 0 /\ Ready(n)
     /\ fault_cache' = faults
     /\ ring' = [i \in Slots |-> IF \E k \in 1 .. n : i = Slot(k) THEN Empty ELSE ring[i]]
     /\ cached_get' = (cached_get + n) % MaxFaults
     /\ max_utlb_id' = CHOOSE u \in utlb : \A v \in utlb : v <= u
     /\ num_pending_faults' = [u \in Utlbs |->
          num_pending_faults[u] + Cardinality({k \in 1 .. n : faults[k].req.utlb = u})]
     /\ \/ mode = "REGULAR" /\ UNCHANGED <<in_lockdown, cancelled>>
        \/ /\ mode = "CANCEL"
           /\ in_lockdown' = {u \in Utlbs : IF u <= max_utlb_id' THEN prev_fatal_fault[u] \in seen
                                                                 ELSE u \in in_lockdown}
           /\ cancelled' = {u \in cancelled : u > max_utlb_id'}
     /\ todo' = 1 .. n
     /\ pc' = "preprocess"
     /\ UNCHANGED <<setup, request, put, replays, lockdown, cached_put, fatal_utlbs,
                    prev_fatal_fault, mode, va_space, flush, batch, service, space_vars>>

Again == IF mode = "REGULAR" THEN "loop" ELSE "cancel"
InstancePtrKnown(s) == channel[s] \in {"bound", "stopped"}
preprocess_fault_batch ==
  /\ pc = "preprocess"
  /\ \/ /\ \E k \in todo : ~InstancePtrKnown(fault_cache[k].req.space)
        /\ fault_buffer_flush_locked(TRUE, "START", Again)
        /\ todo' = {}
     \/ /\ \A k \in todo : InstancePtrKnown(fault_cache[k].req.space)
        /\ pc' = "service"
        /\ UNCHANGED <<cached_put, flush, todo>>
  /\ UNCHANGED <<setup, gpu_vars, cached_get, cache_vars, mode, va_space, batch, service, space_vars>>

-----------------------------------------------------------------------------
(* service_fault_batch takes the faults in the order of VA space, address  *)
(* and intrusiveness of the access.                                        *)

Before(i, j) ==
  LET a == fault_cache[i].req  b == fault_cache[j].req
  IN \/ a.space < b.space
     \/ a.space = b.space /\ a.page < b.page
     \/ a.space = b.space /\ a.page = b.page
        /\ Intrusiveness(a.access) > Intrusiveness(b.access)
     \/ a.space = b.space /\ a.page = b.page
        /\ Intrusiveness(a.access) = Intrusiveness(b.access) /\ i < j
First(S) == CHOOSE i \in S : \A j \in S \ {i} : Before(i, j)
Current == fault_cache[First(todo)]
MustFlush(s) == s # va_space /\ gpu_va_space[s] /\ needs_fault_buffer_flush[s]
Servicing == pc = "service" /\ todo # {} /\ ~MustFlush(Current.req.space)

Handled(K) ==
  num_pending_faults' = [u \in Utlbs |->
    num_pending_faults[u] - Cardinality({k \in K : fault_cache[k].req.utlb = u})]
FatalFaults(K) == fatal_utlbs' = fatal_utlbs \cup {fault_cache[k].req.utlb : k \in K}

service_flush ==
  LET s == Current.req.space
  IN /\ pc = "service" /\ todo # {} /\ MustFlush(s)
     /\ needs_fault_buffer_flush' = [needs_fault_buffer_flush EXCEPT ![s] = FALSE]
     /\ va_space' = s /\ todo' = {}
     /\ fault_buffer_flush_locked(TRUE, "START", Again)
     /\ UNCHANGED <<setup, gpu_vars, cached_get, cache_vars, mode, batch, service, channel,
                    channel_gen, range, range_gen, gpu_va_space, mapped>>

service_already_fatal ==
  /\ Servicing /\ Current.is_fatal
  /\ Handled({First(todo)}) /\ FatalFaults({First(todo)})
  /\ batch' = [batch EXCEPT !.fatal = TRUE]
  /\ va_space' = Current.req.space /\ todo' = todo \ {First(todo)}
  /\ UNCHANGED <<setup, gpu_vars, cached_get, cached_put, fault_cache, max_utlb_id,
                 in_lockdown, cancelled, prev_fatal_fault, pc, mode, flush, service, space_vars>>

service_ignored ==
  /\ Servicing /\ ~Current.is_fatal /\ ~gpu_va_space[Current.req.space]
  /\ va_space' = Current.req.space /\ todo' = todo \ {First(todo)}
  /\ UNCHANGED <<setup, gpu_vars, cached_get, cached_put, cache_vars, pc, mode, flush,
                 batch, service, space_vars>>

(* service_fault_batch_block_locked.  K are the faults of the block.  The  *)
(* loop also resets the flags of the fault at which it stops, if that is a *)
(* fault at a lower address in the next VA space.                          *)
Permitted(r) == Level(r.access) <= Allowed[r.page]
Denied(k) == fault_cache[k].req.access # "prefetch" /\ ~Permitted(fault_cache[k].req)
BlockFaults(s, b) == {k \in todo : fault_cache[k].req.space = s /\ Block(fault_cache[k].req.page) = b}
Flagged(K, b) ==
  LET rest == todo \ K
      reset == {k \in rest : k = First(rest) /\ Block(fault_cache[k].req.page) <= b}
  IN [k \in DOMAIN fault_cache |->
        IF k \in K THEN [fault_cache[k] EXCEPT !.is_fatal = Denied(k)]
        ELSE IF k \in reset THEN [fault_cache[k] EXCEPT !.is_fatal = FALSE]
        ELSE fault_cache[k]]
Needed(K, p) ==
  LET levels == {Level(fault_cache[k].req.access) :
                   k \in {j \in K : fault_cache[j].req.page = p /\ Permitted(fault_cache[j].req)}}
  IN IF levels = {} THEN 0 ELSE CHOOSE l \in levels : \A m \in levels : m <= l

service_block ==
  LET s == Current.req.space
      b == Block(Current.req.page)
      K == BlockFaults(s, b)
      pages == {p \in Pages : Needed(K, p) > mapped[<<s, p>>]}
  IN /\ Servicing /\ ~Current.is_fatal /\ gpu_va_space[s] /\ range[<<s, b>>]
     /\ \E throttled \in SUBSET pages :
          /\ throttled # {} => setup.throttles > 0
          /\ setup' = [setup EXCEPT !.throttles = IF throttled = {} THEN @ ELSE @ - 1]
          /\ mapped' = [x \in DOMAIN mapped |->
               IF x[1] = s /\ x[2] \in pages \ throttled THEN Needed(K, x[2]) ELSE mapped[x]]
          /\ batch' = [fatal |-> batch.fatal \/ \E k \in K : Denied(k),
                       throttled |-> batch.throttled \/ throttled # {}]
     /\ Handled(K) /\ FatalFaults({k \in K : Denied(k)})
     /\ fault_cache' = Flagged(K, b)
     /\ va_space' = s /\ todo' = todo \ K
     /\ \/ /\ mode = "REGULAR" /\ setup.policy = "BLOCK"
           /\ push_replay_on_gpu("START")
           /\ service' = [service EXCEPT !.replayed = TRUE]
        \/ /\ ~(mode = "REGULAR" /\ setup.policy = "BLOCK")
           /\ UNCHANGED <<replays, service>>
     /\ UNCHANGED <<request, ring, put, lockdown, cached_get, cached_put, max_utlb_id,
                    in_lockdown, cancelled, prev_fatal_fault, pc, mode, flush, channel,
                    channel_gen, range, range_gen, gpu_va_space, needs_fault_buffer_flush>>

(* The pages cannot be serviced for lack of memory: the batch fails.       *)
Failed == IF mode = "REGULAR" THEN "cancel_batch" ELSE "cancel"
service_block_fails ==
  LET s == Current.req.space
      b == Block(Current.req.page)
      K == BlockFaults(s, b)
  IN /\ Servicing /\ ~Current.is_fatal /\ gpu_va_space[s] /\ range[<<s, b>>]
     /\ setup.oom > 0 /\ setup' = [setup EXCEPT !.oom = @ - 1]
     /\ \E p \in Pages : Needed(K, p) > mapped[<<s, p>>]
     /\ Handled(K) /\ FatalFaults({k \in K : Denied(k)})
     /\ fault_cache' = Flagged(K, b)
     /\ va_space' = NoSpace /\ todo' = {} /\ pc' = Failed
     /\ UNCHANGED <<gpu_vars, cached_get, cached_put, max_utlb_id, in_lockdown, cancelled,
                    prev_fatal_fault, mode, flush, batch, service, space_vars>>

(* uvm_va_block_find_create finds no range at the address.                 *)
service_no_block ==
  LET k == First(todo)
      fatal == Current.req.access # "prefetch"
  IN /\ Servicing /\ ~Current.is_fatal /\ gpu_va_space[Current.req.space]
     /\ ~range[<<Current.req.space, Block(Current.req.page)>>]
     /\ Handled({k}) /\ FatalFaults(IF fatal THEN {k} ELSE {})
     /\ fault_cache' = [fault_cache EXCEPT ![k].is_fatal = fatal]
     /\ batch' = [batch EXCEPT !.fatal = @ \/ fatal]
     /\ va_space' = Current.req.space /\ todo' = todo \ {k}
     /\ UNCHANGED <<setup, gpu_vars, cached_get, cached_put, max_utlb_id, in_lockdown,
                    cancelled, prev_fatal_fault, pc, mode, flush, service, space_vars>>

-----------------------------------------------------------------------------
(* What service_fault_buffer and cancel_faults_precise do after a batch.   *)

BatchDone == pc = "service" /\ todo = {}
Counted == [service EXCEPT !.batches = @ + 1, !.throttled = IF batch.throttled THEN @ + 1 ELSE @,
                           !.more = FALSE]

batch_done ==
  /\ BatchDone /\ mode = "REGULAR" /\ ~batch.fatal
  /\ va_space' = NoSpace
  /\ \/ /\ setup.policy \in {"BLOCK", "ONCE"}
        /\ service' = Counted /\ pc' = "loop"
        /\ UNCHANGED <<replays, cached_put, flush>>
     \/ /\ setup.policy = "BATCH"
        /\ push_replay_on_gpu("START")
        /\ service' = [Counted EXCEPT !.replayed = TRUE] /\ pc' = "loop"
        /\ UNCHANGED <<cached_put, flush>>
     \/ /\ setup.policy = "BATCH_FLUSH"
        /\ fault_buffer_flush_locked(FALSE, "START", "wait")
        /\ UNCHANGED <<replays, service>>
  /\ UNCHANGED <<setup, request, ring, put, lockdown, cached_get, cache_vars, mode, todo,
                 batch, space_vars>>

batch_flush_wait ==
  /\ pc = "wait" /\ ReplayTrackerDone
  /\ service' = Counted /\ pc' = "loop"
  /\ UNCHANGED <<setup, gpu_vars, cached_get, cached_put, cache_vars, mode, todo, va_space,
                 flush, batch, space_vars>>

batch_has_fatal_faults ==
  /\ BatchDone /\ batch.fatal
  /\ va_space' = NoSpace
  /\ pc' = IF mode = "REGULAR" THEN "cancel" ELSE "try_cancel"
  /\ mode' = "CANCEL"
  /\ UNCHANGED <<setup, gpu_vars, cached_get, cached_put, cache_vars, todo, flush, batch,
                 service, space_vars>>

(* Steps 2 and 3: remember a fatal fault of each uTLB, flush and replay.   *)
(* A count left by a failed batch has no fault: the entry read is stale.   *)
FatalIn(u) == {k \in DOMAIN fault_cache : fault_cache[k].is_fatal /\ fault_cache[k].req.utlb = u}
FirstOf(K) == CHOOSE k \in K : \A j \in K : k <= j
cancel_faults_precise ==
  /\ pc = "cancel" /\ mode = "CANCEL"
  /\ \E stale \in setup.requests :
       prev_fatal_fault' = [u \in Utlbs |->
         IF u > max_utlb_id THEN prev_fatal_fault[u]
         ELSE IF u \notin fatal_utlbs THEN NoFault
         ELSE IF FatalIn(u) = {} THEN Key(stale)
         ELSE Key(fault_cache[FirstOf(FatalIn(u))].req)]
  /\ fault_buffer_flush_locked(TRUE, "START_ACK_ALL", "refetch")
  /\ UNCHANGED <<setup, gpu_vars, cached_get, fault_cache, max_utlb_id, num_pending_faults,
                 fatal_utlbs, in_lockdown, cancelled, mode, todo, va_space, batch, service,
                 space_vars>>

InUtlb(u) == {k \in DOMAIN fault_cache : fault_cache[k].req.utlb = u}
SamePage(j, k) == fault_cache[j].req.space = fault_cache[k].req.space
                  /\ fault_cache[j].req.page = fault_cache[k].req.page
(* Mutant: pages with non-fatal faults only do not save the uTLB.          *)
NoOtherPages(u) == FALSE
no_fatal_pages_in_utlb(u) ==
  \E k \in InUtlb(u) : \A j \in InUtlb(u) : SamePage(j, k) => ~fault_cache[j].is_fatal
Cancellable(u) ==
  /\ u \in in_lockdown /\ u \notin cancelled /\ InUtlb(u) # {}
  /\ fault_cache[FirstOf(InUtlb(u))].is_fatal
  /\ ~no_fatal_pages_in_utlb(u)
try_to_cancel_utlbs ==
  /\ pc = "try_cancel"
  /\ \/ \E u \in Utlbs :
          /\ Cancellable(u) /\ ReplayTrackerDone
          /\ Cancel(u) /\ cancelled' = cancelled \cup {u}
          /\ UNCHANGED pc
     \/ /\ \A u \in Utlbs : ~Cancellable(u)
        /\ pc' = "cancel"
        /\ UNCHANGED <<request, lockdown, cancelled>>
  /\ UNCHANGED <<setup, ring, put, replays, cached_get, cached_put, fault_cache, max_utlb_id,
                 num_pending_faults, fatal_utlbs, in_lockdown, prev_fatal_fault, bh_vars, space_vars>>

(* No fatal fault is left, or no fault at all.                             *)
cancel_done ==
  /\ \/ pc = "cancel_done"
     \/ BatchDone /\ mode = "CANCEL" /\ ~batch.fatal
  /\ push_replay_on_gpu("START")
  /\ mode' = "REGULAR" /\ va_space' = NoSpace /\ pc' = "end"
  /\ UNCHANGED <<setup, request, ring, put, lockdown, cached_get, cached_put, cache_vars,
                 todo, flush, batch, service, space_vars>>

(* A failed batch: one cancel for each uTLB of the batch.                  *)
Uncancelled == {k \in DOMAIN fault_cache : fault_cache[k].req.utlb \notin cancelled}
cancel_fault_batch ==
  /\ pc = "cancel_batch"
  /\ \/ /\ Uncancelled # {} /\ ReplayTrackerDone
        /\ LET u == fault_cache[FirstOf(Uncancelled)].req.utlb
           IN Cancel(u) /\ cancelled' = cancelled \cup {u}
        /\ UNCHANGED pc
     \/ /\ Uncancelled = {} /\ pc' = "end_error"
        /\ UNCHANGED <<request, lockdown, cancelled>>
  /\ UNCHANGED <<setup, ring, put, replays, cached_get, cached_put, fault_cache, max_utlb_id,
                 num_pending_faults, fatal_utlbs, in_lockdown, prev_fatal_fault, bh_vars, space_vars>>

(* Mutant: no replay at the end.                                           *)
NoLastReplay == FALSE
LastReplay == \/ ~service.replayed
              \/ pc = "end" /\ setup.policy = "ONCE" /\ ~service.more
service_fault_buffer_end ==
  /\ pc \in {"end", "end_error"}
  /\ \/ LastReplay /\ push_replay_on_gpu("START")
     \/ ~LastReplay /\ UNCHANGED replays
  /\ pc' = "idle" /\ fault_cache' = <<>>
  /\ service' = NewService /\ batch' = NewBatch
  /\ UNCHANGED <<setup, request, ring, put, lockdown, cached_get, cached_put, max_utlb_id,
                 utlb_vars, mode, todo, va_space, flush, space_vars>>

-----------------------------------------------------------------------------
(* The threads.  A channel is stopped and detached, the fault buffer is    *)
(* flushed under isr_lock, and only then is its instance pointer released, *)
(* for a new channel to get.                                               *)

WriteLocked(s) == va_space # s

uvm_user_channel_stop(s) ==
  /\ "channel" \in setup.reuse /\ channel[s] = "bound" /\ s \in {r.space : r \in setup.requests}
  /\ channel' = [channel EXCEPT ![s] = "stopped"]
  /\ request' = [r \in Requests |-> IF r.space = s /\ Live(r) THEN "stopped" ELSE request[r]]
  /\ UNCHANGED <<setup, ring, put, replays, lockdown, cached_get, cached_put, cache_vars, pc,
                 bh_vars, channel_gen, range, range_gen, gpu_va_space,
                 needs_fault_buffer_flush, mapped>>

(* uvm_unregister_channel, or the destruction of the whole GPU VA space.   *)
uvm_user_channel_detach(s) ==
  /\ channel[s] = "stopped" /\ WriteLocked(s)
  /\ channel' = [channel EXCEPT ![s] = "detached"]
  /\ \/ UNCHANGED <<gpu_va_space, needs_fault_buffer_flush, mapped>>
     \/ /\ gpu_va_space' = [gpu_va_space EXCEPT ![s] = FALSE]
        /\ needs_fault_buffer_flush' = [needs_fault_buffer_flush EXCEPT ![s] = FALSE]
        /\ mapped' = [x \in DOMAIN mapped |-> IF x[1] = s THEN 0 ELSE mapped[x]]
  /\ UNCHANGED <<setup, gpu_vars, cached_get, cached_put, cache_vars, pc, bh_vars,
                 channel_gen, range, range_gen>>

uvm_deferred_free_object_channel(s) ==
  /\ channel[s] = "detached" /\ pc = "idle"
  /\ channel' = [channel EXCEPT ![s] = "released"]
  /\ fault_buffer_flush_locked(TRUE, "START", "idle")
  /\ UNCHANGED <<setup, gpu_vars, cached_get, cache_vars, mode, todo, va_space, batch, service,
                 channel_gen, range, range_gen, gpu_va_space, needs_fault_buffer_flush, mapped>>

uvm_register_channel(s) ==
  /\ channel[s] = "released" /\ WriteLocked(s) /\ pc # "flush"
  /\ channel' = [channel EXCEPT ![s] = "bound"]
  /\ channel_gen' = [channel_gen EXCEPT ![s] = @ + 1]
  /\ gpu_va_space' = [gpu_va_space EXCEPT ![s] = TRUE]
  /\ setup' = [setup EXCEPT !.reuse = @ \ {"channel"}]
  /\ UNCHANGED <<gpu_vars, cached_get, cached_put, cache_vars, pc, bh_vars, range, range_gen,
                 needs_fault_buffer_flush, mapped>>

uvm_vm_close_managed(s, b) ==
  /\ "range" \in setup.reuse /\ range[<<s, b>>] /\ WriteLocked(s)
  /\ \E r \in setup.requests : r.space = s /\ Block(r.page) = b
  /\ range' = [range EXCEPT ![<<s, b>>] = FALSE]
  /\ range_gen' = [range_gen EXCEPT ![<<s, b>>] = @ + 1]
  /\ setup' = [setup EXCEPT !.reuse = @ \ {"range"}]
  /\ mapped' = [x \in DOMAIN mapped |-> IF x[1] = s /\ Block(x[2]) = b THEN 0 ELSE mapped[x]]
  /\ needs_fault_buffer_flush' = [needs_fault_buffer_flush EXCEPT ![s] = @ \/ gpu_va_space[s]]
  /\ UNCHANGED <<gpu_vars, cached_get, cached_put, cache_vars, pc, bh_vars, channel,
                 channel_gen, gpu_va_space>>

uvm_mmap(s, b) ==
  /\ ~range[<<s, b>>] /\ WriteLocked(s)
  /\ range' = [range EXCEPT ![<<s, b>>] = TRUE]
  /\ UNCHANGED <<setup, gpu_vars, cached_get, cached_put, cache_vars, pc, bh_vars, channel,
                 channel_gen, range_gen, gpu_va_space, needs_fault_buffer_flush, mapped>>

-----------------------------------------------------------------------------
Gpu ==
  \/ \E r \in Requests : Issue(r) \/ Retry(r)
  \/ \E i \in Slots : EntryWritten(i)
  \/ \E c \in Channels : Replay(c) \/ Acknowledge(c)
  \/ \E s \in Spaces : ResetChannel(s)
BottomHalf ==
  \/ flush_entries \/ fetch_start \/ fetch_fault_buffer_entries \/ preprocess_fault_batch
  \/ service_flush \/ service_already_fatal \/ service_ignored \/ service_block
  \/ service_block_fails \/ service_no_block \/ batch_done \/ batch_flush_wait
  \/ batch_has_fatal_faults \/ cancel_faults_precise \/ try_to_cancel_utlbs
  \/ cancel_done \/ cancel_fault_batch \/ service_fault_buffer_end
Threads ==
  \E s \in Spaces :
    \/ uvm_user_channel_stop(s) \/ uvm_user_channel_detach(s)
    \/ uvm_deferred_free_object_channel(s) \/ uvm_register_channel(s)
    \/ \E b \in Blocks : uvm_vm_close_managed(s, b) \/ uvm_mmap(s, b)
PfNext == Gpu \/ uvm8_isr_top_half \/ BottomHalf \/ Threads

PfSpec == PfInit /\ [][PfNext]_pf_vars
FairPfSpec ==
  /\ PfSpec
  /\ WF_pf_vars(BottomHalf) /\ WF_pf_vars(uvm8_isr_top_half)
  /\ \A r \in Requests : WF_pf_vars(Retry(r))
  /\ \A i \in Slots : WF_pf_vars(EntryWritten(i))
  /\ \A c \in Channels : WF_pf_vars(Replay(c) \/ Acknowledge(c))

-----------------------------------------------------------------------------
Faults == [req : Requests, channel : {0, 1}, range : {0, 1}, is_fatal : BOOLEAN]
PfTypeOK ==
  /\ request \in [Requests -> {"idle", "stalled", "dropped", "retry", "done", "cancelled", "stopped"}]
  /\ put \in Slots /\ cached_get \in Slots /\ cached_put \in Slots
  /\ \A k \in DOMAIN fault_cache : fault_cache[k] \in Faults
  /\ todo \subseteq DOMAIN fault_cache
  /\ num_pending_faults \in [Utlbs -> Nat]
  /\ mode = "CANCEL" => pc # "idle"

(* The variables have their types, and the driver's GET and cached PUT     *)
(* stay in step with the GPU's PUT: the cached PUT is never ahead of the   *)
(* register, and every entry whose valid bit is set is between GET and     *)
(* PUT, so that none is skipped and none is read twice, whatever was       *)
(* fetched, flushed (FLUSH_MODE_CACHED_PUT and UPDATE_PUT) or written in   *)
(* between.                                                                *)
BufferInStep ==
  /\ PfTypeOK
  /\ (cached_put - cached_get) % MaxFaults <= (put - cached_get) % MaxFaults
  /\ \A i \in Slots : ring[i].valid => i \in InBuffer(cached_get, put)

(* A fault that service_fault_batch is about to service belongs to the     *)
(* channel and to the VA range that are there now: stale entries of a      *)
(* destroyed channel whose instance pointer was reused, or of a range      *)
(* freed and allocated again, are flushed before (uvm8_va_space.c:1156,    *)
(* uvm8.c:300).                                                            *)
Attributed ==
  Servicing /\ gpu_va_space[Current.req.space] =>
    \A f \in {fault_cache[k] : k \in todo} :
      f.req.space = Current.req.space =>
        /\ f.channel = channel_gen[f.req.space]
        /\ f.range = range_gen[<<f.req.space, Block(f.req.page)>>]

(* A request that the GPU reported and that a precise cancel ends has     *)
(* company in its uTLB: a request to the same page that is fatal, of a     *)
(* fatal type, not permitted, or in a range that was freed.                *)
TrulyFatal(r) == r.type = "fatal" \/ ~Permitted(r) \/ range_gen[<<r.space, Block(r.page)>>] > 0
EndsReported(r) == request'[r] = "cancelled" /\ request[r] \notin {"cancelled", "dropped"}
SharesFatalPage(r) ==
  \E q \in Requests : /\ Live(q) /\ TrulyFatal(q)
                      /\ q.utlb = r.utlb /\ q.space = r.space /\ q.page = r.page

(* "Precise fault attribution" (uvm8_gpu_page_fault.c:1303): cancels of    *)
(* try_to_cancel_utlbs end such requests only.                             *)
OnlyFatalCancelled ==
  [][pc = "try_cancel" => \A r \in Requests : EndsReported(r) => SharesFatalPage(r)]_pf_vars

(* That is so in every uTLB that still is in lockdown when it is cancelled *)
(* (try_to_cancel_utlbs), and, where all replays are pushed on one channel *)
(* and so end in the order of the pushes, in every uTLB: no START comes    *)
(* after the START_ACK_ALL of the cancel and ends the lockdown.            *)
StillLocked(u) == u \in lockdown \/ Cardinality(setup.channels) = 1
CancelledInLockdown ==
  [][pc = "try_cancel" =>
       \A r \in Requests : EndsReported(r) /\ StillLocked(r.utlb) => SharesFatalPage(r)]_pf_vars

(* Every access that faulted is in the end serviced, cancelled or stopped  *)
(* with its channel: the requests are finite, so at some moment none waits *)
(* for a replay and none will again.  Batches, flushes and errors may drop *)
(* entries, also those the GPU could not write, but not the replay.        *)
EveryFaultResolved == <>[](\A r \in Requests : ~Live(r))

(* No entry is skipped, read twice, or taken for another's: GET, PUT and   *)
(* the valid bits stay in step, and what is serviced belongs to the        *)
(* channel and the range that are there.                                   *)
BufferExact == BufferInStep /\ Attributed
============================================================================
