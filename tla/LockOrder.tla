------------------------------ MODULE LockOrder ------------------------------
(***************************************************************************)
(* Lock order tracking (uvm8_lock.c) by thread contexts                    *)
(* (uvm8_thread_context.c), and the deadlock it is there to prevent:       *)
(* threads of the UVM API and the bottom half that services GPU faults     *)
(* take the VA space lock, RM's locks and block locks in any way the       *)
(* tracking accepts, while threads of RM wait, under RM's GPU lock, for    *)
(* GPU faults to be serviced.                                              *)
(***************************************************************************)
EXTENDS Integers, Sequences, FiniteSets, SequencesExt

CONSTANTS LoThread,   \* threads that call UVM
          LoBh,       \* the thread of the bottom half
          LoRm,       \* a thread of RM that never enters UVM
          LoBlock,    \* VA block locks
          LoSetups    \* threads, blocks: who there is; fails: contexts may not be
                      \* allocated, skips: tracking may be disabled

ASSUME LoAssumption ==
    /\ LoBh \in LoThread /\ LoRm \notin LoThread
    /\ LoBlock \intersect {"serialize", "va_space", "rm_api", "rm_gpus"} = {}
    /\ \A s \in LoSetups : /\ {s.fails, s.skips} \subseteq BOOLEAN
                            /\ s.threads \subseteq LoThread /\ s.blocks \subseteq LoBlock

VARIABLES loContext, \* [LoThread -> uvm_thread_context_t or NoContext]
          loLock,    \* [lock -> its holders and those that queue for it]
          loTodo,    \* [LoThread -> acquisitions its call still has to make]
          loFault,   \* a GPU fault waits to be serviced
          loSetup
loVars == <<loContext, loLock, loTodo, loFault, loSetup>>

(* uvm_lock_order_t, of the locks that are modelled.                       *)
Orders == [serialize |-> 4, va_space |-> 5, rm_api |-> 7, rm_gpus |-> 8, block |-> 9]
Loose == {"serialize", "va_space", "rm_api", "rm_gpus"}
LoLocks == Loose \union LoBlock
lock_order(l) == IF l \in LoBlock THEN Orders.block ELSE Orders[l]
Modes == {"shared", "exclusive"}
Request(l, mode) == [lock |-> l, mode |-> mode]

NoContext == [ref_count |-> 0, skip |-> 0, acquired |-> {}, exclusive |-> {}, locks |-> {}]
LoInit ==
    /\ loContext = [t \in LoThread |-> NoContext]
    /\ loLock = [l \in LoLocks |-> [holders |-> {}, queue |-> <<>>]]
    /\ loTodo = [t \in LoThread |-> <<>>]
    /\ loFault = FALSE
    /\ loSetup \in LoSetups

(***************************************************************************)
(* Recording                                                               *)
(***************************************************************************)
(* A thread's context lives from its first retain to its last release.     *)
uvm_thread_context_retain(context) == [context EXCEPT !.ref_count = @ + 1]
uvm_thread_context_release(context) ==
    IF context.ref_count = 1 THEN NoContext ELSE [context EXCEPT !.ref_count = @ - 1]

Deeper(context, order) == {o \in context.acquired : o >= order}

(* RM may wait for GPU faults, which are serviced under the VA space lock  *)
(* in read mode: who calls RM must not keep readers out, and must not be a *)
(* reader that a queued writer waits for.                                  *)
RmAllowed(context) ==
    /\ Orders.va_space \notin context.exclusive
    /\ Orders.va_space \in context.acquired => Orders.serialize \in context.acquired

(* What is wrong is reported and recorded all the same; without tracking   *)
(* only the context is retained.                                           *)
Recorded(context, w) ==
    IF context.skip > 0 THEN uvm_thread_context_retain(context)
    ELSE [uvm_thread_context_retain(context) EXCEPT
             !.acquired = @ \union {lock_order(w.lock)},
             !.exclusive = IF w.mode = "exclusive" THEN @ \union {lock_order(w.lock)} ELSE @,
             !.locks = @ \union {w.lock}]

(* Mutant: an equivalent order is not a conflict.                          *)
record_lock_same_order(context, w) ==
    [ok |-> context.skip > 0
            \/ /\ lock_order(w.lock) = Orders.rm_gpus => RmAllowed(context)
               /\ Deeper(context, lock_order(w.lock) + 1) = {},
     context |-> Recorded(context, w)]
__uvm_record_lock(context, w) ==
    [ok |-> context.skip > 0
            \/ /\ lock_order(w.lock) = Orders.rm_gpus => RmAllowed(context)
               /\ Deeper(context, lock_order(w.lock)) = {},
     context |-> Recorded(context, w)]

__uvm_record_unlock(context, w, out_of_order) ==
    LET order == lock_order(w.lock)
    IN  [ok |-> /\ context # NoContext
                /\ \/ context.skip > 0
                   \/ /\ out_of_order \/ Deeper(context, order + 1) = {}
                      /\ w.lock \in context.locks
                      /\ (order \in context.exclusive) = (w.mode = "exclusive"),
         context |->
            uvm_thread_context_release(
                IF context.skip > 0 THEN context
                ELSE [context EXCEPT !.acquired = @ \ {order}, !.exclusive = @ \ {order},
                                     !.locks = {l \in @ : lock_order(l) # order}])]

__uvm_check_locked(context, w) ==
    /\ context # NoContext
    /\ \/ context.skip > 0
       \/ /\ w.lock \in context.locks
          /\ (lock_order(w.lock) \in context.exclusive) = (w.mode = "exclusive")
__uvm_record_downgrade(context, l) ==
    [ok |-> __uvm_check_locked(context, Request(l, "exclusive")),
     context |-> IF context.skip > 0 THEN context ELSE [context EXCEPT !.exclusive = @ \ {lock_order(l)}]]

(***************************************************************************)
(* Locks                                                                   *)
(***************************************************************************)
Holds(t, w) == <<t, w.mode>> \in loLock[w.lock].holders
Has(t, l) == \E mode \in Modes : Holds(t, Request(l, mode))
Queued(t) == {l \in LoLocks : \E i \in DOMAIN loLock[l].queue : loLock[l].queue[i][1] = t}
Mine(t) == {l \in LoLocks : Has(t, l)}
AtRest(t) == loTodo[t] = <<>> /\ Queued(t) = {}

uvm_va_space_down_write == <<Request("serialize", "exclusive"), Request("va_space", "exclusive")>>
uvm_va_space_down_read == <<Request("va_space", "shared")>>
uvm_va_space_down_read_rm == <<Request("serialize", "exclusive"), Request("va_space", "shared")>>
uvm_record_lock_rm_all == <<Request("rm_api", "exclusive"), Request("rm_gpus", "exclusive")>>
uvm_mutex_lock(l) == <<Request(l, "exclusive")>>

(* The bottom half reads the VA space and takes block locks; with tracking *)
(* disabled one lock is taken at a time.                                   *)
Calls(t) ==
    IF t \notin loSetup.threads THEN {}
    ELSE IF loContext[t].skip > 0
         THEN IF Mine(t) = {} THEN {uvm_mutex_lock(l) : l \in loSetup.blocks} ELSE {}
    ELSE IF t = LoBh
         THEN IF ~loFault THEN {}
              ELSE IF Mine(t) = {} THEN {uvm_va_space_down_read} ELSE {uvm_mutex_lock(l) : l \in loSetup.blocks}
    ELSE {uvm_va_space_down_write, uvm_va_space_down_read, uvm_va_space_down_read_rm,
          uvm_record_lock_rm_all} \union {uvm_mutex_lock(l) : l \in loSetup.blocks}

(* Threads make the calls, of one lock or two, the tracking accepts from   *)
(* first to last.                                                          *)
Accepted(context, call) ==
    LET first == __uvm_record_lock(context, call[1])
    IN  first.ok /\ (Len(call) = 2 => __uvm_record_lock(first.context, call[2]).ok)
StartCall(t, call) ==
    /\ AtRest(t) /\ Accepted(loContext[t], call)
    /\ loTodo' = [loTodo EXCEPT ![t] = call]
    /\ UNCHANGED <<loContext, loLock, loFault, loSetup>>

(* A lock is recorded before it is waited for.                             *)
Acquire(t) ==
    /\ loTodo[t] # <<>> /\ Queued(t) = {}
    /\ LET w == Head(loTodo[t])
       IN  /\ \E ok \in IF loSetup.fails /\ loContext[t] = NoContext THEN BOOLEAN ELSE {TRUE} :
                loContext' = IF ok THEN [loContext EXCEPT ![t] = __uvm_record_lock(@, w).context] ELSE loContext
           /\ loLock' = [loLock EXCEPT ![w.lock].queue = Append(@, <<t, w.mode>>)]
    /\ loTodo' = [loTodo EXCEPT ![t] = Tail(@)]
    /\ UNCHANGED <<loFault, loSetup>>

(* Locks are fair: readers wait behind a writer that waits.                *)
Compatible(holders, mode) == holders = {} \/ (mode = "shared" /\ \A h \in holders : h[2] = "shared")
Grant(l) ==
    /\ loLock[l].queue # <<>> /\ Compatible(loLock[l].holders, Head(loLock[l].queue)[2])
    /\ loLock' = [loLock EXCEPT ![l] = [holders |-> @.holders \union {Head(@.queue)}, queue |-> Tail(@.queue)]]
    /\ UNCHANGED <<loContext, loTodo, loFault, loSetup>>

(* What a thread that holds w deepest of all may do with it: the unlocks,  *)
(* in order, and whether the VA space lock is downgraded first.            *)
Release(unlocks, downgrade, out_of_order) ==
    [unlocks |-> unlocks, downgrade |-> downgrade, out_of_order |-> out_of_order]
uvm_va_space_up_write == Release(Reverse(uvm_va_space_down_write), FALSE, FALSE)
uvm_va_space_downgrade_write == Release(uvm_mutex_lock("serialize"), TRUE, TRUE)
uvm_va_space_downgrade_write_rm == Release(<<>>, TRUE, FALSE)
uvm_va_space_up_read == Release(uvm_va_space_down_read, FALSE, FALSE)
uvm_va_space_up_read_rm == Release(Reverse(uvm_va_space_down_read_rm), FALSE, FALSE)
uvm_record_unlock_rm_all == Release(Reverse(uvm_record_lock_rm_all), FALSE, FALSE)
uvm_mutex_unlock(l) == Release(uvm_mutex_lock(l), FALSE, FALSE)

Deepest(t) == CHOOSE l \in Mine(t) : \A k \in Mine(t) : lock_order(k) <= lock_order(l)
Releases(t) ==
    IF Mine(t) = {} THEN {}
    ELSE LET l == Deepest(t)
         IN  IF l \in LoBlock THEN {uvm_mutex_unlock(l)}
             ELSE IF l = "rm_gpus" THEN {uvm_record_unlock_rm_all}
             ELSE IF Holds(t, Request(l, "exclusive"))
                  THEN {uvm_va_space_up_write, uvm_va_space_downgrade_write, uvm_va_space_downgrade_write_rm}
             ELSE IF Has(t, "serialize") THEN {uvm_va_space_up_read_rm} ELSE {uvm_va_space_up_read}

(* The context after a release, and whether the tracking accepted it.      *)
Downgraded(context) == __uvm_record_downgrade(context, "va_space")
Unlocked(v, w, out_of_order) ==
    LET u == __uvm_record_unlock(v.context, w, out_of_order)
    IN  [ok |-> v.ok /\ u.ok, context |-> u.context]
AfterRelease(t, r) ==
    LET first == IF r.downgrade THEN Downgraded(loContext[t]) ELSE [ok |-> TRUE, context |-> loContext[t]]
    IN  IF Len(r.unlocks) = 0 THEN first
        ELSE IF Len(r.unlocks) = 1 THEN Unlocked(first, r.unlocks[1], r.out_of_order)
        ELSE Unlocked(Unlocked(first, r.unlocks[1], r.out_of_order), r.unlocks[2], r.out_of_order)

Unlock(t, r) ==
    /\ AtRest(t)
    /\ loContext' = [loContext EXCEPT ![t] = AfterRelease(t, r).context]
    /\ loLock' = [l \in LoLocks |-> [loLock[l] EXCEPT !.holders =
           IF \E i \in DOMAIN r.unlocks : r.unlocks[i].lock = l THEN {h \in @ : h[1] # t}
           ELSE IF r.downgrade /\ l = "va_space" THEN {<<t, "shared">>} ELSE @]]
    /\ loFault' = (loFault /\ (t # LoBh \/ r # uvm_va_space_up_read))
    /\ UNCHANGED <<loTodo, loSetup>>

(* Tests take locks in ways the tracking would not accept.                 *)
SkipMore(context) == [uvm_thread_context_retain(context) EXCEPT !.skip = @ + 1]
SkipLess(context) == uvm_thread_context_release([context EXCEPT !.skip = @ - 1])
uvm_thread_context_disable_lock_tracking(t) ==
    /\ loSetup.skips /\ t \in loSetup.threads \ {LoBh} /\ AtRest(t) /\ Mine(t) = {} /\ loContext[t].skip = 0
    /\ loContext' = [loContext EXCEPT ![t] = SkipMore(@)]
    /\ UNCHANGED <<loLock, loTodo, loFault, loSetup>>
uvm_thread_context_enable_lock_tracking(t) ==
    /\ loContext[t].skip > 0 /\ AtRest(t) /\ Mine(t) = {}
    /\ loContext' = [loContext EXCEPT ![t] = SkipLess(@)]
    /\ UNCHANGED <<loLock, loTodo, loFault, loSetup>>

(***************************************************************************)
(* RM and the GPU                                                          *)
(***************************************************************************)
RmLock ==
    /\ Queued(LoRm) = {} /\ Mine(LoRm) = {}
    /\ loLock' = [loLock EXCEPT !["rm_gpus"].queue = Append(@, <<LoRm, "exclusive">>)]
    /\ UNCHANGED <<loContext, loTodo, loFault, loSetup>>
(* RM's thread goes on when no GPU fault blocks it.                        *)
RmUnlock ==
    /\ Mine(LoRm) # {} /\ ~loFault
    /\ loLock' = [loLock EXCEPT !["rm_gpus"].holders = {}]
    /\ UNCHANGED <<loContext, loTodo, loFault, loSetup>>
Fault ==
    /\ LoBh \in loSetup.threads /\ ~loFault /\ loFault' = TRUE
    /\ UNCHANGED <<loContext, loLock, loTodo, loSetup>>

LoNext ==
    \/ \E t \in LoThread :
          \/ \E call \in Calls(t) : StartCall(t, call)
          \/ Acquire(t)
          \/ \E r \in Releases(t) : Unlock(t, r)
          \/ uvm_thread_context_disable_lock_tracking(t) \/ uvm_thread_context_enable_lock_tracking(t)
    \/ \E l \in LoLocks : Grant(l)
    \/ RmLock \/ RmUnlock \/ Fault

LoSpec == LoInit /\ [][LoNext]_loVars

(***************************************************************************)
(* Properties                                                              *)
(***************************************************************************)
(* t cannot go on before u does.                                           *)
WaitsFor(t, u) ==
    \/ \E l \in Queued(t) :
         LET at == CHOOSE i \in DOMAIN loLock[l].queue : loLock[l].queue[i][1] = t
         IN  \/ Has(u, l) /\ ~Compatible(loLock[l].holders, loLock[l].queue[at][2])
             \/ \E i \in 1 .. at - 1 : loLock[l].queue[i][1] = u
    \/ t = LoRm /\ u = LoBh /\ loFault /\ Mine(LoRm) # {}

(* Threads whose every call the tracking accepts never wait for each other *)
(* in a circle, RM's threads and the bottom half among them.               *)
Waiting == {t \in LoThread \union {LoRm} : \E u \in LoThread \union {LoRm} : WaitsFor(t, u)}
NoDeadlock == \A S \in SUBSET Waiting : S # {} => \E t \in S : \A u \in S : ~WaitsFor(t, u)

(* A context knows the locks its thread has or waits for, and lives as     *)
(* long as there are any.                                                  *)
ContextsExact ==
    \A t \in LoThread : LET context == loContext[t] IN
        /\ context.ref_count = Cardinality(Mine(t) \union Queued(t)) + context.skip
        /\ (context = NoContext) = (context.ref_count = 0)
        /\ context.skip = 0 =>
             /\ context.locks = Mine(t) \union Queued(t)
             /\ context.acquired = {lock_order(l) : l \in context.locks}
             /\ \A l \in Mine(t) : (lock_order(l) \in context.exclusive) = Holds(t, Request(l, "exclusive"))

(* The tracking rejects no release, or downgrade, of what is deepest.      *)
NestingAccepted ==
    \A t \in LoThread : \A r \in Releases(t) : AtRest(t) => AfterRelease(t, r).ok

LocksExact == NoDeadlock /\ ContextsExact /\ NestingAccepted
==============================================================================
