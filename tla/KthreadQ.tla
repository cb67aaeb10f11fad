------------------------------ MODULE KthreadQ ------------------------------
(***************************************************************************)
(* The deferred-work queue of nv-kthread-q.c: one FIFO list, one counting  *)
(* semaphore and one kernel thread that runs the queued items.  UVM uses   *)
(* one instance per GPU for the fault bottom half, one global instance for *)
(* accessed-by mappings and one for tools events.                          *)
(*                                                                         *)
(* Callers are threads; each may schedule an item, flush the queue or stop *)
(* it.  The item a flush puts on its own stack is named by the thread that *)
(* flushes.  A callback belongs to the client: it looks at the client's    *)
(* stop_rescheduling flag and, if the flag is clear, may schedule one item *)
(* (itself or another one) before it returns.  The client obeys the rules  *)
(* written in nv-kthread-q.h: it raises the flag before it stops the queue *)
(* and schedules and flushes nothing from then on.                         *)
(***************************************************************************)
EXTENDS Naturals, Sequences, FiniteSets

CONSTANTS Items,    \* the client's q_items
          Callers,  \* callers of the API
          Kthread   \* the queue's own kernel thread

ASSUME KthreadQAssumption ==
    /\ IsFiniteSet(Items) /\ IsFiniteSet(Callers)
    /\ Items \cap Callers = {}
    /\ Kthread \notin Items \cup Callers

Actors == Callers \cup {Kthread}
QItems == Items \cup Callers

VARIABLES
    q_list,                 \* q_list_head: the queued items, first to run first
    q_sem,                  \* the counting semaphore the kthread sleeps on
    main_loop_should_exit,
    q_pc,                   \* where each actor is
    arg,                    \* the q_item an actor is scheduling
    running,                \* the q_item the kthread runs (the last one it ran)
    rounds,                 \* raw flushes a thread has still to wait for
    completed,              \* the completion on a flushing thread's stack
    stopping,               \* threads whose flush is the first half of a stop
    stop_rescheduling,      \* the client's flag
    owed                    \* history: what each flush has promised to wait for

q_vars == <<q_list, q_sem, main_loop_should_exit, q_pc, arg, running, rounds,
          completed, stopping, stop_rescheduling, owed>>

CallerPCs == {"idle", "add", "up", "wait", "set_exit", "stop_up", "join", "stopped"}
KthreadPCs == {"down", "check", "pop", "run", "add", "up", "exited"}

IsPending(i) == \E n \in 1 .. Len(q_list) : q_list[n] = i

\* No stop has begun; the API rules forbid every other call once one has.
NotStopping == stopping = {}
-----------------------------------------------------------------------------
(***************************************************************************)
(* nv_kthread_q_init zeroes the structure and starts _main_loop.           *)
(***************************************************************************)
FreshPC == [a \in Actors |-> IF a = Kthread THEN "down" ELSE "idle"]
NothingOwed == [current |-> {}, first |-> {}, second |-> {}]

nv_kthread_q_init ==
    /\ q_list = <<>>
    /\ q_sem = 0
    /\ main_loop_should_exit = FALSE
    /\ q_pc = FreshPC
    /\ arg = [a \in Actors |-> a]
    /\ running = Kthread
    /\ rounds = [t \in Callers |-> 0]
    /\ completed = [t \in Callers |-> FALSE]
    /\ stopping = {}
    /\ stop_rescheduling = FALSE
    /\ owed = [t \in Callers |-> NothingOwed]

\* A stopped queue may be initialised again.
Reinit ==
    /\ \E t \in Callers : q_pc[t] = "stopped"
    /\ q_list' = <<>>
    /\ q_sem' = 0
    /\ main_loop_should_exit' = FALSE
    /\ q_pc' = FreshPC
    /\ arg' = [a \in Actors |-> a]
    /\ running' = Kthread
    /\ rounds' = [t \in Callers |-> 0]
    /\ completed' = [t \in Callers |-> FALSE]
    /\ stopping' = {}
    /\ stop_rescheduling' = FALSE
    /\ owed' = [t \in Callers |-> NothingOwed]
-----------------------------------------------------------------------------
(***************************************************************************)
(* nv_kthread_q_schedule_q_item: the check of main_loop_should_exit, the   *)
(* insertion under q_lock and the up() after the unlock are three steps.   *)
(***************************************************************************)
nv_kthread_q_schedule_q_item(t, i) ==
    /\ q_pc[t] = "idle"
    /\ NotStopping
    /\ ~main_loop_should_exit
    /\ q_pc' = [q_pc EXCEPT ![t] = "add"]
    /\ arg' = [arg EXCEPT ![t] = i]
    /\ UNCHANGED <<q_list, q_sem, main_loop_should_exit, running, rounds,
                   completed, stopping, stop_rescheduling, owed>>

\* Where an actor goes when _raw_q_schedule returns.
AfterSchedule(a) ==
    IF a = Kthread THEN "down" ELSE IF arg[a] = a THEN "wait" ELSE "idle"

\* A callback's insertion is owed, one generation on, to every flush the
\* callback itself is owed to.
OweInserted(a, i) ==
    owed' = [t \in Callers |->
                IF /\ a = Kthread /\ i \in Items
                   /\ running \in owed[t].current \cup owed[t].first
                THEN [owed[t] EXCEPT !.second = @ \cup {i}]
                ELSE owed[t]]

\* What the flushes are owed once the kthread has finished an item: one run
\* settles one debt.
SettleRun(i) ==
    [t \in Callers |->
        CASE i \in owed[t].current -> [owed[t] EXCEPT !.current = {}]
          [] i \in owed[t].first \ owed[t].current ->
                 [owed[t] EXCEPT !.first = @ \ {i}]
          [] OTHER -> [owed[t] EXCEPT !.second = @ \ {i}]]

\* Mutant: list_add in place of list_add_tail.
InsertAtHead(a) ==
    /\ q_pc[a] = "add"
    /\ ~IsPending(arg[a])
    /\ q_list' = <<arg[a]>> \o q_list
    /\ q_pc' = [q_pc EXCEPT ![a] = "up"]
    /\ OweInserted(a, arg[a])
    /\ UNCHANGED <<q_sem, main_loop_should_exit, arg, running, rounds,
                   completed, stopping, stop_rescheduling>>

\* The insertion of _raw_q_schedule, under q_lock.
_raw_q_schedule_insert(a) ==
    /\ q_pc[a] = "add"
    /\ ~IsPending(arg[a])
    /\ q_list' = Append(q_list, arg[a])
    /\ q_pc' = [q_pc EXCEPT ![a] = "up"]
    /\ OweInserted(a, arg[a])
    /\ UNCHANGED <<q_sem, main_loop_should_exit, arg, running, rounds,
                   completed, stopping, stop_rescheduling>>

\* Mutant: up() whether or not the item was inserted.
UpForPending(a) ==
    /\ q_pc[a] = "add"
    /\ IsPending(arg[a])
    /\ q_pc' = [q_pc EXCEPT ![a] = "up"]
    /\ UNCHANGED <<q_list, q_sem, main_loop_should_exit, arg, running, rounds,
                   completed, stopping, stop_rescheduling, owed>>

\* The item is pending already: nothing is inserted, no up().
_raw_q_schedule_pending(a) ==
    /\ q_pc[a] = "add"
    /\ IsPending(arg[a])
    /\ q_pc' = [q_pc EXCEPT ![a] = AfterSchedule(a)]
    /\ owed' = IF a = Kthread THEN SettleRun(running) ELSE owed
    /\ UNCHANGED <<q_list, q_sem, main_loop_should_exit, arg, running, rounds,
                   completed, stopping, stop_rescheduling>>

\* The up() of _raw_q_schedule, after the unlock.
_raw_q_schedule_up(a) ==
    /\ q_pc[a] = "up"
    /\ q_sem' = q_sem + 1
    /\ q_pc' = [q_pc EXCEPT ![a] = AfterSchedule(a)]
    /\ owed' = IF a = Kthread THEN SettleRun(running) ELSE owed
    /\ UNCHANGED <<q_list, main_loop_should_exit, arg, running, rounds,
                   completed, stopping, stop_rescheduling>>
-----------------------------------------------------------------------------
(***************************************************************************)
(* nv_kthread_q_flush: two raw flushes, each of which schedules an item on *)
(* the caller's stack and waits until that item has run.                   *)
(***************************************************************************)
\* Mutant: a single raw flush.
OneFlush == 1

FlushRounds == 2

\* What a flush that begins now has to wait for: the item that is running
\* and the ones that are queued (an item may be both).
OwedNow ==
    [current |-> {i \in Items : running = i /\ q_pc[Kthread] \in {"run", "add", "up"}},
     first   |-> {i \in Items : IsPending(i)},
     second  |-> {}]

StartFlush(t) ==
    /\ q_pc[t] = "idle"
    /\ NotStopping
    /\ ~main_loop_should_exit
    /\ q_pc' = [q_pc EXCEPT ![t] = "add"]
    /\ arg' = [arg EXCEPT ![t] = t]
    /\ rounds' = [rounds EXCEPT ![t] = FlushRounds]
    /\ owed' = [owed EXCEPT ![t] = OwedNow]
    /\ UNCHANGED <<q_list, q_sem, main_loop_should_exit, running, completed,
                   stop_rescheduling>>

nv_kthread_q_flush(t) ==
    /\ StartFlush(t)
    /\ UNCHANGED stopping

\* wait_for_completion returns: the next raw flush, or the flush is over.
wait_for_completion(t) ==
    /\ q_pc[t] = "wait"
    /\ completed[t]
    /\ completed' = [completed EXCEPT ![t] = FALSE]
    /\ rounds' = [rounds EXCEPT ![t] = @ - 1]
    /\ q_pc' = [q_pc EXCEPT ![t] = IF rounds[t] > 1 THEN "add"
                               ELSE IF t \in stopping THEN "set_exit" ELSE "idle"]
    /\ UNCHANGED <<q_list, q_sem, main_loop_should_exit, arg, running,
                   stopping, stop_rescheduling, owed>>
-----------------------------------------------------------------------------
(***************************************************************************)
(* nv_kthread_q_stop: flush, raise main_loop_should_exit, wake the kthread *)
(* and wait for it to leave.                                               *)
(***************************************************************************)
\* Mutant: a stop that does not flush.
StopWithoutFlush(t) ==
    /\ stop_rescheduling
    /\ \A u \in Callers : q_pc[u] = "idle"
    /\ NotStopping
    /\ stopping' = {t}
    /\ q_pc' = [q_pc EXCEPT ![t] = "set_exit"]
    /\ UNCHANGED <<q_list, q_sem, main_loop_should_exit, arg, running, rounds,
                   completed, stop_rescheduling, owed>>

nv_kthread_q_stop(t) ==
    /\ stop_rescheduling
    /\ \A u \in Callers : q_pc[u] = "idle"
    /\ StartFlush(t)
    /\ stopping' = {t}

StopSetExit(t) ==
    /\ q_pc[t] = "set_exit"
    /\ main_loop_should_exit' = TRUE
    /\ q_pc' = [q_pc EXCEPT ![t] = "stop_up"]
    /\ UNCHANGED <<q_list, q_sem, arg, running, rounds, completed, stopping,
                   stop_rescheduling, owed>>

StopWake(t) ==
    /\ q_pc[t] = "stop_up"
    /\ q_sem' = q_sem + 1
    /\ q_pc' = [q_pc EXCEPT ![t] = "join"]
    /\ UNCHANGED <<q_list, main_loop_should_exit, arg, running, rounds,
                   completed, stopping, stop_rescheduling, owed>>

\* kthread_stop returns once _main_loop has returned.
StopJoin(t) ==
    /\ q_pc[t] = "join"
    /\ q_pc[Kthread] = "exited"
    /\ q_pc' = [q_pc EXCEPT ![t] = "stopped"]
    /\ UNCHANGED <<q_list, q_sem, main_loop_should_exit, arg, running, rounds,
                   completed, stopping, stop_rescheduling, owed>>

\* The client tells its callbacks to stop rescheduling.
SetStopRescheduling ==
    /\ NotStopping
    /\ ~stop_rescheduling
    /\ stop_rescheduling' = TRUE
    /\ UNCHANGED <<q_list, q_sem, main_loop_should_exit, q_pc, arg, running,
                   rounds, completed, stopping, owed>>
-----------------------------------------------------------------------------
(***************************************************************************)
(* _main_loop, step by step.                                               *)
(***************************************************************************)
KGoto(l) == q_pc' = [q_pc EXCEPT ![Kthread] = l]

MainLoopDown ==
    /\ q_pc[Kthread] = "down"
    /\ q_sem > 0
    /\ q_sem' = q_sem - 1
    /\ KGoto("check")
    /\ UNCHANGED <<q_list, main_loop_should_exit, arg, running, rounds,
                   completed, stopping, stop_rescheduling, owed>>

MainLoopCheck ==
    /\ q_pc[Kthread] = "check"
    /\ KGoto(IF main_loop_should_exit THEN "exited" ELSE "pop")
    /\ UNCHANGED <<q_list, q_sem, main_loop_should_exit, arg, running, rounds,
                   completed, stopping, stop_rescheduling, owed>>

\* Take the first item; an empty list is warned about and skipped.
MainLoopPop ==
    /\ q_pc[Kthread] = "pop"
    /\ IF q_list = <<>>
       THEN KGoto("down") /\ UNCHANGED <<running, q_list>>
       ELSE /\ running' = Head(q_list)
            /\ q_list' = Tail(q_list)
            /\ KGoto("run")
    /\ UNCHANGED <<q_sem, main_loop_should_exit, arg, rounds, completed,
                   stopping, stop_rescheduling, owed>>

\* _q_flush_function: complete() the flushing thread's completion.
_q_flush_function ==
    /\ q_pc[Kthread] = "run"
    /\ running \in Callers
    /\ completed' = [completed EXCEPT ![running] = TRUE]
    /\ KGoto("down")
    /\ UNCHANGED <<q_list, q_sem, main_loop_should_exit, arg, running, rounds,
                   stopping, stop_rescheduling, owed>>

\* A client callback that returns without scheduling anything.
CallbackReturns ==
    /\ q_pc[Kthread] = "run"
    /\ running \in Items
    /\ KGoto("down")
    /\ owed' = SettleRun(running)
    /\ UNCHANGED <<q_list, q_sem, main_loop_should_exit, arg, running, rounds,
                   completed, stopping, stop_rescheduling>>

\* A client callback that saw stop_rescheduling clear and schedules an item.
CallbackReschedules(i) ==
    /\ q_pc[Kthread] = "run"
    /\ running \in Items
    /\ ~stop_rescheduling
    /\ ~main_loop_should_exit
    /\ KGoto("add")
    /\ arg' = [arg EXCEPT ![Kthread] = i]
    /\ UNCHANGED <<q_list, q_sem, main_loop_should_exit, running, rounds,
                   completed, stopping, stop_rescheduling, owed>>
-----------------------------------------------------------------------------
ScheduleStep(a) ==
    \/ _raw_q_schedule_insert(a)
    \/ _raw_q_schedule_pending(a)
    \/ _raw_q_schedule_up(a)

CallerStep(t) ==
    \/ ScheduleStep(t)
    \/ wait_for_completion(t)
    \/ StopSetExit(t)
    \/ StopWake(t)
    \/ StopJoin(t)

KthreadStep ==
    \/ MainLoopDown
    \/ MainLoopCheck
    \/ MainLoopPop
    \/ _q_flush_function
    \/ CallbackReturns
    \/ \E i \in Items : CallbackReschedules(i)
    \/ ScheduleStep(Kthread)

QueueCall(t) ==
    \/ \E i \in Items : nv_kthread_q_schedule_q_item(t, i)
    \/ nv_kthread_q_flush(t)
    \/ nv_kthread_q_stop(t)

QueueInit == nv_kthread_q_init

QueueNext ==
    \/ KthreadStep
    \/ \E t \in Callers : CallerStep(t) \/ QueueCall(t)
    \/ SetStopRescheduling
    \/ Reinit

(***************************************************************************)
(* The kernel schedules the queue's thread and every thread that is inside *)
(* a call; nothing obliges a client to make a call.                        *)
(***************************************************************************)
QueueFairness ==
    /\ WF_q_vars(KthreadStep)
    /\ \A t \in Callers : WF_q_vars(CallerStep(t))

QueueSpec == QueueInit /\ [][QueueNext]_q_vars

FairQueueSpec == QueueSpec /\ QueueFairness
-----------------------------------------------------------------------------
Owed == [current : SUBSET Items, first : SUBSET Items, second : SUBSET Items]

QueueTypeOK ==
    /\ q_list \in Seq(QItems)
    /\ q_sem \in Nat
    /\ main_loop_should_exit \in BOOLEAN
    /\ q_pc \in [Actors -> CallerPCs \cup KthreadPCs]
    /\ q_pc[Kthread] \in KthreadPCs
    /\ \A t \in Callers : q_pc[t] \in CallerPCs
    /\ arg \in [Actors -> QItems \cup {Kthread}]
    /\ \A a \in Actors : q_pc[a] \in {"add", "up"} => arg[a] \in QItems
    /\ running \in QItems \cup {Kthread}
    /\ (q_pc[Kthread] \in {"run", "add", "up"}) => running \in QItems
    /\ rounds \in [Callers -> 0 .. FlushRounds]
    /\ completed \in [Callers -> BOOLEAN]
    /\ stopping \in SUBSET Callers
    /\ stop_rescheduling \in BOOLEAN
    /\ owed \in [Callers -> Owed]

Ups == {a \in Actors : q_pc[a] = "up"}
Awake == IF q_pc[Kthread] \in {"check", "pop"} THEN 1 ELSE 0

(***************************************************************************)
(* The semaphore counts the queued items, exactly: as long as no exit is   *)
(* requested, every item in the list is matched by one unit of q_sem, by   *)
(* one caller about to up() it or by the wake-up the kthread has consumed  *)
(* ("incremented and decremented exactly once for each item",              *)
(* nv-kthread-q.h).  A lost unit strands an item, an extra one makes the   *)
(* kthread take an item from an empty list.                                *)
(***************************************************************************)
SemaphoreCountsItems ==
    ~main_loop_should_exit => q_sem + Cardinality(Ups) + Awake = Len(q_list)

(***************************************************************************)
(* nv_kthread_q_flush returns only after every item that was queued when   *)
(* it was called, and every item those items scheduled, has run: this is   *)
(* what the second raw flush is for.                                       *)
(***************************************************************************)
FlushWaitsForItems ==
    \A t \in Callers :
        q_pc[t] = "wait" /\ completed[t] /\ rounds[t] = 1
            => owed[t] = NothingOwed

(***************************************************************************)
(* When a stop raises main_loop_should_exit the queue is drained and no    *)
(* callback is running, so no q_item is left on a list or in use once      *)
(* nv_kthread_q_stop returns (the "list not empty after flushing" warning  *)
(* is never printed for a client that obeys the rules).                    *)
(***************************************************************************)
StopDrains ==
    main_loop_should_exit =>
        q_list = <<>> /\ q_pc[Kthread] \in {"down", "check", "exited"}

(***************************************************************************)
(* Every scheduled item eventually runs, whatever other callers and        *)
(* self-rescheduling callbacks do.                                         *)
(***************************************************************************)
ScheduledItemRuns ==
    \A i \in Items : IsPending(i) ~> (running = i /\ q_pc[Kthread] = "run")

(***************************************************************************)
(* A flush and a stop return, even when callbacks keep rescheduling.       *)
(***************************************************************************)
FlushReturns ==
    \A t \in Callers : rounds[t] > 0 ~> q_pc[t] \in {"idle", "stopped"}

(***************************************************************************)
(* Whatever was asked of the queue is done: items run, calls return.       *)
(***************************************************************************)
WorkCompletes == ScheduledItemRuns /\ FlushReturns
=============================================================================
