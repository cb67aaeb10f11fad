--------------------------- MODULE KthreadQ_proofs ---------------------------
(***************************************************************************)
(* The work queue for any finite sets of items and of calling threads: its *)
(* counting semaphore is exact, a flush waits for everything it has        *)
(* promised to wait for, and a stop leaves the list empty.                 *)
(***************************************************************************)
EXTENDS KthreadQ, FiniteSetTheorems, TLAPS

\* A thread inside a flush has a raw flush left to wait for, and the stop
\* sequence is past its exit request exactly when the request is made.
FlushShape ==
    /\ \A t \in Callers : q_pc[t] = "wait" => arg[t] = t
    /\ \A t \in Callers :
          q_pc[t] = "wait" \/ (q_pc[t] \in {"add", "up"} /\ arg[t] = t) => rounds[t] > 0
    /\ \A t \in Callers :
          q_pc[t] \in {"stop_up", "join", "stopped"} => main_loop_should_exit

IInv == QueueTypeOK /\ FlushShape /\ SemaphoreCountsItems

\* The set of actors about to up() the semaphore is finite.
LEMMA UpsFinite == IsFiniteSet(Ups) /\ Cardinality(Ups) \in Nat
<1>1. IsFiniteSet(Actors)
  BY KthreadQAssumption, FS_AddElement DEF Actors
<1>2. QED
  BY <1>1, FS_Subset, FS_CardinalityType DEF Ups

\* What one actor's move does to the number of actors about to up().
LEMMA UpsMove ==
  ASSUME QueueTypeOK, NEW a \in Actors, NEW l, q_pc' = [q_pc EXCEPT ![a] = l]
  PROVE  Cardinality(Ups') = Cardinality(Ups)
                             - (IF q_pc[a] = "up" THEN 1 ELSE 0)
                             + (IF l = "up" THEN 1 ELSE 0)
<1>0. q_pc'[a] = l /\ \A b \in Actors \ {a} : q_pc'[b] = q_pc[b]
  BY DEF QueueTypeOK
<1>1. CASE q_pc[a] = "up" /\ l = "up"
  <2>1. Ups' = Ups BY <1>0, <1>1 DEF Ups
  <2>2. QED BY <1>1, <2>1, UpsFinite
<1>2. CASE q_pc[a] = "up" /\ l # "up"
  <2>1. Ups' = Ups \ {a} BY <1>0, <1>2 DEF Ups
  <2>2. a \in Ups BY <1>2 DEF Ups
  <2>3. Cardinality(Ups \ {a}) = Cardinality(Ups) - 1
    BY <2>2, UpsFinite, FS_RemoveElement
  <2>4. QED BY <1>2, <2>1, <2>3, UpsFinite
<1>3. CASE q_pc[a] # "up" /\ l = "up"
  <2>1. Ups' = Ups \cup {a} BY <1>0, <1>3 DEF Ups
  <2>2. a \notin Ups BY <1>3 DEF Ups
  <2>3. Cardinality(Ups \cup {a}) = Cardinality(Ups) + 1
    BY <2>2, UpsFinite, FS_AddElement
  <2>4. QED BY <1>3, <2>1, <2>3, UpsFinite
<1>4. CASE q_pc[a] # "up" /\ l # "up"
  <2>1. Ups' = Ups BY <1>0, <1>4 DEF Ups
  <2>2. QED BY <1>4, <2>1, UpsFinite
<1>5. QED BY <1>1, <1>2, <1>3, <1>4

\* A move between labels other than "up" leaves that number alone.
LEMMA UpsSame ==
  ASSUME QueueTypeOK, NEW a \in Actors, NEW l, q_pc' = [q_pc EXCEPT ![a] = l],
         q_pc[a] # "up", l # "up"
  PROVE  Cardinality(Ups') = Cardinality(Ups)
<1>1. Cardinality(Ups') = Cardinality(Ups) - 0 + 0 BY UpsMove
<1>2. QED BY <1>1, UpsFinite

\* An actor that inserted an item joins the ones about to up().
LEMMA UpsEnter ==
  ASSUME QueueTypeOK, NEW a \in Actors, q_pc' = [q_pc EXCEPT ![a] = "up"], q_pc[a] # "up"
  PROVE  Cardinality(Ups') = Cardinality(Ups) + 1
<1>1. Cardinality(Ups') = Cardinality(Ups) - 0 + 1 BY UpsMove
<1>2. QED BY <1>1, UpsFinite

\* An actor that does its up() leaves them.
LEMMA UpsLeave ==
  ASSUME QueueTypeOK, NEW a \in Actors, NEW l, q_pc' = [q_pc EXCEPT ![a] = l],
         q_pc[a] = "up", l # "up"
  PROVE  Cardinality(Ups') = Cardinality(Ups) - 1
<1>1. Cardinality(Ups') = Cardinality(Ups) - 1 + 0 BY UpsMove
<1>2. QED BY <1>1, UpsFinite

\* The history of what flushes are owed stays typed.
LEMMA OwedTyped ==
  ASSUME QueueTypeOK, NEW i
  PROVE  /\ SettleRun(i) \in [Callers -> Owed]
         /\ OwedNow \in Owed
         /\ \A a : OweInserted(a, i) => owed' \in [Callers -> Owed]
<1>1. ASSUME NEW o \in Owed, NEW S \in SUBSET Items
      PROVE  /\ [o EXCEPT !.current = S] \in Owed
             /\ [o EXCEPT !.first = S] \in Owed
             /\ [o EXCEPT !.second = S] \in Owed
  BY DEF Owed
<1>2. \A t \in Callers : owed[t] \in Owed
  BY DEF QueueTypeOK
<1>3. \A t \in Callers : owed[t].first \in SUBSET Items /\ owed[t].second \in SUBSET Items
  BY <1>2 DEF Owed
<1>4. \A t \in Callers : SettleRun(i)[t] \in Owed
  <2> SUFFICES ASSUME NEW t \in Callers
               PROVE  SettleRun(i)[t] \in Owed
    OBVIOUS
  <2> DEFINE f == owed[t].first \ {i}
             g == owed[t].second \ {i}
  <2>1. f \in SUBSET Items /\ g \in SUBSET Items BY <1>3
  <2>2. \/ SettleRun(i)[t] = [owed[t] EXCEPT !.current = {}]
        \/ SettleRun(i)[t] = [owed[t] EXCEPT !.first = f]
        \/ SettleRun(i)[t] = [owed[t] EXCEPT !.second = g]
    BY DEF SettleRun
  <2> HIDE DEF f, g
  <2>3. {} \in SUBSET Items OBVIOUS
  <2>4. owed[t] \in Owed
    BY <1>2
  <2>5. /\ [owed[t] EXCEPT !.current = {}] \in Owed
        /\ [owed[t] EXCEPT !.first = f] \in Owed
        /\ [owed[t] EXCEPT !.second = g] \in Owed
    BY <1>1, <2>1, <2>3, <2>4, Zenon
  <2>6. QED BY <2>2, <2>5
<1>5. SettleRun(i) \in [Callers -> Owed]
  BY <1>4 DEF SettleRun
<1>6. OwedNow \in Owed
  BY DEF OwedNow, Owed
<1>7. ASSUME NEW a, OweInserted(a, i)
      PROVE  owed' \in [Callers -> Owed]
  <2>1. ASSUME NEW t \in Callers
        PROVE  owed'[t] \in Owed
    <3> DEFINE g == owed[t].second \cup {i}
    <3>1. owed'[t] = owed[t] \/ (owed'[t] = [owed[t] EXCEPT !.second = g] /\ i \in Items)
      BY <1>7 DEF OweInserted
    <3>2. CASE i \in Items
      <4>1. g \in SUBSET Items BY <1>3, <3>2
      <4> HIDE DEF g
      <4>2. owed[t] \in Owed
        BY <1>2
      <4>3. [owed[t] EXCEPT !.second = g] \in Owed
        BY <1>1, <4>1, <4>2, Zenon
      <4>4. QED BY <3>1, <4>2, <4>3
    <3>3. QED BY <1>2, <3>1, <3>2
  <2>2. QED BY <1>7, <2>1 DEF OweInserted
<1>8. QED BY <1>5, <1>6, <1>7

\* The type invariant with the shape of a flush is inductive.
LEMMA TypeStep == QueueTypeOK /\ FlushShape /\ [QueueNext]_q_vars => QueueTypeOK' /\ FlushShape'
<1> SUFFICES ASSUME QueueTypeOK, FlushShape, [QueueNext]_q_vars
             PROVE  QueueTypeOK' /\ FlushShape'
  OBVIOUS
<1> USE KthreadQAssumption
    DEF QueueTypeOK, FlushShape, Actors, QItems, CallerPCs, KthreadPCs, FlushRounds
<1>1. ASSUME NEW a \in Actors, _raw_q_schedule_insert(a)
      PROVE  QueueTypeOK' /\ FlushShape'
  <2>1. owed' \in [Callers -> Owed]
    BY <1>1, OwedTyped DEF _raw_q_schedule_insert
  <2>2. q_list' \in Seq(QItems)
    BY <1>1 DEF _raw_q_schedule_insert
  <2>3. QED BY <1>1, <2>1, <2>2 DEF _raw_q_schedule_insert
<1>2. ASSUME NEW a \in Actors, _raw_q_schedule_pending(a)
      PROVE  QueueTypeOK' /\ FlushShape'
  <2>1. owed' \in [Callers -> Owed]
    BY <1>2, OwedTyped DEF _raw_q_schedule_pending
  <2>2. QED BY <1>2, <2>1 DEF _raw_q_schedule_pending, AfterSchedule
<1>3. ASSUME NEW a \in Actors, _raw_q_schedule_up(a)
      PROVE  QueueTypeOK' /\ FlushShape'
  <2>1. owed' \in [Callers -> Owed]
    BY <1>3, OwedTyped DEF _raw_q_schedule_up
  <2>2. QED BY <1>3, <2>1 DEF _raw_q_schedule_up, AfterSchedule
<1>4. ASSUME NEW t \in Callers, wait_for_completion(t)
      PROVE  QueueTypeOK' /\ FlushShape'
  <2>1. rounds[t] \in 1 .. 2 /\ rounds'[t] = rounds[t] - 1
    BY <1>4 DEF wait_for_completion
  <2>2. rounds' \in [Callers -> 0 .. 2]
    BY <1>4, <2>1 DEF wait_for_completion
  <2>3. \E l \in {"add", "set_exit", "idle"} :
            q_pc' = [q_pc EXCEPT ![t] = l] /\ (l = "add" => arg[t] \in QItems)
    <3>1. arg[t] \in QItems
      BY <1>4 DEF wait_for_completion
    <3>2. QED BY <1>4, <3>1 DEF wait_for_completion
  <2>4. QueueTypeOK'
    BY <1>4, <2>2, <2>3 DEF wait_for_completion
  <2>5. FlushShape'
    BY <1>4, <2>1 DEF wait_for_completion
  <2>6. QED BY <2>4, <2>5
<1>5. ASSUME NEW t \in Callers, StopSetExit(t)
      PROVE  QueueTypeOK' /\ FlushShape'
  BY <1>5 DEF StopSetExit
<1>6. ASSUME NEW t \in Callers, StopWake(t)
      PROVE  QueueTypeOK' /\ FlushShape'
  BY <1>6 DEF StopWake
<1>7. ASSUME NEW t \in Callers, StopJoin(t)
      PROVE  QueueTypeOK' /\ FlushShape'
  BY <1>7 DEF StopJoin
<1>8. ASSUME NEW t \in Callers, NEW i \in Items, nv_kthread_q_schedule_q_item(t, i)
      PROVE  QueueTypeOK' /\ FlushShape'
  BY <1>8 DEF nv_kthread_q_schedule_q_item
<1>9. ASSUME NEW t \in Callers, nv_kthread_q_flush(t) \/ nv_kthread_q_stop(t)
      PROVE  QueueTypeOK' /\ FlushShape'
  <2>1. StartFlush(t) /\ stopping' \in SUBSET Callers
    BY <1>9 DEF nv_kthread_q_flush, nv_kthread_q_stop
  <2>2. owed' \in [Callers -> Owed]
    BY <2>1, OwedTyped DEF StartFlush
  <2>3. rounds' \in [Callers -> 0 .. 2] /\ rounds'[t] = 2
    BY <2>1 DEF StartFlush
  <2>4. QueueTypeOK'
    BY <2>1, <2>2, <2>3 DEF StartFlush
  <2>5. FlushShape'
    BY <2>1, <2>3 DEF StartFlush
  <2>6. QED BY <2>4, <2>5
<1>10. CASE MainLoopDown
  BY <1>10 DEF MainLoopDown, KGoto
<1>11. CASE MainLoopCheck
  BY <1>11 DEF MainLoopCheck, KGoto
<1>12. CASE MainLoopPop
  <2>1. CASE q_list = <<>>
    BY <1>12, <2>1 DEF MainLoopPop, KGoto
  <2>2. CASE q_list # <<>>
    <3>1. Head(q_list) \in QItems /\ Tail(q_list) \in Seq(QItems)
      BY <2>2
    <3>2. running' \in QItems /\ q_list' \in Seq(QItems)
      <4>1. running' = Head(q_list) /\ q_list' = Tail(q_list)
        BY <1>12, <2>2, Zenon DEF MainLoopPop
      <4>2. QED BY <3>1, <4>1, Zenon
    <3>3. q_pc' = [q_pc EXCEPT ![Kthread] = "run"]
      BY <1>12, <2>2 DEF MainLoopPop, KGoto
    <3>4. QED BY <1>12, <3>2, <3>3 DEF MainLoopPop
  <2>3. QED BY <2>1, <2>2
<1>13. CASE _q_flush_function
  BY <1>13 DEF _q_flush_function, KGoto
<1>14. CASE CallbackReturns
  <2>1. owed' \in [Callers -> Owed]
    BY <1>14, OwedTyped DEF CallbackReturns
  <2>2. QED BY <1>14, <2>1 DEF CallbackReturns, KGoto
<1>15. ASSUME NEW i \in Items, CallbackReschedules(i)
       PROVE  QueueTypeOK' /\ FlushShape'
  BY <1>15 DEF CallbackReschedules, KGoto
<1>16. CASE SetStopRescheduling
  BY <1>16 DEF SetStopRescheduling
<1>17. CASE Reinit
  <2>1. NothingOwed \in Owed BY DEF NothingOwed, Owed
  <2>2. FreshPC \in [Actors -> {"down", "idle"}] /\ FreshPC[Kthread] = "down"
         /\ \A t \in Callers : FreshPC[t] = "idle"
    BY DEF FreshPC
  <2>3. QueueTypeOK'
    <3>1. q_pc' = FreshPC /\ owed' \in [Callers -> Owed] BY <1>17, <2>1 DEF Reinit
    <3>2. rounds' \in [Callers -> 0 .. 2] /\ completed' \in [Callers -> BOOLEAN]
           /\ arg' \in [Actors -> QItems \cup {Kthread}]
      BY <1>17 DEF Reinit
    <3>3. q_list' \in Seq(QItems) BY <1>17 DEF Reinit
    <3>4. \A a \in Actors : q_pc'[a] \in {"down", "idle"}
      BY <2>2, <3>1
    <3>5. q_pc' \in [Actors -> CallerPCs \cup KthreadPCs]
      BY <2>2, <3>1
    <3>6. QED BY <1>17, <2>2, <3>1, <3>2, <3>3, <3>4, <3>5 DEF Reinit
  <2>4. FlushShape' BY <1>17, <2>2 DEF Reinit
  <2>5. QED BY <2>3, <2>4
<1>18. CASE UNCHANGED q_vars
  BY <1>18 DEF q_vars
<1>19. QED
  BY <1>1, <1>2, <1>3, <1>4, <1>5, <1>6, <1>7, <1>8, <1>9, <1>10, <1>11,
     <1>12, <1>13, <1>14, <1>15, <1>16, <1>17, <1>18
  DEF QueueNext, KthreadStep, CallerStep, ScheduleStep, QueueCall

\* The initial state satisfies the inductive invariant.
LEMMA InitIInv == QueueInit => IInv
<1> SUFFICES ASSUME QueueInit PROVE IInv
  OBVIOUS
<1> USE KthreadQAssumption DEF QueueInit, nv_kthread_q_init
<1>1. NothingOwed \in Owed
  BY DEF NothingOwed, Owed
<1>2. q_pc \in [Actors -> {"down", "idle"}] /\ q_pc[Kthread] = "down"
       /\ \A t \in Callers : q_pc[t] = "idle"
  BY DEF FreshPC, Actors
<1>3. QueueTypeOK
  <2>1. q_pc \in [Actors -> CallerPCs \cup KthreadPCs]
          /\ \A a \in Actors : q_pc[a] \in {"down", "idle"}
    BY <1>2 DEF CallerPCs, KthreadPCs
  <2>2. rounds \in [Callers -> 0 .. FlushRounds] /\ completed \in [Callers -> BOOLEAN]
         /\ owed \in [Callers -> Owed] /\ arg \in [Actors -> QItems \cup {Kthread}]
    BY <1>1 DEF FlushRounds, Actors, QItems
  <2>3. q_list \in Seq(QItems)
    OBVIOUS
  <2>4. QED BY <1>2, <2>1, <2>2, <2>3 DEF QueueTypeOK, CallerPCs, KthreadPCs
<1>4. FlushShape
  BY <1>2 DEF FlushShape
<1>5. SemaphoreCountsItems
  <2>1. Ups = {} BY <1>2 DEF Ups
  <2>2. Cardinality(Ups) = 0 BY <2>1, FS_EmptySet
  <2>3. QED BY <1>2, <2>2 DEF SemaphoreCountsItems, Awake
<1>6. QED BY <1>3, <1>4, <1>5 DEF IInv

\* Every step preserves the accounting.
LEMMA CountStep == IInv /\ [QueueNext]_q_vars => SemaphoreCountsItems'
<1> SUFFICES ASSUME IInv, [QueueNext]_q_vars
             PROVE  SemaphoreCountsItems'
  OBVIOUS
<1> USE KthreadQAssumption DEF IInv, SemaphoreCountsItems
<1>k. QueueTypeOK /\ Kthread \in Actors /\ Callers \subseteq Actors
  BY DEF Actors
<1>a. Cardinality(Ups) \in Nat /\ Len(q_list) \in Nat /\ q_sem \in Nat /\ Awake \in {0, 1}
  BY UpsFinite DEF QueueTypeOK, Awake
\* Moves of a thread that neither touch the list nor the semaphore.
<1>b. ASSUME NEW t \in Callers, NEW l, l # "up", q_pc[t] # "up",
             q_pc' = [q_pc EXCEPT ![t] = l], UNCHANGED <<q_list, q_sem, main_loop_should_exit>>
      PROVE  SemaphoreCountsItems'
  <2>1. Cardinality(Ups') = Cardinality(Ups) BY <1>k, <1>b, UpsSame
  <2>2. Awake' = Awake BY <1>b DEF Awake, QueueTypeOK
  <2>3. QED BY <1>b, <2>1, <2>2
\* The same for the kthread, which must not change between awake and asleep.
<1>c. ASSUME NEW l, l # "up", q_pc[Kthread] # "up",
             q_pc' = [q_pc EXCEPT ![Kthread] = l], Awake' = Awake,
             UNCHANGED <<q_list, q_sem, main_loop_should_exit>>
      PROVE  SemaphoreCountsItems'
  <2>1. Cardinality(Ups') = Cardinality(Ups) BY <1>k, <1>c, UpsSame
  <2>2. QED BY <1>c, <2>1
<1>1. ASSUME NEW a \in Actors, _raw_q_schedule_insert(a)
      PROVE  SemaphoreCountsItems'
  <2>1. Cardinality(Ups') = Cardinality(Ups) + 1
    BY <1>1, <1>k, UpsEnter DEF _raw_q_schedule_insert
  <2>2. Awake' = Awake
    BY <1>1 DEF _raw_q_schedule_insert, Awake, QueueTypeOK
  <2>3. Len(q_list') = Len(q_list) + 1
    BY <1>1 DEF _raw_q_schedule_insert, QueueTypeOK
  <2>4. QED BY <1>1, <1>a, <2>1, <2>2, <2>3 DEF _raw_q_schedule_insert
<1>2. ASSUME NEW a \in Actors, _raw_q_schedule_pending(a)
      PROVE  SemaphoreCountsItems'
  <2>1. AfterSchedule(a) # "up" /\ AfterSchedule(a) \notin {"check", "pop"}
    BY DEF AfterSchedule
  <2>2. Cardinality(Ups') = Cardinality(Ups)
    BY <1>2, <1>k, <2>1, UpsSame DEF _raw_q_schedule_pending
  <2>3. Awake' = Awake
    BY <1>2, <2>1 DEF _raw_q_schedule_pending, Awake, QueueTypeOK
  <2>4. QED BY <1>2, <2>2, <2>3 DEF _raw_q_schedule_pending
<1>3. ASSUME NEW a \in Actors, _raw_q_schedule_up(a)
      PROVE  SemaphoreCountsItems'
  <2>1. AfterSchedule(a) # "up" /\ AfterSchedule(a) \notin {"check", "pop"}
    BY DEF AfterSchedule
  <2>2. Cardinality(Ups') = Cardinality(Ups) - 1
    <3>1. q_pc' = [q_pc EXCEPT ![a] = AfterSchedule(a)] /\ q_pc[a] = "up"
      BY <1>3 DEF _raw_q_schedule_up
    <3>2. QED BY <1>k, <2>1, <3>1, UpsLeave
  <2>3. Awake' = Awake
    BY <1>3, <2>1 DEF _raw_q_schedule_up, Awake, QueueTypeOK
  <2>4. QED BY <1>3, <1>a, <2>2, <2>3 DEF _raw_q_schedule_up
<1>4. ASSUME NEW t \in Callers, wait_for_completion(t)
      PROVE  SemaphoreCountsItems'
  BY <1>4, <1>b DEF wait_for_completion
<1>5. ASSUME NEW t \in Callers, StopSetExit(t)
      PROVE  SemaphoreCountsItems'
  BY <1>5 DEF StopSetExit
<1>6. ASSUME NEW t \in Callers, StopWake(t)
      PROVE  SemaphoreCountsItems'
  BY <1>6 DEF StopWake, FlushShape
<1>7. ASSUME NEW t \in Callers, StopJoin(t)
      PROVE  SemaphoreCountsItems'
  BY <1>7, <1>b DEF StopJoin
<1>8. ASSUME NEW t \in Callers, NEW i \in Items, nv_kthread_q_schedule_q_item(t, i)
      PROVE  SemaphoreCountsItems'
  BY <1>8, <1>b DEF nv_kthread_q_schedule_q_item
<1>9. ASSUME NEW t \in Callers, nv_kthread_q_flush(t) \/ nv_kthread_q_stop(t)
      PROVE  SemaphoreCountsItems'
  <2>1. StartFlush(t) BY <1>9 DEF nv_kthread_q_flush, nv_kthread_q_stop
  <2>2. QED BY <2>1, <1>b DEF StartFlush
<1>10. CASE MainLoopDown
  <2>1. Cardinality(Ups') = Cardinality(Ups)
    <3>1. q_pc' = [q_pc EXCEPT ![Kthread] = "check"] /\ q_pc[Kthread] # "up"
      BY <1>10 DEF MainLoopDown, KGoto
    <3>2. QED BY <1>k, <3>1, UpsSame
  <2>2. Awake = 0 /\ Awake' = 1
    BY <1>k, <1>10 DEF MainLoopDown, KGoto, Awake, QueueTypeOK
  <2>3. QED BY <1>10, <1>a, <2>1, <2>2 DEF MainLoopDown
<1>11. CASE MainLoopCheck
  <2>1. CASE main_loop_should_exit
    BY <1>11, <2>1 DEF MainLoopCheck
  <2>2. CASE ~main_loop_should_exit
    <3>1. Awake' = Awake
      BY <1>11, <2>2 DEF MainLoopCheck, KGoto, Awake, QueueTypeOK
    <3>2. q_pc' = [q_pc EXCEPT ![Kthread] = "pop"]
      BY <1>11, <2>2 DEF MainLoopCheck, KGoto
    <3>3. QED BY <1>11, <1>c, <3>1, <3>2 DEF MainLoopCheck
  <2>3. QED BY <2>1, <2>2
<1>12. CASE MainLoopPop
  <2> SUFFICES ASSUME ~main_loop_should_exit
               PROVE  SemaphoreCountsItems'
    BY <1>12 DEF MainLoopPop
  <2>1. Awake = 1
    BY <1>12 DEF MainLoopPop, Awake
  <2>2. q_list # <<>>
    BY <1>a, <2>1
  <2>3. q_pc' = [q_pc EXCEPT ![Kthread] = "run"] /\ q_list' = Tail(q_list)
    BY <1>12, <2>2 DEF MainLoopPop, KGoto
  <2>4. Len(q_list') = Len(q_list) - 1
    BY <2>2, <2>3 DEF QueueTypeOK
  <2>5. Cardinality(Ups') = Cardinality(Ups)
    <3>1. q_pc[Kthread] # "up" BY <1>12 DEF MainLoopPop
    <3>2. QED BY <1>k, <2>3, <3>1, UpsSame
  <2>6. Awake' = 0
    BY <1>k, <2>3 DEF Awake, QueueTypeOK
  <2>7. QED BY <1>12, <1>a, <2>1, <2>4, <2>5, <2>6 DEF MainLoopPop
<1>13. CASE _q_flush_function \/ CallbackReturns \/ \E i \in Items : CallbackReschedules(i)
  <2>1. PICK l \in {"down", "add"} : q_pc' = [q_pc EXCEPT ![Kthread] = l]
    BY <1>13 DEF _q_flush_function, CallbackReturns, CallbackReschedules, KGoto
  <2>2. q_pc[Kthread] = "run" /\ UNCHANGED <<q_list, q_sem, main_loop_should_exit>>
    BY <1>13 DEF _q_flush_function, CallbackReturns, CallbackReschedules
  <2>3. Awake' = Awake
    BY <2>1, <2>2 DEF Awake, QueueTypeOK
  <2>4. QED BY <1>c, <2>1, <2>2, <2>3
<1>14. CASE SetStopRescheduling
  BY <1>14 DEF SetStopRescheduling, Ups, Awake
<1>15. CASE Reinit
  <2>0. q_pc' = FreshPC /\ \A a \in Actors : FreshPC[a] # "up"
    BY <1>15 DEF Reinit, FreshPC
  <2>1. Ups' = {} BY <2>0 DEF Ups
  <2>2. Cardinality(Ups') = 0 BY <2>1, FS_EmptySet
  <2>3. Awake' = 0 BY <1>k, <2>0 DEF FreshPC, Awake
  <2>4. QED BY <1>15, <2>2, <2>3 DEF Reinit
<1>16. CASE UNCHANGED q_vars
  BY <1>16 DEF q_vars, Ups, Awake
<1> HIDE DEF SemaphoreCountsItems
<1>17. QED
  BY <1>k, <1>1, <1>2, <1>3, <1>4, <1>5, <1>6, <1>7, <1>8, <1>9, <1>10, <1>11,
     <1>12, <1>13, <1>14, <1>15, <1>16
  DEF QueueNext, KthreadStep, CallerStep, ScheduleStep, QueueCall

\* i is in the list q; i is ahead of j in q; no item is in q twice.
In(q, i) == \E n \in 1 .. Len(q) : q[n] = i
Before(q, i, j) == \E m, n \in 1 .. Len(q) : m < n /\ q[m] = i /\ q[n] = j
Unique(q) == \A m, n \in 1 .. Len(q) : q[m] = q[n] => m = n

\* Inserting at the tail puts every queued item ahead of the new one.
LEMMA InsertAtTail ==
  ASSUME NEW q \in Seq(QItems), NEW x \in QItems, ~In(q, x), Unique(q)
  PROVE  /\ Unique(Append(q, x))
         /\ \A i : In(Append(q, x), i) <=> In(q, i) \/ i = x
         /\ \A i, j : Before(q, i, j) => Before(Append(q, x), i, j)
         /\ \A i : In(q, i) => Before(Append(q, x), i, x)
<1> DEFINE p == Append(q, x)
<1>1. /\ Len(q) \in Nat
      /\ Len(p) = Len(q) + 1
      /\ p[Len(q) + 1] = x
      /\ \A n \in 1 .. Len(q) : p[n] = q[n]
  OBVIOUS
<1> HIDE DEF p
<1>2. Unique(p)
  BY <1>1 DEF Unique, In
<1>3. \A i : In(p, i) <=> In(q, i) \/ i = x
  <2> TAKE i
  <2>1. In(q, i) \/ i = x => In(p, i)
    BY <1>1 DEF In
  <2>2. In(p, i) => In(q, i) \/ i = x
    <3> SUFFICES ASSUME In(p, i) PROVE In(q, i) \/ i = x
      OBVIOUS
    <3>1. PICK n \in 1 .. Len(p) : p[n] = i
      BY DEF In
    <3>2. CASE n = Len(q) + 1 BY <1>1, <3>1, <3>2
    <3>3. CASE n # Len(q) + 1
      <4>1. n \in 1 .. Len(q) BY <1>1, <3>1, <3>3
      <4>2. QED BY <1>1, <3>1, <4>1 DEF In
    <3>4. QED BY <3>2, <3>3
  <2>3. QED BY <2>1, <2>2
<1>4. \A i, j : Before(q, i, j) => Before(p, i, j)
  <2> SUFFICES ASSUME NEW i, NEW j, Before(q, i, j) PROVE Before(p, i, j)
    OBVIOUS
  <2>1. PICK m, n \in 1 .. Len(q) : m < n /\ q[m] = i /\ q[n] = j
    BY DEF Before
  <2>2. m \in 1 .. Len(p) /\ n \in 1 .. Len(p) BY <1>1, <2>1
  <2>3. QED BY <1>1, <2>1, <2>2 DEF Before
<1>5. \A i : In(q, i) => Before(p, i, x)
  <2> SUFFICES ASSUME NEW i, In(q, i) PROVE Before(p, i, x)
    OBVIOUS
  <2>1. PICK m \in 1 .. Len(q) : q[m] = i
    BY DEF In
  <2>2. m \in 1 .. Len(p) /\ Len(q) + 1 \in 1 .. Len(p) /\ m < Len(q) + 1 BY <1>1, <2>1
  <2>3. QED BY <1>1, <2>1, <2>2 DEF Before
<1>6. QED BY <1>2, <1>3, <1>4, <1>5 DEF p

\* Taking the head leaves the order of the others alone.
LEMMA TakeHead ==
  ASSUME NEW q \in Seq(QItems), q # <<>>, Unique(q)
  PROVE  /\ Head(q) \in QItems /\ Tail(q) \in Seq(QItems) /\ In(q, Head(q))
         /\ Unique(Tail(q))
         /\ \A i : In(Tail(q), i) <=> In(q, i) /\ i # Head(q)
         /\ \A i, j : Before(q, i, j) =>
               j # Head(q) /\ (i = Head(q) \/ Before(Tail(q), i, j))
<1> DEFINE p == Tail(q)
           h == Head(q)
<1>1. /\ Len(q) \in Nat \ {0} /\ Len(p) = Len(q) - 1
      /\ h = q[1] /\ h \in QItems /\ p \in Seq(QItems)
      /\ \A n \in 1 .. Len(p) : p[n] = q[n + 1]
  OBVIOUS
<1> HIDE DEF p, h
<1>2. In(q, h)
  BY <1>1 DEF In
<1>3. Unique(p)
  <2> SUFFICES ASSUME NEW m \in 1 .. Len(p), NEW n \in 1 .. Len(p), p[m] = p[n]
               PROVE  m = n
    BY DEF Unique
  <2>1. m + 1 \in 1 .. Len(q) /\ n + 1 \in 1 .. Len(q) /\ q[m + 1] = q[n + 1] BY <1>1
  <2>2. m + 1 = n + 1 BY <2>1 DEF Unique
  <2>3. QED BY <1>1, <2>2
<1>4. ASSUME NEW i
      PROVE  In(p, i) <=> In(q, i) /\ i # h
  <2>1. ASSUME In(p, i) PROVE In(q, i) /\ i # h
    <3>1. PICK n \in 1 .. Len(p) : p[n] = i
      BY <2>1 DEF In
    <3>2. n + 1 \in 1 .. Len(q) /\ q[n + 1] = i /\ 1 \in 1 .. Len(q) /\ n + 1 # 1
      BY <1>1, <3>1
    <3>3. q[1] # i BY <3>2 DEF Unique
    <3>4. QED BY <1>1, <3>2, <3>3 DEF In
  <2>2. ASSUME In(q, i), i # h PROVE In(p, i)
    <3>1. PICK n \in 1 .. Len(q) : q[n] = i
      BY <2>2 DEF In
    <3>2. n # 1 BY <1>1, <2>2, <3>1
    <3>3. n - 1 \in 1 .. Len(p) /\ p[n - 1] = q[n - 1 + 1] /\ n - 1 + 1 = n BY <1>1, <3>1, <3>2
    <3>4. QED BY <3>1, <3>3 DEF In
  <2>3. QED BY <2>1, <2>2
<1>5. ASSUME NEW i, NEW j, Before(q, i, j)
      PROVE  j # h /\ (i = h \/ Before(p, i, j))
  <2>1. PICK m, n \in 1 .. Len(q) : m < n /\ q[m] = i /\ q[n] = j
    BY <1>5 DEF Before
  <2>2. n # 1 /\ 1 \in 1 .. Len(q) BY <1>1, <2>1
  <2>3. j # h BY <1>1, <2>1, <2>2 DEF Unique
  <2>4. CASE m = 1 BY <1>1, <2>1, <2>3, <2>4
  <2>5. CASE m # 1
    <3>1. /\ m - 1 \in 1 .. Len(p) /\ n - 1 \in 1 .. Len(p) /\ m - 1 < n - 1
          /\ p[m - 1] = q[m - 1 + 1] /\ p[n - 1] = q[n - 1 + 1]
          /\ m - 1 + 1 = m /\ n - 1 + 1 = n
      BY <1>1, <2>1, <2>2, <2>5
    <3>2. Before(p, i, j) BY <2>1, <3>1 DEF Before
    <3>3. QED BY <2>3, <3>2
  <2>6. QED BY <2>4, <2>5
<1>6. QED BY <1>1, <1>2, <1>3, <1>4, <1>5 DEF p, h

\* What settling one run does to each debt, and what an insertion adds.
LEMMA DebtsMove ==
  ASSUME QueueTypeOK, NEW t \in Callers, NEW r
  PROVE  /\ \A i : i \in SettleRun(r)[t].current
                     <=> i \in owed[t].current /\ r \notin owed[t].current
         /\ \A i : i \in SettleRun(r)[t].first
                     <=> i \in owed[t].first /\ ~(i = r /\ r \notin owed[t].current)
         /\ \A i : i \in SettleRun(r)[t].second
                     <=> i \in owed[t].second
                         /\ ~(i = r /\ r \notin owed[t].current \cup owed[t].first)
         /\ \A a : OweInserted(a, r) =>
               /\ owed'[t].current = owed[t].current /\ owed'[t].first = owed[t].first
               /\ \A i : i \in owed'[t].second
                     <=> \/ i \in owed[t].second
                         \/ /\ i = r /\ a = Kthread /\ r \in Items
                            /\ running \in owed[t].current \cup owed[t].first
<1> DEFINE o == owed[t]
<1>0. o \in Owed
  BY DEF QueueTypeOK
<1> HIDE DEF o
<1>1. /\ SettleRun(r)[t] = CASE r \in o.current -> [o EXCEPT !.current = {}]
                             [] r \in o.first \ o.current -> [o EXCEPT !.first = @ \ {r}]
                             [] OTHER -> [o EXCEPT !.second = @ \ {r}]
      /\ \A a : OweInserted(a, r) =>
            owed'[t] = IF /\ a = Kthread /\ r \in Items
                          /\ running \in o.current \cup o.first
                       THEN [o EXCEPT !.second = @ \cup {r}] ELSE o
  BY DEF SettleRun, OweInserted, o
<1>2. CASE r \in o.current
  BY <1>0, <1>1, <1>2 DEF Owed, o
<1>3. CASE r \in o.first \ o.current
  BY <1>0, <1>1, <1>3 DEF Owed, o
<1>4. CASE r \notin o.current \cup o.first
  BY <1>0, <1>1, <1>4 DEF Owed, o
<1>5. QED BY <1>2, <1>3, <1>4

\* What inserting an item adds to what a flush is owed.
LEMMA DebtInserted ==
  ASSUME QueueTypeOK, NEW t \in Callers, NEW r, NEW a, OweInserted(a, r)
  PROVE  /\ owed'[t].current = owed[t].current /\ owed'[t].first = owed[t].first
         /\ \A i : i \in owed'[t].second
                     <=> \/ i \in owed[t].second
                         \/ /\ i = r /\ a = Kthread /\ r \in Items
                            /\ running \in owed[t].current \cup owed[t].first
BY DebtsMove

\* The kthread runs, or is returning from, item i; flush item t is on its way.
Runs(i) == running = i /\ q_pc[Kthread] \in {"run", "add", "up"}
InFlight(t) == q_pc[t] = "wait" \/ (q_pc[t] = "up" /\ arg[t] = t)

\* Who schedules what, and which threads are inside a flush.
CallShape ==
    /\ q_pc[Kthread] \in {"add", "up"} => arg[Kthread] \in Items /\ running \in Items
    /\ \A t \in Callers : q_pc[t] \in {"add", "up"} => arg[t] \in Items \cup {t}
    /\ \A t \in Callers :
          rounds[t] > 0 <=> q_pc[t] = "wait" \/ (q_pc[t] \in {"add", "up"} /\ arg[t] = t)

\* A flush item is queued, running or completed, one of the three, exactly
\* while the thread that flushes waits for it.
FlushItems ==
    /\ Unique(q_list)
    /\ \A t \in Callers :
          /\ InFlight(t) <=> In(q_list, t) \/ Runs(t) \/ completed[t]
          /\ ~(In(q_list, t) /\ Runs(t))
          /\ ~(In(q_list, t) /\ completed[t])
          /\ ~(Runs(t) /\ completed[t])

\* Callers and the kthread are different actors; their labels are disjoint.
LEMMA ActorsApart ==
  /\ Kthread \notin Callers /\ Kthread \notin Items
  /\ \A t \in Callers : t # Kthread /\ t \notin Items
  /\ Kthread \in Actors /\ Callers \subseteq Actors
BY KthreadQAssumption DEF Actors

LEMMA CallStep == QueueTypeOK /\ FlushShape /\ CallShape /\ [QueueNext]_q_vars => CallShape'
<1> SUFFICES ASSUME QueueTypeOK, FlushShape, CallShape, [QueueNext]_q_vars
             PROVE  CallShape'
  OBVIOUS
<1> USE ActorsApart
    DEF QueueTypeOK, CallShape, Actors, QItems, CallerPCs, KthreadPCs, FlushRounds
<1>1. ASSUME NEW a \in Actors, _raw_q_schedule_insert(a)
      PROVE  CallShape'
  BY <1>1 DEF _raw_q_schedule_insert
<1>2. ASSUME NEW a \in Actors, _raw_q_schedule_pending(a)
      PROVE  CallShape'
  BY <1>2 DEF _raw_q_schedule_pending, AfterSchedule
<1>3. ASSUME NEW a \in Actors, _raw_q_schedule_up(a)
      PROVE  CallShape'
  BY <1>3 DEF _raw_q_schedule_up, AfterSchedule
<1>4. ASSUME NEW t \in Callers, wait_for_completion(t)
      PROVE  CallShape'
  <2>1. arg[t] = t /\ rounds[t] \in 1 .. 2 /\ rounds'[t] = rounds[t] - 1
    BY <1>4 DEF wait_for_completion, FlushShape
  <2>2. \A u \in Callers \ {t} : rounds'[u] = rounds[u]
    BY <1>4 DEF wait_for_completion
  <2>3. q_pc'[t] = "add" <=> rounds'[t] > 0
    BY <1>4, <2>1 DEF wait_for_completion
  <2>4. q_pc'[t] \notin {"wait", "up"} /\ \A b \in Actors \ {t} : q_pc'[b] = q_pc[b]
    BY <1>4 DEF wait_for_completion
  <2>5. UNCHANGED <<arg, running>>
    BY <1>4 DEF wait_for_completion
  <2>6. QED BY <2>1, <2>2, <2>3, <2>4, <2>5
<1>5. ASSUME NEW t \in Callers, StopSetExit(t) \/ StopWake(t) \/ StopJoin(t)
      PROVE  CallShape'
  BY <1>5 DEF StopSetExit, StopWake, StopJoin
<1>6. ASSUME NEW t \in Callers, NEW i \in Items, nv_kthread_q_schedule_q_item(t, i)
      PROVE  CallShape'
  BY <1>6 DEF nv_kthread_q_schedule_q_item
<1>7. ASSUME NEW t \in Callers, nv_kthread_q_flush(t) \/ nv_kthread_q_stop(t)
      PROVE  CallShape'
  BY <1>7 DEF nv_kthread_q_flush, nv_kthread_q_stop, StartFlush
<1>8. CASE MainLoopDown \/ MainLoopCheck \/ _q_flush_function \/ CallbackReturns
  BY <1>8 DEF MainLoopDown, MainLoopCheck, _q_flush_function, CallbackReturns, KGoto
<1>9. CASE MainLoopPop
  BY <1>9 DEF MainLoopPop, KGoto
<1>10. ASSUME NEW i \in Items, CallbackReschedules(i)
       PROVE  CallShape'
  BY <1>10 DEF CallbackReschedules, KGoto
<1>11. CASE SetStopRescheduling \/ UNCHANGED q_vars
  BY <1>11 DEF SetStopRescheduling, q_vars
<1>12. CASE Reinit
  BY <1>12 DEF Reinit, FreshPC
<1> HIDE DEF CallShape
<1>13. QED
  BY <1>1, <1>2, <1>3, <1>4, <1>5, <1>6, <1>7, <1>8, <1>9, <1>10, <1>11, <1>12
  DEF QueueNext, KthreadStep, CallerStep, ScheduleStep, QueueCall

LEMMA ItemsStep ==
  QueueTypeOK /\ FlushShape /\ CallShape /\ FlushItems /\ [QueueNext]_q_vars => FlushItems'
<1> SUFFICES ASSUME QueueTypeOK, FlushShape, CallShape, FlushItems, [QueueNext]_q_vars
             PROVE  FlushItems'
  OBVIOUS
<1> USE ActorsApart DEF FlushItems, Runs, InFlight
\* Steps that leave the list and the kthread's place alone and do not change
\* which flush items are on their way.
<1>a. ASSUME UNCHANGED <<q_list, running, completed>>,
             q_pc[Kthread] = "run" <=> q_pc'[Kthread] = "run",
             \A t \in Callers : InFlight(t)' <=> InFlight(t)
      PROVE  FlushItems'
  <2>1. \A t \in Callers : Runs(t) => q_pc[Kthread] = "run"
    BY DEF CallShape
  <2>2. \A t \in Callers : Runs(t)' => q_pc'[Kthread] = "run"
    BY <1>a, CallStep DEF CallShape
  <2>3. \A t \in Callers : Runs(t)' <=> Runs(t)
    BY <1>a, <2>1, <2>2
  <2>4. QED BY <1>a, <2>3
<1>1. ASSUME NEW a \in Actors, _raw_q_schedule_insert(a)
      PROVE  FlushItems'
  <2>1. arg[a] \in QItems /\ ~In(q_list, arg[a]) /\ q_list' = Append(q_list, arg[a])
    BY <1>1 DEF _raw_q_schedule_insert, QueueTypeOK, IsPending, In
  <2>2. /\ Unique(q_list')
        /\ \A i : In(q_list', i) <=> In(q_list, i) \/ i = arg[a]
    BY <2>1, InsertAtTail DEF QueueTypeOK
  <2>3. /\ q_pc[a] = "add" /\ q_pc'[a] = "up" /\ \A b \in Actors \ {a} : q_pc'[b] = q_pc[b]
        /\ UNCHANGED <<arg, running, completed>>
    BY <1>1 DEF _raw_q_schedule_insert, QueueTypeOK
  <2>4. \A t \in Callers : Runs(t)' <=> Runs(t)
    BY <2>3
  <2>5. arg[a] \in Items \cup {a}
    BY <2>3 DEF CallShape, Actors
  <2>6. \A t \in Callers : InFlight(t)' <=> InFlight(t) \/ t = arg[a]
    BY <2>3, <2>5
  <2>7. \A t \in Callers : t = arg[a] => ~InFlight(t)
    BY <2>3, <2>5
  <2>8. QED BY <2>2, <2>3, <2>4, <2>6, <2>7
<1>2. ASSUME NEW a \in Actors, _raw_q_schedule_pending(a)
      PROVE  FlushItems'
  <2>1. /\ q_pc[a] = "add" /\ q_pc'[a] = AfterSchedule(a) /\ In(q_list, arg[a])
        /\ \A b \in Actors \ {a} : q_pc'[b] = q_pc[b]
        /\ UNCHANGED <<arg, running, completed, q_list>>
    BY <1>2 DEF _raw_q_schedule_pending, QueueTypeOK, IsPending, In
  <2>2. \A t \in Callers : t = a => arg[t] \in Items
    BY <2>1 DEF CallShape
  <2>3. \A t \in Callers : Runs(t) => q_pc[Kthread] = "run"
    BY DEF CallShape
  <2>4. QED BY <1>a, <2>1, <2>2, <2>3 DEF AfterSchedule
<1>3. ASSUME NEW a \in Actors, _raw_q_schedule_up(a)
      PROVE  FlushItems'
  <2>1. /\ q_pc[a] = "up" /\ q_pc'[a] = AfterSchedule(a)
        /\ \A b \in Actors \ {a} : q_pc'[b] = q_pc[b]
        /\ UNCHANGED <<arg, running, completed, q_list>>
    BY <1>3 DEF _raw_q_schedule_up, QueueTypeOK
  <2>2. \A t \in Callers : Runs(t) => q_pc[Kthread] = "run"
    BY DEF CallShape
  <2>3. QED BY <1>a, <2>1, <2>2 DEF AfterSchedule
<1>4. ASSUME NEW t \in Callers, wait_for_completion(t)
      PROVE  FlushItems'
  <2>1. /\ q_pc[t] = "wait" /\ q_pc'[t] \notin {"wait", "up"} /\ completed[t] /\ ~completed'[t]
        /\ \A b \in Actors \ {t} : q_pc'[b] = q_pc[b]
        /\ \A u \in Callers \ {t} : completed'[u] = completed[u]
        /\ UNCHANGED <<arg, running, q_list>>
    BY <1>4 DEF wait_for_completion, QueueTypeOK
  <2>2. QED BY <2>1
<1>5. ASSUME NEW t \in Callers, StopSetExit(t) \/ StopWake(t) \/ StopJoin(t)
      PROVE  FlushItems'
  BY <1>5, <1>a DEF StopSetExit, StopWake, StopJoin, QueueTypeOK
<1>6. ASSUME NEW t \in Callers, NEW i \in Items, nv_kthread_q_schedule_q_item(t, i)
      PROVE  FlushItems'
  BY <1>6, <1>a DEF nv_kthread_q_schedule_q_item, QueueTypeOK
<1>7. ASSUME NEW t \in Callers, nv_kthread_q_flush(t) \/ nv_kthread_q_stop(t)
      PROVE  FlushItems'
  BY <1>7, <1>a DEF nv_kthread_q_flush, nv_kthread_q_stop, StartFlush, QueueTypeOK
<1>8. CASE MainLoopDown \/ MainLoopCheck
  BY <1>8, <1>a DEF MainLoopDown, MainLoopCheck, KGoto, QueueTypeOK
<1>9. CASE MainLoopPop
  <2>1. CASE q_list = <<>>
    BY <1>9, <2>1, <1>a DEF MainLoopPop, KGoto, QueueTypeOK
  <2>2. CASE q_list # <<>>
    <3>1. /\ q_pc[Kthread] = "pop" /\ q_pc'[Kthread] = "run" /\ running' = Head(q_list)
          /\ q_list' = Tail(q_list) /\ UNCHANGED <<arg, completed>>
          /\ \A t \in Callers : q_pc'[t] = q_pc[t]
      BY <1>9, <2>2 DEF MainLoopPop, KGoto, QueueTypeOK
    <3>2. /\ In(q_list, running') /\ Unique(q_list')
          /\ \A i : In(q_list', i) <=> In(q_list, i) /\ i # running'
      BY <2>2, <3>1, TakeHead DEF QueueTypeOK
    <3>3. QED BY <3>1, <3>2
  <2>3. QED BY <2>1, <2>2
<1>10. CASE _q_flush_function
  <2>1. /\ q_pc[Kthread] = "run" /\ q_pc'[Kthread] = "down" /\ running \in Callers
        /\ completed'[running] /\ UNCHANGED <<arg, running, q_list>>
        /\ \A t \in Callers : q_pc'[t] = q_pc[t]
        /\ \A t \in Callers \ {running} : completed'[t] = completed[t]
    BY <1>10 DEF _q_flush_function, KGoto, QueueTypeOK
  <2>2. QED BY <2>1
<1>11. ASSUME CallbackReturns \/ \E i \in Items : CallbackReschedules(i)
       PROVE  FlushItems'
  <2>1. /\ running \in Items /\ UNCHANGED <<running, q_list, completed>>
        /\ \A t \in Callers : q_pc'[t] = q_pc[t] /\ arg'[t] = arg[t]
    BY <1>11 DEF CallbackReturns, CallbackReschedules, KGoto, QueueTypeOK
  <2>2. QED BY <2>1
<1>12. CASE SetStopRescheduling \/ UNCHANGED q_vars
  BY <1>12, <1>a DEF SetStopRescheduling, q_vars
<1>13. CASE Reinit
  <2>1. /\ q_list' = <<>> /\ running' = Kthread
        /\ \A t \in Callers : q_pc'[t] = "idle" /\ ~completed'[t]
    BY <1>13 DEF Reinit, FreshPC, Actors
  <2>2. Unique(q_list') /\ \A i : ~In(q_list', i)
    BY <2>1 DEF Unique, In
  <2>3. QED BY <2>1, <2>2
<1> HIDE DEF FlushItems
<1>14. QED
  BY <1>1, <1>2, <1>3, <1>4, <1>5, <1>6, <1>7, <1>8, <1>9, <1>10, <1>11, <1>12, <1>13
  DEF QueueNext, KthreadStep, CallerStep, ScheduleStep, QueueCall

\* Each debt of a flush is a run still to come: the current one belongs to
\* the item that runs, a first one to a queued item, a second one to an item
\* a callback has queued again.
DebtStands(t, i) ==
    /\ i \in owed[t].current => Runs(i) /\ rounds[t] = 2
    /\ i \in owed[t].first =>
          /\ rounds[t] = 2
          /\ In(q_list, i) \/ (Runs(i) /\ i \notin owed[t].current)
    /\ i \in owed[t].second =>
          /\ rounds[t] > 0
          /\ In(q_list, i) \/ (Runs(i) /\ i \notin owed[t].current \cup owed[t].first)
    /\ i \in owed[t].first \cap owed[t].second =>
          Runs(i) /\ i \notin owed[t].current

\* The first debts are ahead of the flush item of the first round, the second
\* ones ahead of that of the second round.
DebtAhead(t, i) ==
    /\ i \in owed[t].current => ~completed[t]
    /\ i \in owed[t].first =>
          /\ ~completed[t] /\ ~Runs(t)
          /\ In(q_list, t) =>
                Before(q_list, i, t) \/ (Runs(i) /\ i \notin owed[t].current)
    /\ i \in owed[t].second /\ rounds[t] = 1 =>
          /\ ~completed[t] /\ ~Runs(t)
          /\ In(q_list, t) => Before(q_list, i, t) \/ Runs(i)

Debts == \A t \in Callers, i \in Items : DebtStands(t, i) /\ DebtAhead(t, i)

QInv == QueueTypeOK /\ FlushShape /\ CallShape /\ FlushItems /\ Debts

LEMMA DebtsStep == QInv /\ [QueueNext]_q_vars => Debts'
<1> SUFFICES ASSUME QInv, [QueueNext]_q_vars,
                    NEW t \in Callers, NEW i \in Items
             PROVE  DebtStands(t, i)' /\ DebtAhead(t, i)'
  BY DEF Debts
<1> USE ActorsApart DEF DebtStands, DebtAhead, Runs
<1>t. QueueTypeOK /\ DebtStands(t, i) /\ DebtAhead(t, i)
  BY DEF QInv, Debts
<1>r. rounds[t] \in 0 .. 2
  BY DEF QInv, QueueTypeOK, FlushRounds
\* Steps that leave the list, the debts and what runs alone.
<1>a. ASSUME UNCHANGED <<q_list, running, completed, owed, rounds>>,
             q_pc[Kthread] \in {"run", "add", "up"} <=> q_pc'[Kthread] \in {"run", "add", "up"}
      PROVE  DebtStands(t, i)' /\ DebtAhead(t, i)'
  BY <1>t, <1>a
\* The kthread has finished with the item it ran.
<1>b. ASSUME q_pc[Kthread] \in {"run", "add", "up"}, running \in Items,
             q_pc'[Kthread] = "down", owed' = SettleRun(running),
             UNCHANGED <<q_list, running, completed, rounds>>
      PROVE  DebtStands(t, i)' /\ DebtAhead(t, i)'
  <2>1. /\ i \in owed'[t].current => i \in owed[t].current /\ running \notin owed[t].current
        /\ i \in owed'[t].first
              <=> i \in owed[t].first /\ ~(i = running /\ running \notin owed[t].current)
        /\ i \in owed'[t].second
              <=> i \in owed[t].second
                  /\ ~(i = running /\ running \notin owed[t].current \cup owed[t].first)
    BY <1>t, <1>b, DebtsMove
  <2>2. QED BY <1>t, <1>b, <2>1
<1>1. ASSUME NEW a \in Actors, _raw_q_schedule_insert(a)
      PROVE  DebtStands(t, i)' /\ DebtAhead(t, i)'
  <2>1. arg[a] \in QItems /\ ~In(q_list, arg[a]) /\ q_list' = Append(q_list, arg[a])
    BY <1>1, <1>t DEF _raw_q_schedule_insert, QueueTypeOK, IsPending, In
  <2>2. /\ \A j : In(q_list', j) <=> In(q_list, j) \/ j = arg[a]
        /\ Before(q_list, i, t) => Before(q_list', i, t)
        /\ In(q_list, i) => Before(q_list', i, arg[a])
    BY <1>t, <2>1, InsertAtTail DEF QueueTypeOK, QInv, FlushItems
  <2>3. /\ q_pc[a] = "add" /\ q_pc'[a] = "up" /\ \A b \in Actors \ {a} : q_pc'[b] = q_pc[b]
        /\ UNCHANGED <<arg, running, completed, rounds>>
    BY <1>1, <1>t DEF _raw_q_schedule_insert, QueueTypeOK
  <2>4. Runs(i)' <=> Runs(i)
    BY <2>3
  <2>5. /\ owed'[t].current = owed[t].current /\ owed'[t].first = owed[t].first
        /\ i \in owed'[t].second
              <=> \/ i \in owed[t].second
                  \/ /\ i = arg[a] /\ a = Kthread /\ arg[a] \in Items
                     /\ running \in owed[t].current \cup owed[t].first
    <3>1. OweInserted(a, arg[a]) /\ QueueTypeOK
      BY <1>1, <1>t, Zenon DEF _raw_q_schedule_insert
    <3>2. QED BY <3>1, <1>t, DebtInserted
  <2>6. arg[a] = t => a = t /\ ~completed[t] /\ ~Runs(t)
    <3>1. arg[a] \in Items \cup {a}
      BY <2>3 DEF QInv, CallShape, Actors
    <3>2. QED BY <2>3, <3>1 DEF QInv, FlushItems, InFlight
  <2>7. Runs(t)' <=> Runs(t)
    BY <2>3
  <2>8. running \in owed[t].current \cup owed[t].first => rounds[t] = 2
    BY <1>t DEF QInv, Debts, Owed, QueueTypeOK
  <2>9. QED BY <1>t, <1>r, <2>1, <2>2, <2>3, <2>4, <2>5, <2>6, <2>7, <2>8
<1>2. ASSUME NEW a \in Actors, _raw_q_schedule_pending(a) \/ _raw_q_schedule_up(a)
      PROVE  DebtStands(t, i)' /\ DebtAhead(t, i)'
  <2>1. /\ q_pc[a] \in {"add", "up"} /\ q_pc'[a] = AfterSchedule(a)
        /\ \A b \in Actors \ {a} : q_pc'[b] = q_pc[b]
        /\ UNCHANGED <<arg, running, completed, q_list, rounds>>
        /\ owed' = IF a = Kthread THEN SettleRun(running) ELSE owed
    BY <1>2, <1>t DEF _raw_q_schedule_pending, _raw_q_schedule_up, QueueTypeOK
  <2>2. CASE a = Kthread
    BY <1>b, <2>1, <2>2 DEF AfterSchedule, QInv, CallShape
  <2>3. CASE a # Kthread
    BY <1>a, <2>1, <2>3
  <2>4. QED BY <2>2, <2>3
<1>4. ASSUME NEW u \in Callers, wait_for_completion(u)
      PROVE  DebtStands(t, i)' /\ DebtAhead(t, i)'
  <2>1. /\ completed[u] /\ ~completed'[u] /\ q_pc[u] = "wait"
        /\ rounds'[u] = rounds[u] - 1
        /\ \A b \in Actors \ {u} : q_pc'[b] = q_pc[b]
        /\ \A v \in Callers \ {u} : completed'[v] = completed[v] /\ rounds'[v] = rounds[v]
        /\ UNCHANGED <<arg, running, q_list, owed>>
    BY <1>4, <1>t DEF wait_for_completion, QueueTypeOK
  <2>2. ~In(q_list, u) /\ ~Runs(u)
    BY <2>1 DEF QInv, FlushItems
  <2>3. rounds[u] \in 1 .. 2
    BY <2>1, <1>t DEF QInv, FlushShape, QueueTypeOK, FlushRounds
  <2>4. QED BY <1>t, <1>r, <2>1, <2>2, <2>3
<1>5. ASSUME NEW u \in Callers, StopSetExit(u) \/ StopWake(u) \/ StopJoin(u)
      PROVE  DebtStands(t, i)' /\ DebtAhead(t, i)'
  BY <1>5, <1>a, <1>t DEF StopSetExit, StopWake, StopJoin, QueueTypeOK
<1>6. ASSUME NEW u \in Callers, NEW j \in Items, nv_kthread_q_schedule_q_item(u, j)
      PROVE  DebtStands(t, i)' /\ DebtAhead(t, i)'
  BY <1>6, <1>a, <1>t DEF nv_kthread_q_schedule_q_item, QueueTypeOK
<1>7. ASSUME NEW u \in Callers, nv_kthread_q_flush(u) \/ nv_kthread_q_stop(u)
      PROVE  DebtStands(t, i)' /\ DebtAhead(t, i)'
  <2>1. /\ q_pc[u] = "idle" /\ rounds'[u] = 2 /\ owed'[u] = OwedNow
        /\ \A b \in Actors \ {u} : q_pc'[b] = q_pc[b]
        /\ \A v \in Callers \ {u} : owed'[v] = owed[v] /\ rounds'[v] = rounds[v]
        /\ UNCHANGED <<running, q_list, completed>>
    BY <1>7, <1>t DEF nv_kthread_q_flush, nv_kthread_q_stop, StartFlush, QueueTypeOK, FlushRounds
  <2>2. ~In(q_list, u) /\ ~Runs(u) /\ ~completed[u]
    BY <2>1 DEF QInv, FlushItems, InFlight
  <2>3. /\ i \in OwedNow.current <=> Runs(i)
        /\ i \in OwedNow.first <=> In(q_list, i)
        /\ OwedNow.second = {}
    BY DEF OwedNow, IsPending, In
  <2>4. CASE t = u BY <2>1, <2>2, <2>3, <2>4
  <2>5. CASE t # u BY <1>t, <2>1, <2>5
  <2>6. QED BY <2>4, <2>5
<1>8. CASE MainLoopDown \/ MainLoopCheck
  BY <1>8, <1>a, <1>t DEF MainLoopDown, MainLoopCheck, KGoto, QueueTypeOK
<1>9. CASE MainLoopPop
  <2>1. CASE q_list = <<>>
    BY <1>9, <2>1, <1>a, <1>t DEF MainLoopPop, KGoto, QueueTypeOK
  <2>2. CASE q_list # <<>>
    <3>1. /\ q_pc[Kthread] = "pop" /\ q_pc'[Kthread] = "run" /\ running' = Head(q_list)
          /\ q_list' = Tail(q_list) /\ UNCHANGED <<arg, completed, rounds, owed>>
      BY <1>9, <2>2, <1>t DEF MainLoopPop, KGoto, QueueTypeOK
    <3>2. /\ In(q_list, running')
          /\ \A j : In(q_list', j) <=> In(q_list, j) /\ j # running'
          /\ Before(q_list, i, t) =>
                t # running' /\ (i = running' \/ Before(q_list', i, t))
      BY <2>2, <3>1, <1>t, TakeHead DEF QueueTypeOK, QInv, FlushItems
    <3>3. In(q_list, t) => ~completed[t]
      BY DEF QInv, FlushItems
    <3>4. QED BY <1>t, <3>1, <3>2, <3>3
  <2>3. QED BY <2>1, <2>2
<1>10. CASE _q_flush_function
  <2>1. /\ q_pc[Kthread] = "run" /\ q_pc'[Kthread] = "down" /\ running \in Callers
        /\ UNCHANGED <<running, q_list, owed, rounds>>
        /\ completed'[running] /\ \A u \in Callers \ {running} : completed'[u] = completed[u]
    BY <1>10, <1>t DEF _q_flush_function, KGoto, QueueTypeOK
  <2>2. QED BY <1>t, <2>1
<1>11. CASE CallbackReturns
  <2>1. /\ q_pc[Kthread] = "run" /\ q_pc'[Kthread] = "down" /\ running \in Items
        /\ owed' = SettleRun(running) /\ UNCHANGED <<q_list, running, completed, rounds>>
    BY <1>11, <1>t DEF CallbackReturns, KGoto, QueueTypeOK
  <2>2. QED BY <1>b, <2>1
<1>12. ASSUME NEW j \in Items, CallbackReschedules(j)
       PROVE  DebtStands(t, i)' /\ DebtAhead(t, i)'
  BY <1>12, <1>a, <1>t DEF CallbackReschedules, KGoto, QueueTypeOK
<1>13. CASE SetStopRescheduling \/ UNCHANGED q_vars
  BY <1>13, <1>a DEF SetStopRescheduling, q_vars
<1>14. CASE Reinit
  <2>1. owed'[t] = NothingOwed
    BY <1>14 DEF Reinit
  <2>2. QED BY <2>1 DEF NothingOwed
<1>15. QED
  BY <1>1, <1>2, <1>4, <1>5, <1>6, <1>7, <1>8, <1>9, <1>10, <1>11, <1>12, <1>13, <1>14
  DEF QueueNext, KthreadStep, CallerStep, ScheduleStep, QueueCall

\* Once a stop has begun nobody else calls, no callback starts to schedule,
\* and its second raw flush leaves the list empty and the kthread idle.
Idle == q_pc[Kthread] \notin {"run", "add", "up"}

StopRound(t) ==
    /\ stop_rescheduling
    /\ q_pc[t] # "idle"
    /\ q_pc[t] \in {"add", "up"} => arg[t] = t
    /\ \A u \in Callers \ {t} : q_pc[u] = "idle" /\ u \notin stopping
    /\ q_pc[Kthread] = "add" => rounds[t] = 2 /\ ~completed[t]
    /\ rounds[t] = 1 /\ In(q_list, t) =>
          \A i \in QItems : In(q_list, i) => i = t \/ Before(q_list, i, t)
    /\ rounds[t] = 1 /\ Runs(t) => q_list = <<>>
    /\ rounds[t] = 1 /\ completed[t] => q_list = <<>> /\ Idle
    /\ q_pc[t] = "set_exit" => q_list = <<>> /\ Idle

StopShape ==
    /\ main_loop_should_exit => \E t \in stopping : q_pc[t] \in {"stop_up", "join", "stopped"}
    /\ \A t \in Callers :
          q_pc[t] \in {"set_exit", "stop_up", "join", "stopped"} => t \in stopping
    /\ \A t \in stopping : StopRound(t)
    /\ StopDrains

\* An empty list is one in which nothing is; only a head goes before nothing.
LEMMA LastTaken ==
  ASSUME NEW q \in Seq(QItems), q # <<>>, Unique(q), NEW t,
         \A i \in QItems : In(q, i) => i = t \/ Before(q, i, t), Head(q) = t
  PROVE  Tail(q) = <<>>
<1>1. /\ Tail(q) \in Seq(QItems)
      /\ \A i : In(Tail(q), i) <=> In(q, i) /\ i # t
      /\ \A i : ~Before(q, i, t)
  BY TakeHead
<1>2. \A i \in QItems : ~In(Tail(q), i)
  BY <1>1
<1>3. ASSUME Tail(q) # <<>> PROVE FALSE
  <2>1. 1 \in 1 .. Len(Tail(q)) /\ Tail(q)[1] \in QItems
    BY <1>1, <1>3
  <2>2. In(Tail(q), Tail(q)[1])
    BY <2>1 DEF In
  <2>3. QED BY <1>2, <2>1, <2>2
<1>4. QED BY <1>3

LEMMA StopStep ==
  QInv /\ SemaphoreCountsItems /\ StopShape /\ [QueueNext]_q_vars => StopShape'
<1> SUFFICES ASSUME QInv, SemaphoreCountsItems, StopShape, [QueueNext]_q_vars
             PROVE  StopShape'
  OBVIOUS
<1> USE ActorsApart DEF StopShape, StopRound, StopDrains, Idle, Runs
<1>t. /\ QueueTypeOK /\ stopping \subseteq Callers
      /\ q_pc \in [Actors -> CallerPCs \cup KthreadPCs]
           /\ arg \in [Actors -> QItems \cup {Kthread}]
      /\ rounds \in [Callers -> 0 .. 2] /\ completed \in [Callers -> BOOLEAN]
      /\ q_list \in Seq(QItems) /\ main_loop_should_exit \in BOOLEAN
  BY DEF QInv, QueueTypeOK, FlushRounds
<1>1. ASSUME NEW a \in Actors, _raw_q_schedule_insert(a)
      PROVE  StopShape'
  <2>1. arg[a] \in QItems /\ ~In(q_list, arg[a]) /\ q_list' = Append(q_list, arg[a])
    BY <1>1, <1>t DEF _raw_q_schedule_insert, QueueTypeOK, IsPending, In
  <2>2. /\ \A j : In(q_list', j) <=> In(q_list, j) \/ j = arg[a]
        /\ \A j : In(q_list, j) => Before(q_list', j, arg[a])
    BY <1>t, <2>1, InsertAtTail DEF QInv, FlushItems
  <2>3. /\ q_pc[a] = "add" /\ q_pc'[a] = "up" /\ \A b \in Actors \ {a} : q_pc'[b] = q_pc[b]
        /\ UNCHANGED <<arg, running, completed, rounds, stopping, stop_rescheduling,
                       main_loop_should_exit>>
    BY <1>1, <1>t DEF _raw_q_schedule_insert, QueueTypeOK
  <2>4. a = Kthread \/ a \in Callers
    BY DEF Actors
  <2>5. ~main_loop_should_exit
    BY <1>t, <2>3, <2>4
  <2>6. \A t \in stopping : a = t => arg[a] = t /\ ~Runs(t) /\ ~completed[t]
    BY <1>t, <2>3 DEF QInv, FlushItems, InFlight
  <2>7. \A t \in stopping : a = t \/ (a = Kthread /\ rounds[t] = 2)
    BY <1>t, <2>3, <2>4
  <2>8. QED BY <1>t, <2>2, <2>3, <2>5, <2>6, <2>7
<1>2. ASSUME NEW a \in Actors, _raw_q_schedule_pending(a) \/ _raw_q_schedule_up(a)
      PROVE  StopShape'
  <2>1. /\ q_pc[a] \in {"add", "up"} /\ q_pc'[a] = AfterSchedule(a)
        /\ \A b \in Actors \ {a} : q_pc'[b] = q_pc[b]
        /\ UNCHANGED <<arg, running, completed, q_list, rounds, stopping, stop_rescheduling,
                       main_loop_should_exit>>
    BY <1>2, <1>t DEF _raw_q_schedule_pending, _raw_q_schedule_up, QueueTypeOK
  <2>2. a = Kthread \/ a \in Callers
    BY DEF Actors
  <2>3. ~main_loop_should_exit
    BY <1>t, <2>1, <2>2
  <2>4. CASE a = Kthread
    <3>1. q_pc'[Kthread] = "down" /\ \A t \in Callers : q_pc'[t] = q_pc[t]
      BY <2>1, <2>4 DEF AfterSchedule
    <3>2. QED BY <1>t, <2>1, <2>3, <3>1
  <2>5. CASE a \in Callers
    <3>1. q_pc'[Kthread] = q_pc[Kthread] /\ q_pc'[a] \in {"wait", "idle"}
      BY <2>1, <2>5 DEF AfterSchedule
    <3>2. \A t \in stopping : t = a /\ q_pc'[t] = "wait"
      BY <1>t, <2>1, <2>5 DEF AfterSchedule
    <3>3. QED BY <1>t, <2>1, <2>3, <2>5, <3>1, <3>2
  <2>6. QED BY <2>2, <2>4, <2>5
<1>3. ASSUME NEW t \in Callers, wait_for_completion(t)
      PROVE  StopShape'
  <2>1. /\ q_pc[t] = "wait" /\ completed[t] /\ ~completed'[t] /\ arg[t] = t
        /\ rounds[t] \in 1 .. 2 /\ rounds'[t] = rounds[t] - 1
        /\ q_pc'[t] = IF rounds[t] > 1 THEN "add" ELSE IF t \in stopping THEN "set_exit" ELSE "idle"
        /\ \A b \in Actors \ {t} : q_pc'[b] = q_pc[b]
        /\ UNCHANGED <<arg, running, q_list, stopping, stop_rescheduling, main_loop_should_exit>>
    BY <1>3, <1>t DEF wait_for_completion, QueueTypeOK, QInv, FlushShape
  <2>2. ~In(q_list, t) /\ ~Runs(t)
    BY <2>1 DEF QInv, FlushItems
  <2>3. ~main_loop_should_exit /\ \A u \in stopping : u = t
    BY <1>t, <2>1
  <2>4. QED BY <1>t, <2>1, <2>2, <2>3
<1>4. ASSUME NEW t \in Callers, StopSetExit(t)
      PROVE  StopShape'
  <2>1. /\ q_pc[t] = "set_exit" /\ q_pc'[t] = "stop_up" /\ t \in stopping
        /\ \A b \in Actors \ {t} : q_pc'[b] = q_pc[b]
        /\ UNCHANGED <<arg, running, completed, q_list, rounds, stopping, stop_rescheduling>>
    BY <1>4, <1>t DEF StopSetExit, QueueTypeOK
  <2>2. ~main_loop_should_exit /\ q_list = <<>> /\ Idle /\ \A u \in stopping : u = t
    BY <1>t, <2>1
  <2>3. q_pc[Kthread] \notin {"check", "pop"}
    <3>1. q_sem + Cardinality(Ups) + Awake = 0
      BY <2>2 DEF SemaphoreCountsItems
    <3>2. q_sem \in Nat /\ Cardinality(Ups) \in Nat /\ Awake \in {0, 1}
      BY <1>t, UpsFinite DEF QueueTypeOK, Awake
    <3>3. Awake = 0 BY <3>1, <3>2
    <3>4. QED BY <3>3 DEF Awake
  <2>4. q_pc[Kthread] \in {"down", "exited"}
    BY <1>t, <2>2, <2>3 DEF QueueTypeOK, KthreadPCs
  <2>5. QED BY <1>t, <2>1, <2>2, <2>4
<1>5. ASSUME NEW t \in Callers, StopWake(t) \/ StopJoin(t)
      PROVE  StopShape'
  <2>1. /\ q_pc[t] \in {"stop_up", "join"} /\ q_pc'[t] \in {"join", "stopped"} /\ t \in stopping
        /\ \A b \in Actors \ {t} : q_pc'[b] = q_pc[b]
        /\ UNCHANGED <<arg, running, completed, q_list, rounds, stopping, stop_rescheduling,
                       main_loop_should_exit>>
    BY <1>5, <1>t DEF StopWake, StopJoin, QueueTypeOK
  <2>2. QED BY <1>t, <2>1
<1>6. ASSUME NEW t \in Callers,
             nv_kthread_q_flush(t) \/ \E i \in Items : nv_kthread_q_schedule_q_item(t, i)
      PROVE  StopShape'
  <2>1. /\ stopping = {} /\ stopping' = {} /\ ~main_loop_should_exit'
        /\ q_pc' = [q_pc EXCEPT ![t] = "add"]
    BY <1>6 DEF nv_kthread_q_flush, StartFlush, nv_kthread_q_schedule_q_item, NotStopping
  <2>2. QED BY <1>t, <2>1
<1>7. ASSUME NEW t \in Callers, nv_kthread_q_stop(t)
      PROVE  StopShape'
  <2>1. /\ stopping' = {t} /\ ~main_loop_should_exit' /\ stop_rescheduling'
        /\ q_pc'[t] = "add" /\ arg'[t] = t /\ rounds'[t] = 2 /\ completed' = completed
        /\ \A u \in Callers : q_pc[u] = "idle" /\ (u # t => q_pc'[u] = "idle")
    BY <1>7, <1>t DEF nv_kthread_q_stop, StartFlush, FlushRounds, QueueTypeOK
  <2>2. ~completed[t]
    BY <2>1 DEF QInv, FlushItems, InFlight
  <2>3. QED BY <2>1, <2>2
<1>8. CASE MainLoopDown \/ MainLoopCheck
  <2>1. /\ q_pc[Kthread] \in {"down", "check"} /\ q_pc'[Kthread] \in {"check", "pop", "exited"}
        /\ main_loop_should_exit => q_pc'[Kthread] # "pop"
        /\ \A t \in Callers : q_pc'[t] = q_pc[t]
        /\ UNCHANGED <<arg, running, completed, q_list, rounds, stopping, stop_rescheduling,
                       main_loop_should_exit>>
    BY <1>8, <1>t DEF MainLoopDown, MainLoopCheck, KGoto, QueueTypeOK
  <2>2. QED BY <1>t, <2>1
<1>9. CASE MainLoopPop
  <2>1. /\ q_pc[Kthread] = "pop" /\ ~main_loop_should_exit
        /\ \A t \in Callers : q_pc'[t] = q_pc[t]
        /\ UNCHANGED <<arg, completed, rounds, stopping, stop_rescheduling, main_loop_should_exit>>
    BY <1>9, <1>t DEF MainLoopPop, KGoto, QueueTypeOK
  <2>2. CASE q_list = <<>>
    <3>1. q_pc'[Kthread] = "down" /\ UNCHANGED <<running, q_list>>
      BY <1>9, <1>t, <2>2 DEF MainLoopPop, KGoto, QueueTypeOK
    <3>2. QED BY <1>t, <2>1, <2>2, <3>1
  <2>3. CASE q_list # <<>>
    <3>1. q_pc'[Kthread] = "run" /\ running' = Head(q_list) /\ q_list' = Tail(q_list)
      BY <1>9, <1>t, <2>3 DEF MainLoopPop, KGoto, QueueTypeOK
    <3>2. /\ In(q_list, running') /\ Unique(q_list)
          /\ \A j : In(q_list', j) <=> In(q_list, j) /\ j # running'
          /\ \A i, j : Before(q_list, i, j) =>
                j # running' /\ (i = running' \/ Before(q_list', i, j))
      BY <2>3, <3>1, <1>t, TakeHead DEF QInv, FlushItems
    <3>3. \A t \in stopping : rounds[t] = 1 /\ running' = t => q_list' = <<>>
      BY <1>t, <2>3, <3>1, <3>2, LastTaken
    <3>4. QED BY <1>t, <2>1, <2>3, <3>1, <3>2, <3>3
  <2>4. QED BY <2>2, <2>3
<1>10. CASE _q_flush_function
  <2>1. /\ q_pc[Kthread] = "run" /\ q_pc'[Kthread] = "down" /\ running \in Callers
        /\ ~main_loop_should_exit
        /\ \A t \in Callers : q_pc'[t] = q_pc[t]
        /\ \A t \in Callers \ {running} : completed'[t] = completed[t]
        /\ UNCHANGED <<arg, running, q_list, rounds, stopping, stop_rescheduling,
                       main_loop_should_exit>>
    BY <1>10, <1>t DEF _q_flush_function, KGoto, QueueTypeOK
  <2>2. QED BY <1>t, <2>1
<1>11. CASE CallbackReturns
  <2>1. /\ q_pc[Kthread] = "run" /\ q_pc'[Kthread] = "down" /\ ~main_loop_should_exit
        /\ \A t \in Callers : q_pc'[t] = q_pc[t]
        /\ UNCHANGED <<arg, running, completed, q_list, rounds, stopping, stop_rescheduling,
                       main_loop_should_exit>>
    BY <1>11, <1>t DEF CallbackReturns, KGoto, QueueTypeOK
  <2>2. QED BY <1>t, <2>1
<1>12. ASSUME NEW i \in Items, CallbackReschedules(i)
       PROVE  StopShape'
  <2>1. /\ stopping = {} /\ UNCHANGED <<stopping, main_loop_should_exit>>
        /\ ~main_loop_should_exit /\ \A t \in Callers : q_pc'[t] = q_pc[t]
    BY <1>12, <1>t DEF CallbackReschedules, KGoto, QueueTypeOK
  <2>2. QED BY <1>t, <2>1
<1>13. CASE SetStopRescheduling
  BY <1>13, <1>t DEF SetStopRescheduling, NotStopping
<1>14. CASE Reinit
  <2>1. stopping' = {} /\ ~main_loop_should_exit' /\ \A t \in Callers : q_pc'[t] = "idle"
    BY <1>14 DEF Reinit, FreshPC, Actors
  <2>2. QED BY <2>1
<1>15. CASE UNCHANGED q_vars
  BY <1>15, <1>t DEF q_vars
<1> HIDE DEF StopShape
<1>16. QED
  BY <1>1, <1>2, <1>3, <1>4, <1>5, <1>6, <1>7, <1>8, <1>9, <1>10, <1>11, <1>12, <1>13,
     <1>14, <1>15
  DEF QueueNext, KthreadStep, CallerStep, ScheduleStep, QueueCall

\* The conjunction of all of these is inductive.
QueueInv == QInv /\ SemaphoreCountsItems /\ StopShape

LEMMA InitQueueInv == QueueInit => QueueInv
<1> SUFFICES ASSUME QueueInit PROVE QueueInv
  OBVIOUS
<1> USE ActorsApart DEF QueueInit, nv_kthread_q_init
<1>1. QueueTypeOK /\ FlushShape /\ SemaphoreCountsItems
  BY InitIInv DEF IInv
<1>2. /\ q_pc[Kthread] = "down" /\ q_list = <<>> /\ running = Kthread /\ stopping = {}
      /\ ~main_loop_should_exit
      /\ \A t \in Callers :
            q_pc[t] = "idle" /\ rounds[t] = 0 /\ ~completed[t] /\ owed[t] = NothingOwed
  BY DEF FreshPC, Actors
<1>3. Unique(q_list) /\ \A i : ~In(q_list, i)
  BY <1>2 DEF Unique, In
<1>4. CallShape /\ FlushItems
  BY <1>2, <1>3 DEF CallShape, FlushItems, Runs, InFlight
<1>5. Debts
  BY <1>2 DEF Debts, DebtStands, DebtAhead, NothingOwed
<1>6. StopShape
  BY <1>2 DEF StopShape, StopDrains
<1>7. QED BY <1>1, <1>4, <1>5, <1>6 DEF QueueInv, QInv

\* The inductive invariant holds in every reachable state.
LEMMA Invariance == QueueSpec => []QueueInv
<1>1. QueueInv /\ [QueueNext]_q_vars => QueueInv'
  BY TypeStep, CountStep, CallStep, ItemsStep, DebtsStep, StopStep DEF QueueInv, QInv, IInv
<1>2. QED BY <1>1, InitQueueInv, PTL DEF QueueSpec

(***************************************************************************)
(* The queue's variables keep their types, for any number of items and of  *)
(* calling threads.                                                        *)
(***************************************************************************)
THEOREM TypeCorrect == QueueSpec => []QueueTypeOK
BY Invariance, PTL DEF QueueInv, QInv

(***************************************************************************)
(* The counting semaphore matches the list exactly, whatever the number of *)
(* items and threads that schedule, flush, stop and reschedule.            *)
(***************************************************************************)
THEOREM SemaphoreExact == QueueSpec => []SemaphoreCountsItems
BY Invariance, PTL DEF QueueInv

(***************************************************************************)
(* nv_kthread_q_flush keeps its promise for any number of items, callers   *)
(* and callbacks that queue items again: when its second raw flush has     *)
(* completed, everything that was running or queued at the call, and what  *)
(* those callbacks queued, has run.                                        *)
(***************************************************************************)
THEOREM FlushIsThorough == QueueSpec => []FlushWaitsForItems
<1>1. QueueInv => FlushWaitsForItems
  <2> SUFFICES ASSUME QueueInv, NEW t \in Callers,
                      completed[t], rounds[t] = 1
               PROVE  owed[t] = NothingOwed
    BY DEF FlushWaitsForItems
  <2>1. \A i \in Items : DebtStands(t, i) /\ DebtAhead(t, i)
    BY DEF QueueInv, QInv, Debts
  <2>2. owed[t] \in Owed
    BY DEF QueueInv, QInv, QueueTypeOK
  <2>3. /\ owed[t].current \subseteq Items /\ owed[t].first \subseteq Items
        /\ owed[t].second \subseteq Items
    BY <2>2 DEF Owed
  <2>4. owed[t].current = {} /\ owed[t].first = {} /\ owed[t].second = {}
    BY <2>1, <2>3 DEF DebtStands, DebtAhead
  <2>5. QED BY <2>2, <2>4 DEF Owed, NothingOwed
<1>2. QED BY <1>1, Invariance, PTL

(***************************************************************************)
(* nv_kthread_q_stop leaves nothing behind: once the exit is requested the *)
(* list is empty and no callback runs, for any number of items and         *)
(* callers.                                                                *)
(***************************************************************************)
THEOREM StopLeavesNothing == QueueSpec => []StopDrains
<1>1. QueueInv => StopDrains
  BY DEF QueueInv, StopShape
<1>2. QED BY <1>1, Invariance, PTL

=============================================================================
