---------------------- MODULE TrackingSemaphore_proofs ----------------------
(***************************************************************************)
(* The 64-bit completed value recovered from the 32-bit payload is exact   *)
(* for any width of the payload and any number of threads, provided fewer  *)
(* pushes than the payload has values are pending.                         *)
(***************************************************************************)
EXTENDS TrackingSemaphore, TLAPS

\* What the window gives an update in progress.
Progress ==
    /\ completed_value <= released
    /\ released <= queued_value
    /\ queued_value - completed_value <= Window
    /\ payload = released % PayloadRange

\* The lock serialises updates.
Locked == \A t \in Waiters : s_pc[t] \in {"read", "set"} => lock = t

\* An update in progress holds the payload of some value released since.
InUpdate ==
    \A t \in Waiters :
        s_pc[t] = "set" =>
            /\ old_value[t] = completed_value
            /\ \E g \in completed_value .. released :
                   new_sem_value[t] = g % PayloadRange

IInv == SemTypeOK /\ Progress /\ Locked /\ InUpdate /\ ToldIsReleased

\* Two values less than a period apart differ by at most one in quotient.
LEMMA Quotients ==
  ASSUME NEW R \in Nat, NEW a \in Int, NEW b \in Int, NEW i \in Int, NEW j \in Int,
         0 <= i, i < R, 0 <= j, j < R, R * a + i <= R * b + j,
         R * b + j < R * a + i + R
  PROVE  b = a \/ b = a + 1
<1>1. CASE b <= a - 1
  <2>1. R * b <= R * (a - 1) BY <1>1
  <2>2. R * (a - 1) = R * a - R OBVIOUS
  <2>3. QED BY <2>1, <2>2
<1>2. CASE b >= a + 2
  <2>1. R * b >= R * (a + 2) BY <1>2
  <2>2. R * (a + 2) = R * a + 2 * R OBVIOUS
  <2>3. QED BY <2>1, <2>2
<1>3. QED BY <1>1, <1>2

\* Extending the payload of g from c gives g itself.
LEMMA ExtendExact ==
  ASSUME NEW c \in Nat, NEW g \in Nat, c <= g, g - c < PayloadRange
  PROVE  Extend(c, g % PayloadRange) = g
<1> DEFINE R == PayloadRange
           a == c \div R
           b == g \div R
           i == c % R
           j == g % R
<1>0. R \in Nat /\ R > 0
  BY TrackingSemaphoreAssumption
<1>1. a \in Int /\ i \in 0 .. (R - 1) /\ c = R * a + i
  BY <1>0
<1>2. b \in Int /\ j \in 0 .. (R - 1) /\ g = R * b + j
  BY <1>0
<1> HIDE DEF R, a, b, i, j
<1>3. b = a \/ b = a + 1
  BY <1>0, <1>1, <1>2, Quotients DEF R
<1>4. R * (a + 1) = R * a + R
  BY <1>0, <1>1
<1>5. R * a \in Int
  BY <1>0, <1>1
<1>6. (c - i) + j + (IF j < i THEN R ELSE 0) = g
  <2>1. CASE b = a
    BY <1>0, <1>1, <1>2, <1>5, <2>1
  <2>2. CASE b = a + 1
    <3>1. g = R * a + R + j BY <1>2, <1>4, <2>2
    <3>2. j < i BY <1>0, <1>1, <1>2, <1>5, <3>1 DEF R
    <3>3. QED BY <1>0, <1>1, <1>2, <1>5, <3>1, <3>2
  <2>3. QED BY <1>3, <2>1, <2>2
<1>7. QED BY <1>6 DEF Extend, R, i, j
\* A newly allocated semaphore satisfies the inductive invariant.
LEMMA InitIInv == SemInit => IInv
<1>1. SUFFICES ASSUME SemInit PROVE IInv
  OBVIOUS
<1>2. 0 % PayloadRange = 0 /\ 0 \in 0 .. (PayloadRange - 1)
  BY TrackingSemaphoreAssumption
<1>3. \A t \in Waiters : s_pc[t] = "idle" /\ value[t] = 0
  BY <1>1 DEF SemInit
<1>4. SemTypeOK /\ Progress
  BY <1>1, <1>2, TrackingSemaphoreAssumption DEF SemInit, SemTypeOK, Progress
<1>5. Locked /\ InUpdate /\ ToldIsReleased
  BY <1>1, <1>3 DEF SemInit, Locked, InUpdate, ToldIsReleased
<1>6. QED BY <1>4, <1>5 DEF IInv

\* The store of an update is exact: it is a value the GPU has released, and
\* not less than the value it replaces.
LEMMA StoreExact ==
  ASSUME IInv, NEW t \in Waiters, s_pc[t] = "set"
  PROVE  /\ Extend(old_value[t], new_sem_value[t]) \in Nat
         /\ completed_value <= Extend(old_value[t], new_sem_value[t])
         /\ Extend(old_value[t], new_sem_value[t]) <= released
<1>1. PICK g \in completed_value .. released : new_sem_value[t] = g % PayloadRange
  BY DEF IInv, InUpdate
<1>2. /\ completed_value \in Nat /\ released \in Nat /\ queued_value \in Nat
      /\ Window \in Nat /\ PayloadRange \in Nat /\ Window < PayloadRange
  BY TrackingSemaphoreAssumption DEF IInv, SemTypeOK
<1>3. g \in Nat /\ completed_value <= g /\ g <= released /\ g - completed_value < PayloadRange
  BY <1>1, <1>2 DEF IInv, Progress
<1>4. Extend(completed_value, g % PayloadRange) = g
  BY <1>2, <1>3, ExtendExact
<1>5. old_value[t] = completed_value
  BY DEF IInv, InUpdate
<1>6. QED BY <1>1, <1>3, <1>4, <1>5

\* Every step of the GPU, the channel and the threads preserves it.
LEMMA IInvStep == IInv /\ [SemNext]_sem_vars => IInv'
<1> SUFFICES ASSUME IInv, [SemNext]_sem_vars
             PROVE  IInv'
  OBVIOUS
<1> USE TrackingSemaphoreAssumption
    DEF IInv, SemTypeOK, Progress, Locked, InUpdate, ToldIsReleased
<1>1. CASE QueueRelease
  BY <1>1 DEF QueueRelease
<1>2. CASE GpuRelease
  <2>1. (released + 1) % PayloadRange \in 0 .. (PayloadRange - 1)
    OBVIOUS
  <2>2. SemTypeOK' /\ Progress' /\ Locked' /\ ToldIsReleased'
    BY <1>2, <2>1 DEF GpuRelease
  <2>3. completed_value .. released \subseteq completed_value' .. released'
    BY <1>2 DEF GpuRelease
  <2>4. InUpdate'
    BY <1>2, <2>3 DEF GpuRelease
  <2>5. QED BY <2>2, <2>4
<1>3. ASSUME NEW t \in Waiters, uvm_gpu_tracking_semaphore_is_value_completed(t)
      PROVE  IInv'
  <2>1. \/ s_pc' = [s_pc EXCEPT ![t] = "lock"]
        \/ s_pc' = [s_pc EXCEPT ![t] = "idle"] /\ value[t] <= completed_value
    BY <1>3 DEF uvm_gpu_tracking_semaphore_is_value_completed, WaiterGoto
  <2>2. /\ UNCHANGED <<queued_value, released, payload, completed_value, lock>>
        /\ UNCHANGED <<value, old_value, new_sem_value>>
    BY <1>3 DEF uvm_gpu_tracking_semaphore_is_value_completed
  <2>3. SemTypeOK' /\ Progress'
    BY <2>1, <2>2
  <2>4. Locked' /\ InUpdate'
    BY <2>1, <2>2
  <2>5. ToldIsReleased'
    BY <2>1, <2>2
  <2>6. QED BY <2>3, <2>4, <2>5
<1>4. ASSUME NEW t \in Waiters, AcquireLock(t)
      PROVE  IInv'
  BY <1>4 DEF AcquireLock, WaiterGoto
<1>5. ASSUME NEW t \in Waiters, ReadPayload(t)
      PROVE  IInv'
  <2>1. SemTypeOK' /\ Progress' /\ Locked' /\ ToldIsReleased'
    BY <1>5 DEF ReadPayload, WaiterGoto
  <2>2. InUpdate'
    <3> SUFFICES ASSUME NEW u \in Waiters, s_pc'[u] = "set"
                 PROVE  /\ old_value'[u] = completed_value'
                        /\ \E g \in completed_value' .. released' :
                               new_sem_value'[u] = g % PayloadRange
      OBVIOUS
    <3>1. /\ UNCHANGED <<completed_value, released>>
          /\ old_value' = [old_value EXCEPT ![t] = completed_value]
          /\ new_sem_value' = [new_sem_value EXCEPT ![t] = payload]
          /\ s_pc' = [s_pc EXCEPT ![t] = "set"]
      BY <1>5 DEF ReadPayload, WaiterGoto
    <3>2. CASE u = t
      <4>1. released \in completed_value .. released
        OBVIOUS
      <4>2. new_sem_value'[u] = released % PayloadRange /\ old_value'[u] = completed_value
        BY <3>1, <3>2
      <4>3. QED BY <3>1, <4>1, <4>2
    <3>3. CASE u # t
      <4>1. /\ s_pc[u] = "set" /\ old_value'[u] = old_value[u]
            /\ new_sem_value'[u] = new_sem_value[u]
        BY <3>1, <3>3
      <4>2. QED BY <3>1, <4>1
    <3>4. QED BY <3>2, <3>3
  <2>3. QED BY <2>1, <2>2
<1>6. ASSUME NEW t \in Waiters, update_completed_value_locked(t)
      PROVE  IInv'
  <2> DEFINE new_value == Extend(old_value[t], new_sem_value[t])
  <2>1. new_value \in Nat /\ completed_value <= new_value /\ new_value <= released
    BY <1>6, StoreExact DEF update_completed_value_locked
  <2> HIDE DEF new_value
  <2>2. /\ s_pc[t] = "set" /\ completed_value' = new_value /\ lock' = NoThread
        /\ s_pc' = [s_pc EXCEPT ![t] = IF new_value >= value[t] THEN "idle" ELSE "poll"]
        /\ old_value' = [old_value EXCEPT ![t] = 0]
        /\ new_sem_value' = [new_sem_value EXCEPT ![t] = 0]
        /\ UNCHANGED <<queued_value, released, payload, value>>
    BY <1>6 DEF update_completed_value_locked, WaiterGoto, new_value
  <2>3. SemTypeOK' /\ Progress'
    BY <2>1, <2>2
  <2>4. Locked' /\ InUpdate'
    BY <2>1, <2>2
  <2>5. ToldIsReleased'
    BY <2>1, <2>2
  <2>6. QED BY <2>3, <2>4, <2>5
<1>7. ASSUME NEW t \in Waiters, NEW v \in 1 .. queued_value,
             uvm_tracker_wait_for_entry(t, v)
      PROVE  IInv'
  <2>1. v \in Nat OBVIOUS
  <2>2. SemTypeOK' /\ Progress' /\ Locked' /\ ToldIsReleased'
    BY <1>7, <2>1 DEF uvm_tracker_wait_for_entry, WaiterGoto
  <2>3. InUpdate'
    BY <1>7 DEF uvm_tracker_wait_for_entry, WaiterGoto
  <2>4. QED BY <2>2, <2>3
<1>8. ASSUME NEW t \in Waiters, uvm_gpu_tracking_semaphore_update_completed_value(t)
      PROVE  IInv'
  BY <1>8 DEF uvm_gpu_tracking_semaphore_update_completed_value, WaiterGoto
<1>9. CASE UNCHANGED sem_vars
  BY <1>9 DEF sem_vars
<1>10. QED
  BY <1>1, <1>2, <1>3, <1>4, <1>5, <1>6, <1>7, <1>8, <1>9
  DEF SemNext, WaiterStep, SemCall

\* The inductive invariant holds of every behaviour.
LEMMA Invariance == SemSpec => []IInv
BY InitIInv, IInvStep, PTL DEF SemSpec

(***************************************************************************)
(* A wait that returned is truthful, for every payload width, window and   *)
(* number of threads: the GPU has released the value it waited for.        *)
(***************************************************************************)
THEOREM WaitsAreTruthful == SemSpec => []ToldIsReleased
BY Invariance, PTL DEF IInv

\* A step of the semaphore is a step of the counter, or changes none of it.
LEMMA StepImplementsCounter ==
  IInv /\ [SemNext]_sem_vars => [Counter!CNext]_(Counter!cvars)
<1> SUFFICES ASSUME IInv, [SemNext]_sem_vars, ~ UNCHANGED Counter!cvars
             PROVE  Counter!CNext
  OBVIOUS
<1> USE DEF Counter!CNext, Counter!Queue, Counter!Release, Counter!Observe, Counter!cvars
<1>1. CASE QueueRelease
  BY <1>1 DEF QueueRelease
<1>2. CASE GpuRelease
  BY <1>2 DEF GpuRelease
<1>3. ASSUME NEW t \in Waiters, WaiterStep(t) \/ SemCall(t)
      PROVE  Counter!CNext
  <2>1. UNCHANGED <<queued_value, released>>
    BY <1>3 DEF WaiterStep, SemCall, uvm_gpu_tracking_semaphore_is_value_completed,
       AcquireLock, ReadPayload, update_completed_value_locked,
       uvm_tracker_wait_for_entry, uvm_gpu_tracking_semaphore_update_completed_value
  <2>2. update_completed_value_locked(t)
    BY <1>3, <2>1
    DEF WaiterStep, SemCall, uvm_gpu_tracking_semaphore_is_value_completed,
       AcquireLock, ReadPayload, uvm_tracker_wait_for_entry,
       uvm_gpu_tracking_semaphore_update_completed_value
  <2>3. /\ completed_value' \in Nat /\ completed_value <= completed_value'
        /\ completed_value' <= released
    BY <2>2, StoreExact DEF update_completed_value_locked
  <2>4. completed_value' # completed_value
    BY <2>1
  <2>5. completed_value \in Nat /\ released \in Nat
    BY DEF IInv, SemTypeOK
  <2>6. QED BY <2>1, <2>3, <2>4, <2>5
<1>4. QED
  BY <1>1, <1>2, <1>3 DEF SemNext, sem_vars

(***************************************************************************)
(* The wrapped 32-bit payload and the concurrent updates implement an      *)
(* unbounded counter that moves forward only and never past the GPU.       *)
(***************************************************************************)
THEOREM CounterImplemented == SemSpec => ImplementsCounter
<1>1. SemInit => Counter!CInit
  BY DEF SemInit, Counter!CInit
<1>2. QED
  BY <1>1, Invariance, StepImplementsCounter, PTL
  DEF SemSpec, ImplementsCounter, Counter!CSpec

(***************************************************************************)
(* completed_value, which is read without the lock, never decreases.       *)
(***************************************************************************)
THEOREM CompletedMonotonic == SemSpec => CompletedNeverDecreases
<1>1. IInv /\ [SemNext]_sem_vars => [completed_value' >= completed_value]_sem_vars
  <2> SUFFICES ASSUME IInv, [SemNext]_sem_vars
               PROVE  completed_value' >= completed_value
    OBVIOUS
  <2>1. [Counter!CNext]_(Counter!cvars)
    BY StepImplementsCounter
  <2>2. completed_value \in Nat /\ released \in Nat
    BY DEF IInv, SemTypeOK
  <2>3. QED
    BY <2>1, <2>2
    DEF Counter!CNext, Counter!Queue, Counter!Release, Counter!Observe, Counter!cvars
<1>2. QED
  BY <1>1, Invariance, PTL DEF SemSpec, CompletedNeverDecreases
=============================================================================
