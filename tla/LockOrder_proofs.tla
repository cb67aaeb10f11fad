--------------------------- MODULE LockOrder_proofs ---------------------------
(***************************************************************************)
(* Proofs about LockOrder: whatever threads, blocks and calls there are,   *)
(* a thread's context knows exactly what the thread has and waits for, the *)
(* tracking accepts every release, and threads that make the calls it      *)
(* accepts never wait for each other in a circle.                          *)
(*                                                                         *)
(* A thread is seen through the locks it has (Mine), those it queues for   *)
(* (Queued) and those it has or wants alone (Alone); the invariant says    *)
(* what these can be, and what the context makes of them.                  *)
(***************************************************************************)
EXTENDS LockOrder, FiniteSetTheorems, WellFoundedInduction, TLAPS

(***************************************************************************)
(* The invariant                                                           *)
(***************************************************************************)
Parties == LoThread \union {LoRm}
Entries == Parties \X Modes
Mode(queue, t, mode) == \E i \in DOMAIN queue : queue[i] = <<t, mode>>

(* The locks that t has, or queues for, in exclusive mode.                 *)
Alone(t) == {l \in LoLocks : \/ <<t, "exclusive">> \in loLock[l].holders
                             \/ Mode(loLock[l].queue, t, "exclusive")}

(* The context of a thread with the locks L, of which X are exclusive, and *)
(* of one that has disabled the tracking.                                  *)
Tracked(L, X) ==
    [ref_count |-> Cardinality(L), skip |-> 0, acquired |-> {lock_order(l) : l \in L},
     exclusive |-> {lock_order(l) : l \in X}, locks |-> L]
Skipping(L) ==
    [ref_count |-> Cardinality(L) + 1, skip |-> 1, acquired |-> {}, exclusive |-> {}, locks |-> {}]
Known(context, todo, L, X) ==
    \/ context = Tracked(L, X)
    \/ /\ context = Skipping(L) /\ L \subseteq LoBlock
       /\ todo # <<>> => L = {} /\ \E b \in LoBlock : todo = uvm_mutex_lock(b)

SE == Request("serialize", "exclusive")
VX == Request("va_space", "exclusive")
VS == Request("va_space", "shared")
RA == Request("rm_api", "exclusive")
RG == Request("rm_gpus", "exclusive")

(* RM may be called with the locks L.                                      *)
RmFine(L, X) == "va_space" \notin X /\ ("va_space" \in L => "serialize" \in L)

(* What a thread with the locks L has still to acquire.                    *)
Todo(todo, L, X) ==
    \/ todo = <<>>
    \/ todo \in {<<SE, VX>>, <<SE, VS>>} /\ L = {}
    \/ todo = <<VX>> /\ L = {"serialize"}
    \/ todo = <<VS>> /\ L \subseteq {"serialize"}
    \/ todo = <<RA, RG>> /\ L \subseteq {"serialize", "va_space"} /\ RmFine(L, X)
    \/ todo = <<RG>> /\ "rm_api" \in L /\ L \subseteq {"serialize", "va_space", "rm_api"}
    \/ \E b \in LoBlock : todo = <<Request(b, "exclusive")>> /\ L \intersect LoBlock = {}

(* No two locks of one order.                                              *)
Apart(L) == \A k, l \in L : lock_order(k) = lock_order(l) => k = l

(* A thread has the locks M and queues for those of Q.                     *)
Nested(M, Q, X) ==
    /\ M \subseteq LoLocks /\ Q \subseteq LoLocks /\ X \subseteq M \union Q
    /\ IsFiniteSet(M \union Q) /\ Apart(M \union Q)
    /\ \A l \in Q : Q = {l} /\ \A k \in M : lock_order(k) < lock_order(l)
    /\ M \union Q \subseteq X \union {"va_space"}
Ruled(todo, M, Q, X) ==
    /\ "va_space" \in X => "serialize" \in M
    /\ "rm_gpus" \in M \union Q => "rm_api" \in M
    /\ "rm_api" \in M \union Q => RmFine(M \union Q, X)
    /\ "serialize" \in M \union Q /\ "va_space" \notin M \union Q => todo \in {<<VX>>, <<VS>>}
    /\ "rm_api" \in M \union Q /\ "rm_gpus" \notin M \union Q => todo = <<RG>>
Shape(todo, M, Q, X) == Nested(M, Q, X) /\ Ruled(todo, M, Q, X) /\ Todo(todo, M \union Q, X)

(* The bottom half only reads the VA space and takes block locks.          *)
BhShape(todo, L, X) ==
    /\ L \subseteq LoBlock \union {"va_space"} /\ "va_space" \notin X
    /\ todo \in {<<>>, <<VS>>} \/ \E b \in LoBlock : todo = uvm_mutex_lock(b)

ThreadInv(t) ==
    /\ Shape(loTodo[t], Mine(t), Queued(t), Alone(t))
    /\ Known(loContext[t], loTodo[t], Mine(t) \union Queued(t), Alone(t))
    /\ t = LoBh => BhShape(loTodo[t], Mine(t) \union Queued(t), Alone(t))
         /\ loContext[t].skip = 0

RmInv ==
    /\ Mine(LoRm) \union Queued(LoRm) \subseteq {"rm_gpus"}
    /\ Mine(LoRm) \intersect Queued(LoRm) = {}
    /\ Mine(LoRm) \union Queued(LoRm) \subseteq Alone(LoRm)

(* Who has a lock in exclusive mode has it alone, and nobody queues for it *)
(* twice.                                                                  *)
Lock == [holders : SUBSET Entries, queue : Seq(Entries)]
Single(holders) == \A t \in Parties : <<t, "exclusive">> \in holders
  => holders = {<<t, "exclusive">>}
Once(queue) == \A i, j \in DOMAIN queue : queue[i][1] = queue[j][1] => i = j
LockInv(lock) == lock \in Lock /\ Single(lock.holders) /\ Once(lock.queue)
LockInvs == \A l \in LoLocks : LockInv(loLock[l])

LoTypeOK ==
    /\ loSetup \in LoSetups /\ loFault \in BOOLEAN
    /\ loContext = [t \in LoThread |-> loContext[t]]
    /\ loTodo = [t \in LoThread |-> loTodo[t]]
    /\ loLock = [l \in LoLocks |-> loLock[l]]

LoInv == LoTypeOK /\ LockInvs /\ RmInv /\ \A t \in LoThread : ThreadInv(t)

(***************************************************************************)
(* Orders and sequences                                                    *)
(***************************************************************************)
LEMMA OrderOf ==
    /\ lock_order("serialize") = 4 /\ lock_order("va_space") = 5
    /\ lock_order("rm_api") = 7 /\ lock_order("rm_gpus") = 8
    /\ \A b \in LoBlock : lock_order(b) = 9 /\ b \notin Loose
    /\ \A l \in LoLocks : lock_order(l) \in 4..9
<1>1. LoBlock \intersect {"serialize", "va_space", "rm_api", "rm_gpus"} = {}
  BY LoAssumption
<1>2. \A b \in LoBlock : lock_order(b) = 9 /\ b \notin Loose
  BY <1>1 DEF lock_order, Orders, Loose
<1>3. lock_order("serialize") = 4
  BY <1>1 DEF lock_order, Orders
<1>4. lock_order("va_space") = 5
  BY <1>1 DEF lock_order, Orders
<1>5. lock_order("rm_api") = 7
  BY <1>1 DEF lock_order, Orders
<1>6. lock_order("rm_gpus") = 8
  BY <1>1 DEF lock_order, Orders
<1> QED
  BY <1>2, <1>3, <1>4, <1>5, <1>6 DEF LoLocks, Loose

LEMMA Tails ==
    ASSUME NEW a, NEW b
    PROVE  /\ Head(<<a>>) = a /\ Tail(<<a>>) = <<>> /\ Len(<<a>>) = 1 /\ <<a>>[1] = a
                /\ <<a>> # <<>>
           /\ Head(<<a, b>>) = a /\ Tail(<<a, b>>) = <<b>> /\ Len(<<a, b>>) = 2
           /\ <<a, b>>[1] = a /\ <<a, b>>[2] = b /\ <<a, b>> # <<>>
<1>1. Head(<<a>>) = a /\ Tail(<<a>>) = <<>> /\ Len(<<a>>) = 1 /\ <<a>>[1] = a /\ <<a>> # <<>>
  OBVIOUS
<1>2. Head(<<a, b>>) = a /\ Tail(<<a, b>>) = <<b>> /\ Len(<<a, b>>) = 2
  OBVIOUS
<1>3. <<a, b>>[1] = a /\ <<a, b>>[2] = b /\ <<a, b>> # <<>>
  OBVIOUS
<1> QED
  BY <1>1, <1>2, <1>3

LEMMA Reversed ==
    ASSUME NEW a, NEW b
    PROVE  Len(Reverse(<<a, b>>)) = 2 /\ Reverse(<<a, b>>)[1] = b /\ Reverse(<<a, b>>)[2] = a
           /\ DOMAIN Reverse(<<a, b>>) = 1..2
<1>1. Reverse(<<a, b>>) = [i \in 1..2 |-> <<a, b>>[(2 - i) + 1]]
  BY DEF Reverse
<1> QED
  BY <1>1

LEMMA Requests ==
    /\ SE.lock = "serialize" /\ SE.mode = "exclusive" /\ VX.lock = "va_space"
         /\ VX.mode = "exclusive"
    /\ VS.lock = "va_space" /\ VS.mode = "shared" /\ RA.lock = "rm_api" /\ RA.mode = "exclusive"
    /\ RG.lock = "rm_gpus" /\ RG.mode = "exclusive"
    /\ \A b : Request(b, "exclusive").lock = b /\ Request(b, "exclusive").mode = "exclusive"
  BY DEF SE, VX, VS, RA, RG, Request

(* Who queues after an arrival, and after the first has left.              *)
LEMMA Arrival ==
    ASSUME NEW q \in Seq(Entries), NEW e \in Entries
    PROVE  /\ Append(q, e) \in Seq(Entries)
           /\ \A x : (\E i \in DOMAIN Append(q, e) : Append(q, e)[i] = x)
                        <=> x = e \/ \E i \in DOMAIN q : q[i] = x
           /\ \A t : (\E i \in DOMAIN Append(q, e) : Append(q, e)[i][1] = t)
                        <=> t = e[1] \/ \E i \in DOMAIN q : q[i][1] = t
           /\ Once(q) /\ ~(\E i \in DOMAIN q : q[i][1] = e[1]) => Once(Append(q, e))
<1> DEFINE a == Append(q, e)
<1>1. a \in Seq(Entries) /\ DOMAIN a = 1 .. Len(q) + 1 /\ DOMAIN q = 1 .. Len(q)
        /\ Len(q) \in Nat
  OBVIOUS
<1>2. a[Len(q) + 1] = e /\ \A i \in 1 .. Len(q) : a[i] = q[i]
  OBVIOUS
<1> HIDE DEF a
<1>3. \A i : i \in DOMAIN a <=> i \in DOMAIN q \/ i = Len(q) + 1
  BY <1>1
<1>4. \A x : (\E i \in DOMAIN a : a[i] = x) <=> x = e \/ \E i \in DOMAIN q : q[i] = x
  BY <1>1, <1>2, <1>3
<1>5. \A t : (\E i \in DOMAIN a : a[i][1] = t) <=> t = e[1] \/ \E i \in DOMAIN q : q[i][1] = t
  BY <1>1, <1>2, <1>3
<1>6. Once(q) /\ ~(\E i \in DOMAIN q : q[i][1] = e[1]) => Once(a)
  BY <1>1, <1>2, <1>3 DEF Once
<1> QED
  BY <1>1, <1>4, <1>5, <1>6 DEF a

LEMMA Departure ==
    ASSUME NEW q \in Seq(Entries), q # <<>>, Once(q)
    PROVE  /\ Tail(q) \in Seq(Entries) /\ Head(q) \in Entries /\ Once(Tail(q))
           /\ \E i \in DOMAIN q : q[i] = Head(q)
           /\ \A x : (\E i \in DOMAIN Tail(q) : Tail(q)[i] = x)
                        <=> x[1] # Head(q)[1] /\ \E i \in DOMAIN q : q[i] = x
           /\ \A t : (\E i \in DOMAIN Tail(q) : Tail(q)[i][1] = t)
                        <=> t # Head(q)[1] /\ \E i \in DOMAIN q : q[i][1] = t
<1> DEFINE a == Tail(q)
<1>1. a \in Seq(Entries) /\ DOMAIN a = 1 .. Len(q) - 1 /\ DOMAIN q = 1 .. Len(q)
        /\ Len(q) \in Nat \ {0}
  OBVIOUS
<1>2. Head(q) = q[1] /\ \A i \in 1 .. Len(q) - 1 : a[i] = q[i + 1]
  OBVIOUS
<1>3. Head(q) \in Entries
  BY <1>1, <1>2
<1> HIDE DEF a
<1>4. \A i \in DOMAIN a : i + 1 \in DOMAIN q /\ a[i] = q[i + 1] /\ a[i][1] # q[1][1]
  BY <1>1, <1>2 DEF Once
<1>5. \A i \in DOMAIN q : i = 1 \/ (i - 1 \in DOMAIN a /\ a[i - 1] = q[i])
  BY <1>1, <1>2
<1>6. Once(a)
  BY <1>1, <1>4 DEF Once
<1>7. 1 \in DOMAIN q
  BY <1>1
<1>8. \A x : (\E i \in DOMAIN a : a[i] = x) <=> x[1] # q[1][1] /\ \E i \in DOMAIN q : q[i] = x
  BY <1>4, <1>5, Z3
<1>9. \A t : (\E i \in DOMAIN a : a[i][1] = t) <=> t # q[1][1]
        /\ \E i \in DOMAIN q : q[i][1] = t
  BY <1>4, <1>5, Z3
<1> QED
  BY <1>1, <1>2, <1>3, <1>6, <1>7, <1>8, <1>9 DEF a

(***************************************************************************)
(* Contexts                                                                *)
(***************************************************************************)
(* The steps on the fields of a context.                                   *)
Context(n, skip, acquired, exclusive, locks) ==
    [ref_count |-> n, skip |-> skip, acquired |-> acquired, exclusive |-> exclusive, locks |-> locks]

LEMMA TrackedContext ==
    ASSUME NEW L, NEW X
    PROVE  /\ Tracked(L, X) = Context(Cardinality(L), 0, {lock_order(k) : k \in L},
                                     {lock_order(k) : k \in X}, L)
           /\ Skipping(L) = Context(Cardinality(L) + 1, 1, {}, {}, {})
           /\ NoContext = Context(0, 0, {}, {}, {})
  BY DEF Tracked, Skipping, NoContext, Context

LEMMA ContextFields ==
    ASSUME NEW n, NEW s, NEW A, NEW E, NEW K
    PROVE  /\ Context(n, s, A, E, K).ref_count = n /\ Context(n, s, A, E, K).skip = s
           /\ Context(n, s, A, E, K).acquired = A /\ Context(n, s, A, E, K).exclusive = E
           /\ Context(n, s, A, E, K).locks = K
  BY DEF Context

(* A lock that is recorded joins those of the context.                     *)
LEMMA RecordTracked ==
    ASSUME NEW L, NEW X, NEW l, l \notin L, IsFiniteSet(L), NEW mode \in Modes
    PROVE  Recorded(Tracked(L, X), Request(l, mode))
           = Tracked(L \union {l}, IF mode = "exclusive" THEN X \union {l} ELSE X)
<1> DEFINE n == Cardinality(L)
           A == {lock_order(k) : k \in L}
           E == {lock_order(k) : k \in X}
           B == A \union {lock_order(l)}
           F == IF mode = "exclusive" THEN E \union {lock_order(l)} ELSE E
           J == L \union {l}
           Y == IF mode = "exclusive" THEN X \union {l} ELSE X
           c == Context(n, 0, A, E, L)
           r == uvm_thread_context_retain(c)
<1>1. Tracked(L, X) = c
  BY TrackedContext, Zenon
<1>2. Tracked(J, Y) = Context(n + 1, 0, B, F, J)
  <2>1. Cardinality(J) = n + 1
    BY FS_AddElement
  <2>2. {lock_order(k) : k \in J} = B
    OBVIOUS
  <2>3. {lock_order(k) : k \in Y} = F
    OBVIOUS
  <2>4. Tracked(J, Y) = Context(Cardinality(J), 0, {lock_order(k) : k \in J}, {lock_order(k) : k \in Y}, J)
    BY TrackedContext, Zenon
  <2> QED
    BY <2>1, <2>2, <2>3, <2>4, Zenon
<1>3. r = Context(n + 1, 0, A, E, L)
  <2> HIDE DEF A, E, n
  <2> QED
    BY DEF uvm_thread_context_retain, Context
<1>4. r.acquired = A /\ r.exclusive = E /\ r.locks = L /\ c.skip = 0
  <2> HIDE DEF A, E, n, r
  <2> QED
    BY <1>3 DEF Context
<1>5. Request(l, mode).lock = l /\ Request(l, mode).mode = mode /\ ~(0 > 0)
  BY DEF Request
<1>6. Recorded(c, Request(l, mode)) = [r EXCEPT !.acquired = B, !.exclusive = F, !.locks = J]
  <2>1. Recorded(c, Request(l, mode))
        = [r EXCEPT !.acquired = r.acquired \union {lock_order(l)},
                    !.exclusive = IF mode = "exclusive" THEN r.exclusive \union {lock_order(l)} ELSE r.exclusive,
                    !.locks = r.locks \union {l}]
    <3> HIDE DEF c
    <3> QED
      BY <1>4, <1>5, Zenon DEF Recorded
  <2> HIDE DEF r
  <2> QED
    BY <1>4, <2>1, Zenon
<1>7. [r EXCEPT !.acquired = B, !.exclusive = F, !.locks = J]
      = [[[r EXCEPT !.acquired = B] EXCEPT !.exclusive = F] EXCEPT !.locks = J]
  <2> HIDE DEF r, B, F, J
  <2> QED
    OBVIOUS
<1>8. [[[r EXCEPT !.acquired = B] EXCEPT !.exclusive = F] EXCEPT !.locks = J]
      = Context(n + 1, 0, B, F, J)
  <2> HIDE DEF r, B, F, J, A, E, n
  <2>1. [Context(n + 1, 0, A, E, L) EXCEPT !.acquired = B] = Context(n + 1, 0, B, E, L)
    BY DEF Context
  <2>2. [Context(n + 1, 0, B, E, L) EXCEPT !.exclusive = F] = Context(n + 1, 0, B, F, L)
    BY DEF Context
  <2>3. [Context(n + 1, 0, B, F, L) EXCEPT !.locks = J] = Context(n + 1, 0, B, F, J)
    BY DEF Context
  <2> QED
    BY <1>3, <2>1, <2>2, <2>3, Zenon
<1> QED
  BY <1>1, <1>2, <1>6, <1>7, <1>8, Zenon

LEMMA RecordSkipping ==
    ASSUME NEW l, NEW mode
    PROVE  /\ Recorded(Skipping({}), Request(l, mode)) = Skipping({l})
           /\ uvm_thread_context_release(Skipping({l})) = Skipping({})
           /\ Tracked({}, {}) = NoContext
           /\ SkipMore(NoContext) = Skipping({})
           /\ SkipLess(Skipping({})) = NoContext
<1>1. Cardinality({}) = 0 /\ Cardinality({l}) = 1
  BY FS_EmptySet, FS_Singleton
<1>2. Skipping({}) = Context(1, 1, {}, {}, {}) /\ Skipping({l}) = Context(2, 1, {}, {}, {})
  <2>1. /\ Skipping({}) = Context(Cardinality({}) + 1, 1, {}, {}, {})
        /\ Skipping({l}) = Context(Cardinality({l}) + 1, 1, {}, {}, {})
    BY TrackedContext
  <2> QED
    BY <1>1, <2>1
<1>3. Recorded(Skipping({}), Request(l, mode)) = Skipping({l})
  BY <1>2 DEF Recorded, uvm_thread_context_retain, Context
<1>4. uvm_thread_context_release(Skipping({l})) = Skipping({})
  <2>1. /\ Context(2, 1, {}, {}, {}).ref_count = 2
        /\ [Context(2, 1, {}, {}, {}) EXCEPT !.ref_count = 1] = Context(1, 1, {}, {}, {})
    BY ContextFields DEF Context
  <2> QED
    BY <1>2, <2>1 DEF uvm_thread_context_release
<1>5. Tracked({}, {}) = NoContext
  <2>1. {lock_order(k) : k \in {}} = {}
    OBVIOUS
  <2>2. Tracked({}, {}) = Context(Cardinality({}), 0, {lock_order(k) : k \in {}},
                                  {lock_order(k) : k \in {}}, {})
    BY TrackedContext
  <2>3. NoContext = Context(0, 0, {}, {}, {})
    BY TrackedContext
  <2> QED
    BY <1>1, <2>1, <2>2, <2>3, Zenon
<1>6. SkipMore(NoContext) = Skipping({})
  <2>1. NoContext = Context(0, 0, {}, {}, {})
    BY TrackedContext
  <2>2. uvm_thread_context_retain(Context(0, 0, {}, {}, {})) = Context(1, 0, {}, {}, {})
    BY DEF uvm_thread_context_retain, Context
  <2>3. [Context(1, 0, {}, {}, {}) EXCEPT !.skip = @ + 1] = Context(1, 1, {}, {}, {})
    BY DEF Context
  <2> QED
    BY <1>2, <2>1, <2>2, <2>3, Zenon DEF SkipMore
<1>7. SkipLess(Skipping({})) = NoContext
  BY <1>2 DEF SkipLess, uvm_thread_context_release, NoContext, Context
<1> QED
  BY <1>3, <1>4, <1>5, <1>6, <1>7

(* What the tracking accepts.                                              *)
LEMMA RecordAccepted ==
    ASSUME NEW L, NEW X, NEW l, NEW mode, __uvm_record_lock(Tracked(L, X), Request(l, mode)).ok,
           L \subseteq LoLocks, X \subseteq L, l \in LoLocks
    PROVE  /\ \A k \in L : lock_order(k) < lock_order(l)
           /\ l = "rm_gpus" => RmFine(L, X)
<1>1. Tracked(L, X).skip = 0 /\ Tracked(L, X).acquired = {lock_order(k) : k \in L}
      /\ Tracked(L, X).exclusive = {lock_order(k) : k \in X}
  BY DEF Tracked
<1>2. /\ lock_order(l) = Orders.rm_gpus => RmAllowed(Tracked(L, X))
      /\ Deeper(Tracked(L, X), lock_order(l)) = {}
  <2>1. Request(l, mode).lock = l /\ ~(0 > 0)
    BY DEF Request
  <2> QED
    BY <1>1, <2>1, Zenon DEF __uvm_record_lock
<1>3. \A k \in L : lock_order(k) < lock_order(l)
  BY <1>1, <1>2, OrderOf DEF Deeper
<1>4. ASSUME l = "rm_gpus"
      PROVE  RmFine(L, X)
  <2>1. RmAllowed(Tracked(L, X))
    BY <1>2, <1>4, OrderOf DEF Orders
  <2>2. "va_space" \notin X
    BY <2>1, <1>1, OrderOf DEF RmAllowed, Orders
  <2>3. ASSUME "va_space" \in L
        PROVE  "serialize" \in L
    <3>1. 4 \in {lock_order(k) : k \in L}
      BY <2>1, <2>3, <1>1, OrderOf DEF RmAllowed, Orders
    <3>2. PICK k \in L : lock_order(k) = 4
      BY <3>1
    <3> QED
      BY <3>2, OrderOf DEF LoLocks, Loose
  <2> QED
    BY <2>2, <2>3 DEF RmFine
<1> QED
  BY <1>3, <1>4

(* A lock that is released leaves the context, which accepts it if nothing *)
(* is deeper.                                                              *)
LEMMA UnlockTracked ==
    ASSUME NEW L, NEW X \in SUBSET L, L \subseteq LoLocks, IsFiniteSet(L), Apart(L),
           NEW l \in L,
           NEW mode \in Modes, l \in X <=> mode = "exclusive", NEW out,
           out \/ \A k \in L : lock_order(k) <= lock_order(l)
    PROVE  /\ __uvm_record_unlock(Tracked(L, X), Request(l, mode), out).ok
           /\ __uvm_record_unlock(Tracked(L, X), Request(l, mode), out).context = Tracked(L \ {l}, X \ {l})
<1> DEFINE o == lock_order(l)
           c == Tracked(L, X)
           d == [c EXCEPT !.acquired = @ \ {o}, !.exclusive = @ \ {o},
                          !.locks = {k \in @ : lock_order(k) # o}]
<1>1. /\ c.skip = 0 /\ c.ref_count = Cardinality(L) /\ c.locks = L
      /\ c.acquired = {lock_order(k) : k \in L} /\ c.exclusive = {lock_order(k) : k \in X}
  BY DEF Tracked
<1>2. c # NoContext
  BY <1>1 DEF NoContext
<1>3. \A k \in L : lock_order(k) = o => k = l
  BY DEF Apart
<1>4. {lock_order(k) : k \in L} \ {o} = {lock_order(k) : k \in L \ {l}}
  BY <1>3
<1>5. {lock_order(k) : k \in X} \ {o} = {lock_order(k) : k \in X \ {l}}
  BY <1>3
<1>6. {k \in L : lock_order(k) # o} = L \ {l}
  BY <1>3
<1>7. o \in c.exclusive <=> l \in X
  BY <1>1, <1>3
<1>8. out \/ Deeper(c, o + 1) = {}
  BY <1>1, OrderOf DEF Deeper
<1>9. d = Context(Cardinality(L), 0, {lock_order(k) : k \in L \ {l}}, {lock_order(k) : k \in X \ {l}},
                  L \ {l})
  <2>1. c = Context(Cardinality(L), 0, {lock_order(k) : k \in L}, {lock_order(k) : k \in X}, L)
    BY TrackedContext, Zenon
  <2>2. d = [c EXCEPT !.acquired = c.acquired \ {o}, !.exclusive = c.exclusive \ {o},
                      !.locks = {k \in c.locks : lock_order(k) # o}]
    OBVIOUS
  <2> HIDE DEF c, d, o
  <2>3. d = [c EXCEPT !.acquired = {lock_order(k) : k \in L \ {l}},
                      !.exclusive = {lock_order(k) : k \in X \ {l}}, !.locks = L \ {l}]
    BY <2>2, <1>1, <1>4, <1>5, <1>6, Zenon
  <2> DEFINE A == {lock_order(k) : k \in L}
             E == {lock_order(k) : k \in X}
             B == {lock_order(k) : k \in L \ {l}}
             F == {lock_order(k) : k \in X \ {l}}
  <2>4. [Context(Cardinality(L), 0, A, E, L) EXCEPT !.acquired = B, !.exclusive = F, !.locks = L \ {l}]
        = Context(Cardinality(L), 0, B, F, L \ {l})
    <3> DEFINE K == L \ {l}
               n == Cardinality(L)
               a == Context(n, 0, A, E, L)
    <3> HIDE DEF A, E, B, F, n, K
    <3>1. [a EXCEPT !.acquired = B, !.exclusive = F, !.locks = K]
          = [[[a EXCEPT !.acquired = B] EXCEPT !.exclusive = F] EXCEPT !.locks = K]
      OBVIOUS
    <3>2. [[[a EXCEPT !.acquired = B] EXCEPT !.exclusive = F] EXCEPT !.locks = K] = Context(n, 0, B, F, K)
      <4>1. [a EXCEPT !.acquired = B] = Context(n, 0, B, E, L)
        BY DEF Context
      <4>2. [Context(n, 0, B, E, L) EXCEPT !.exclusive = F] = Context(n, 0, B, F, L)
        BY DEF Context
      <4>3. [Context(n, 0, B, F, L) EXCEPT !.locks = K] = Context(n, 0, B, F, K)
        BY DEF Context
      <4> QED
        BY <4>1, <4>2, <4>3, Zenon
    <3> QED
      BY <3>1, <3>2, Zenon DEF n, K
  <2> QED
    BY <2>1, <2>3, <2>4, Zenon
<1>13. d.ref_count = Cardinality(L)
  <2> DEFINE B == {lock_order(k) : k \in L \ {l}}
             F == {lock_order(k) : k \in X \ {l}}
  <2>1. Context(Cardinality(L), 0, B, F, L \ {l}).ref_count = Cardinality(L)
    <3> HIDE DEF B, F
    <3> QED
      BY ContextFields
  <2> HIDE DEF d
  <2> QED
    BY <1>9, <2>1, Zenon
<1>10. uvm_thread_context_release(d) = Tracked(L \ {l}, X \ {l})
  <2>1. Cardinality(L \ {l}) = Cardinality(L) - 1 /\ Cardinality(L) \in Nat
          /\ IsFiniteSet(L \ {l})
    BY FS_RemoveElement, FS_CardinalityType
  <2>2. CASE Cardinality(L) = 1
    <3>1. L \ {l} = {}
      BY <2>1, <2>2, FS_EmptySet
    <3>2. X \ {l} = {}
      BY <3>1
    <3>3. Tracked({}, {}) = NoContext
      BY RecordSkipping
    <3>4. d.ref_count = 1
      BY <1>13, <2>2
    <3> HIDE DEF d
    <3> QED
      BY <3>1, <3>2, <3>3, <3>4, Zenon DEF uvm_thread_context_release
  <2>3. CASE Cardinality(L) # 1
    <3> DEFINE B == {lock_order(k) : k \in L \ {l}}
               F == {lock_order(k) : k \in X \ {l}}
    <3> HIDE DEF d
    <3>1. uvm_thread_context_release(d) = [d EXCEPT !.ref_count = Cardinality(L) - 1]
      BY <1>13, <2>3, Zenon DEF uvm_thread_context_release
    <3>2. [Context(Cardinality(L), 0, B, F, L \ {l}) EXCEPT !.ref_count = Cardinality(L) - 1]
          = Context(Cardinality(L) - 1, 0, B, F, L \ {l})
      <4> HIDE DEF B, F
      <4> QED
        BY DEF Context
    <3>3. Tracked(L \ {l}, X \ {l}) = Context(Cardinality(L \ {l}), 0, B, F, L \ {l})
      BY TrackedContext, Zenon
    <3> QED
      BY <3>1, <3>2, <3>3, <1>9, <2>1, Zenon
  <2> QED
    BY <2>2, <2>3
<1>11. __uvm_record_unlock(c, Request(l, mode), out).ok
  <2> HIDE DEF c
  <2> QED
    BY <1>1, <1>2, <1>7, <1>8 DEF __uvm_record_unlock, Request
<1>12. __uvm_record_unlock(c, Request(l, mode), out).context = uvm_thread_context_release(d)
  BY <1>1 DEF __uvm_record_unlock, Request
<1> QED
  BY <1>10, <1>11, <1>12, Zenon

LEMMA UnlockSkipping ==
    ASSUME NEW l, NEW mode, NEW out
    PROVE  /\ __uvm_record_unlock(Skipping({l}), Request(l, mode), out).ok
           /\ __uvm_record_unlock(Skipping({l}), Request(l, mode), out).context = Skipping({})
<1>1. Skipping({l}).skip = 1 /\ Skipping({l}) # NoContext
  BY DEF Skipping, NoContext
<1>2. uvm_thread_context_release(Skipping({l})) = Skipping({})
  BY RecordSkipping
<1> DEFINE c == Skipping({l})
<1> HIDE DEF c
<1>3. __uvm_record_unlock(c, Request(l, mode), out).ok
  BY <1>1 DEF __uvm_record_unlock, c
<1>4. __uvm_record_unlock(c, Request(l, mode), out).context = uvm_thread_context_release(c)
  BY <1>1 DEF __uvm_record_unlock, c
<1> QED
  BY <1>2, <1>3, <1>4 DEF c

LEMMA DowngradeTracked ==
    ASSUME NEW L, NEW X \in SUBSET L, Apart(L), "va_space" \in X
    PROVE  /\ __uvm_record_downgrade(Tracked(L, X), "va_space").ok
           /\ __uvm_record_downgrade(Tracked(L, X), "va_space").context = Tracked(L, X \ {"va_space"})
<1> DEFINE o == lock_order("va_space")
           c == Tracked(L, X)
<1>1. /\ c.skip = 0 /\ c.locks = L /\ c.exclusive = {lock_order(k) : k \in X} /\ c # NoContext
  BY DEF Tracked, NoContext
<1>2. {lock_order(k) : k \in X} \ {o} = {lock_order(k) : k \in X \ {"va_space"}}
  BY DEF Apart
<1>3. [c EXCEPT !.exclusive = @ \ {o}] = Tracked(L, X \ {"va_space"})
  <2>1. c = Context(Cardinality(L), 0, {lock_order(k) : k \in L}, {lock_order(k) : k \in X}, L)
    BY TrackedContext, Zenon
  <2> DEFINE A == {lock_order(k) : k \in L}
             E == {lock_order(k) : k \in X}
             F == {lock_order(k) : k \in X \ {"va_space"}}
  <2>2. [Context(Cardinality(L), 0, A, E, L) EXCEPT !.exclusive = F] = Context(Cardinality(L), 0, A, F, L)
    <3> HIDE DEF A, E, F
    <3> QED
      BY DEF Context
  <2>3. Tracked(L, X \ {"va_space"}) = Context(Cardinality(L), 0, A, F, L)
    BY TrackedContext, Zenon
  <2>4. [c EXCEPT !.exclusive = @ \ {o}] = [c EXCEPT !.exclusive = F]
    <3> HIDE DEF c, o
    <3>1. c.exclusive \ {o} = F
      BY <1>1, <1>2, Zenon
    <3> QED
      BY <3>1, Zenon
  <2> HIDE DEF c
  <2> QED
    BY <2>1, <2>2, <2>3, <2>4, Zenon
<1>4. __uvm_check_locked(c, Request("va_space", "exclusive"))
  BY <1>1 DEF __uvm_check_locked, Request
<1> HIDE DEF c
<1>5. /\ __uvm_record_downgrade(c, "va_space").ok
      /\ __uvm_record_downgrade(c, "va_space").context = [c EXCEPT !.exclusive = @ \ {o}]
  BY <1>1, <1>4 DEF __uvm_record_downgrade
<1> QED
  BY <1>3, <1>5 DEF c


(***************************************************************************)
(* One lock                                                                *)
(***************************************************************************)
Having(lock, t) == \E mode \in Modes : <<t, mode>> \in lock.holders
Queueing(lock, t) == \E i \in DOMAIN lock.queue : lock.queue[i][1] = t
Owning(lock, t) == <<t, "exclusive">> \in lock.holders \/ Mode(lock.queue, t, "exclusive")

LEMMA EntryParts ==
    ASSUME NEW e \in Entries
    PROVE  e = <<e[1], e[2]>> /\ e[1] \in Parties /\ e[2] \in Modes
  BY DEF Entries

(* t begins to queue.                                                      *)
LEMMA LockArrival ==
    ASSUME NEW lock, LockInv(lock), NEW t \in Parties, NEW mode \in Modes, ~Queueing(lock, t),
           NEW new, new = [lock EXCEPT !.queue = Append(@, <<t, mode>>)]
    PROVE  /\ LockInv(new)
           /\ \A u : Having(new, u) <=> Having(lock, u)
           /\ \A u : Queueing(new, u) <=> u = t \/ Queueing(lock, u)
           /\ \A u : Owning(new, u) <=> (u = t /\ mode = "exclusive") \/ Owning(lock, u)
<1> DEFINE q == lock.queue
           e == <<t, mode>>
<1>1. lock.holders \in SUBSET Entries /\ q \in Seq(Entries) /\ e \in Entries /\ lock \in Lock
  BY DEF LockInv, Lock, Entries
<1>2. new.holders = lock.holders /\ new.queue = Append(q, e)
      /\ new = [holders |-> lock.holders, queue |-> Append(q, e)]
  BY <1>1 DEF Lock
<1>3. e[1] = t /\ \A u : e = <<u, "exclusive">> <=> u = t /\ mode = "exclusive"
  OBVIOUS
<1> HIDE DEF q, e
<1>4. /\ Append(q, e) \in Seq(Entries)
      /\ \A x : (\E i \in DOMAIN Append(q, e) : Append(q, e)[i] = x)
           <=> x = e \/ \E i \in DOMAIN q : q[i] = x
      /\ \A u : (\E i \in DOMAIN Append(q, e) : Append(q, e)[i][1] = u)
                   <=> u = e[1] \/ \E i \in DOMAIN q : q[i][1] = u
      /\ Once(q) /\ ~(\E i \in DOMAIN q : q[i][1] = e[1]) => Once(Append(q, e))
  BY <1>1, Arrival
<1>5. LockInv(new)
  <2>1. Once(q) /\ Single(lock.holders)
    BY DEF LockInv, q
  <2>2. Once(Append(q, e))
    BY <1>3, <1>4, <2>1, Zenon DEF Queueing, q
  <2> QED
    BY <1>1, <1>2, <1>4, <2>1, <2>2 DEF LockInv, Lock
<1>6. \A u : Having(new, u) <=> Having(lock, u)
  BY <1>2 DEF Having
<1>7. \A u : Queueing(new, u) <=> u = t \/ Queueing(lock, u)
  <2> SUFFICES ASSUME NEW u
               PROVE  Queueing(new, u) <=> u = t \/ Queueing(lock, u)
    OBVIOUS
  <2>1. Queueing(new, u) <=> \E i \in DOMAIN Append(q, e) : Append(q, e)[i][1] = u
    BY <1>2, Zenon DEF Queueing
  <2>2. Queueing(lock, u) <=> \E i \in DOMAIN q : q[i][1] = u
    BY DEF Queueing, q
  <2>3. (\E i \in DOMAIN Append(q, e) : Append(q, e)[i][1] = u)
          <=> u = t \/ \E i \in DOMAIN q : q[i][1] = u
    BY <1>3, <1>4, Zenon
  <2> QED
    BY <2>1, <2>2, <2>3
<1>8. \A u : Owning(new, u) <=> (u = t /\ mode = "exclusive") \/ Owning(lock, u)
  <2> SUFFICES ASSUME NEW u
               PROVE  Owning(new, u) <=> (u = t /\ mode = "exclusive") \/ Owning(lock, u)
    OBVIOUS
  <2> DEFINE x == <<u, "exclusive">>
  <2>2. (\E i \in DOMAIN Append(q, e) : Append(q, e)[i] = x)
          <=> x = e \/ \E i \in DOMAIN q : q[i] = x
    BY <1>4, Zenon
  <2>3. Mode(q, u, "exclusive") <=> \E i \in DOMAIN q : q[i] = x
    BY DEF Mode
  <2>4. Mode(new.queue, u, "exclusive") <=> \E i \in DOMAIN Append(q, e) : Append(q, e)[i] = x
    BY <1>2, Zenon DEF Mode
  <2>1. Mode(new.queue, u, "exclusive") <=> <<u, "exclusive">> = e \/ Mode(q, u, "exclusive")
    BY <2>2, <2>3, <2>4
  <2> QED
    BY <1>2, <1>3, <2>1, Zenon DEF Owning, q
<1> QED
  BY <1>5, <1>6, <1>7, <1>8

(* The first that queues gets the lock.                                    *)
LEMMA LockGranted ==
    ASSUME NEW lock, LockInv(lock), lock.queue # <<>>,
           Compatible(lock.holders, Head(lock.queue)[2]),
           NEW new, new = [holders |-> lock.holders \union {Head(lock.queue)}, queue |-> Tail(lock.queue)],
           NEW t, t = Head(lock.queue)[1]
    PROVE  /\ LockInv(new) /\ t \in Parties /\ Queueing(lock, t)
           /\ \A u : Having(new, u) <=> u = t \/ Having(lock, u)
           /\ \A u : Queueing(new, u) <=> u # t /\ Queueing(lock, u)
           /\ \A u : Owning(new, u) <=> Owning(lock, u)
<1> DEFINE q == lock.queue
           e == Head(q)
<1>1. lock.holders \in SUBSET Entries /\ q \in Seq(Entries) /\ q # <<>> /\ Once(q)
  BY DEF LockInv, Lock
<1>2. new.holders = lock.holders \union {e} /\ new.queue = Tail(q)
  OBVIOUS
<1> HIDE DEF q
<1>3. /\ Tail(q) \in Seq(Entries) /\ e \in Entries /\ Once(Tail(q))
      /\ \E i \in DOMAIN q : q[i] = e
      /\ \A x : (\E i \in DOMAIN Tail(q) : Tail(q)[i] = x) <=> x[1] # e[1]
           /\ \E i \in DOMAIN q : q[i] = x
      /\ \A u : (\E i \in DOMAIN Tail(q) : Tail(q)[i][1] = u)
                   <=> u # e[1] /\ \E i \in DOMAIN q : q[i][1] = u
  BY <1>1, Departure, Zenon
<1>4. e = <<t, e[2]>> /\ t \in Parties /\ e[2] \in Modes /\ t = e[1]
  BY <1>3, EntryParts DEF q
<1> HIDE DEF e
<1>5. Single(new.holders)
  <2> SUFFICES ASSUME NEW u \in Parties, <<u, "exclusive">> \in lock.holders \union {e}
               PROVE  lock.holders \union {e} = {<<u, "exclusive">>}
    BY <1>2 DEF Single
  <2>1. Compatible(lock.holders, e[2])
    BY DEF e, q
  <2>2. CASE <<u, "exclusive">> \in lock.holders
    <3>1. lock.holders # {} /\ <<u, "exclusive">>[2] # "shared"
      BY <2>2
    <3> QED
      BY <2>1, <2>2, <3>1 DEF Compatible
  <2>3. CASE <<u, "exclusive">> = e
    <3>1. e[2] # "shared"
      BY <2>3
    <3> QED
      BY <2>1, <2>3, <3>1 DEF Compatible
  <2> QED
    BY <2>2, <2>3
<1>6. LockInv(new)
  BY <1>1, <1>2, <1>3, <1>5 DEF LockInv, Lock
<1>7. Queueing(lock, t)
  <2>1. PICK j \in DOMAIN q : q[j] = e
    BY <1>3
  <2>2. q[j][1] = t
    BY <2>1, <1>4
  <2> QED
    BY <2>2 DEF Queueing, q
<1>8. \A u : Having(new, u) <=> u = t \/ Having(lock, u)
  <2> SUFFICES ASSUME NEW u
               PROVE  Having(new, u) <=> u = t \/ Having(lock, u)
    OBVIOUS
  <2>1. \A mode \in Modes : <<u, mode>> = e <=> u = t /\ mode = e[2]
    BY <1>4
  <2> QED
    BY <1>2, <1>4, <2>1 DEF Having
<1>9. \A u : Queueing(new, u) <=> u # t /\ Queueing(lock, u)
  <2> SUFFICES ASSUME NEW u
               PROVE  Queueing(new, u) <=> u # t /\ Queueing(lock, u)
    OBVIOUS
  <2>1. Queueing(new, u) <=> \E i \in DOMAIN Tail(q) : Tail(q)[i][1] = u
    BY <1>2, Zenon DEF Queueing
  <2>2. Queueing(lock, u) <=> \E i \in DOMAIN q : q[i][1] = u
    BY DEF Queueing, q
  <2>3. (\E i \in DOMAIN Tail(q) : Tail(q)[i][1] = u) <=> u # t
          /\ \E i \in DOMAIN q : q[i][1] = u
    BY <1>3, <1>4, Zenon
  <2> QED
    BY <2>1, <2>2, <2>3
<1>10. \A u : Owning(new, u) <=> Owning(lock, u)
  <2> SUFFICES ASSUME NEW u
               PROVE  Owning(new, u) <=> Owning(lock, u)
    OBVIOUS
  <2> DEFINE x == <<u, "exclusive">>
  <2>1. x[1] = u
    OBVIOUS
  <2> HIDE DEF x
  <2>2. Mode(Tail(q), u, "exclusive") <=> u # t /\ \E i \in DOMAIN q : q[i] = x
    BY <1>3, <1>4, <2>1, Zenon DEF Mode, x
  <2>3. x = e \/ u # t \/ ~\E i \in DOMAIN q : q[i] = x
    <3> SUFFICES ASSUME u = t, NEW i \in DOMAIN q, q[i] = x
                 PROVE  x = e
      OBVIOUS
    <3>1. PICK j \in DOMAIN q : q[j] = e
      BY <1>3
    <3>2. q[i][1] = q[j][1]
      BY <3>1, <1>4, <2>1
    <3>3. i = j
      BY <3>2, <1>1 DEF Once
    <3> QED
      BY <3>1, <3>3
  <2>4. x = e => \E i \in DOMAIN q : q[i] = x
    BY <1>3
  <2> QED
    BY <1>2, <2>2, <2>3, <2>4 DEF Owning, Mode, q, x
<1> QED
  BY <1>4, <1>6, <1>7, <1>8, <1>9, <1>10

(* t gives the lock back.                                                  *)
LEMMA LockFreed ==
    ASSUME NEW lock, LockInv(lock), NEW t \in Parties, ~Queueing(lock, t),
           NEW new, new = [lock EXCEPT !.holders = {h \in @ : h[1] # t}]
    PROVE  /\ LockInv(new)
           /\ \A u : Having(new, u) <=> u # t /\ Having(lock, u)
           /\ \A u : Queueing(new, u) <=> Queueing(lock, u)
           /\ \A u : Owning(new, u) <=> u # t /\ Owning(lock, u)
<1>1. lock.holders \in SUBSET Entries /\ lock.queue \in Seq(Entries) /\ lock \in Lock
  BY DEF LockInv, Lock
<1>2. new.holders = {h \in lock.holders : h[1] # t} /\ new.queue = lock.queue
      /\ new = [holders |-> {h \in lock.holders : h[1] # t}, queue |-> lock.queue]
  BY <1>1 DEF Lock
<1>3. \A u, mode : <<u, mode>> \in new.holders <=> u # t /\ <<u, mode>> \in lock.holders
  BY <1>2
<1>4. Single(new.holders)
  <2> SUFFICES ASSUME NEW u \in Parties, <<u, "exclusive">> \in new.holders
               PROVE  new.holders = {<<u, "exclusive">>}
    BY DEF Single
  <2>1. lock.holders = {<<u, "exclusive">>}
    BY <1>3 DEF LockInv, Single
  <2> QED
    BY <1>2, <2>1
<1>5. LockInv(new)
  BY <1>1, <1>2, <1>4 DEF LockInv, Lock
<1>6. \A u : Having(new, u) <=> u # t /\ Having(lock, u)
  BY <1>3 DEF Having
<1>7. \A u : Queueing(new, u) <=> Queueing(lock, u)
  BY <1>2 DEF Queueing
<1>8. ~Mode(lock.queue, t, "exclusive")
  BY DEF Queueing, Mode
<1>9. \A u : Owning(new, u) <=> u # t /\ Owning(lock, u)
  <2> HIDE DEF Mode
  <2> QED
    BY <1>2, <1>3, <1>8, Zenon DEF Owning
<1> QED
  BY <1>5, <1>6, <1>7, <1>9

(* t, that has the lock alone, shares it.                                  *)
LEMMA LockDowngraded ==
    ASSUME NEW lock, LockInv(lock), NEW t \in Parties, ~Queueing(lock, t),
           <<t, "exclusive">> \in lock.holders,
           NEW new, new = [lock EXCEPT !.holders = {<<t, "shared">>}]
    PROVE  /\ LockInv(new)
           /\ \A u : Having(new, u) <=> Having(lock, u)
           /\ \A u : Queueing(new, u) <=> Queueing(lock, u)
           /\ \A u : Owning(new, u) <=> u # t /\ Owning(lock, u)
<1>1. lock.holders = {<<t, "exclusive">>} /\ lock.queue \in Seq(Entries) /\ lock \in Lock
  BY DEF LockInv, Lock, Single
<1>2. new.holders = {<<t, "shared">>} /\ new.queue = lock.queue
      /\ new = [holders |-> {<<t, "shared">>}, queue |-> lock.queue]
  BY <1>1 DEF Lock
<1>3. /\ \A u, mode : <<u, mode>> \in new.holders <=> u = t /\ mode = "shared"
      /\ \A u, mode : <<u, mode>> \in lock.holders <=> u = t /\ mode = "exclusive"
  BY <1>1, <1>2
<1>4. "shared" \in Modes /\ "exclusive" \in Modes /\ "shared" # "exclusive"
  BY DEF Modes
<1>5. LockInv(new)
  BY <1>1, <1>2, <1>3, <1>4 DEF LockInv, Lock, Single, Entries
<1>6. \A u : Having(new, u) <=> Having(lock, u)
  BY <1>3, <1>4 DEF Having
<1>7. \A u : Queueing(new, u) <=> Queueing(lock, u)
  BY <1>2 DEF Queueing
<1>8. ~Mode(lock.queue, t, "exclusive")
  BY DEF Queueing, Mode
<1>9. \A u : Owning(new, u) <=> u # t /\ Owning(lock, u)
  BY <1>2, <1>3, <1>4, <1>8, Zenon DEF Owning
<1> QED
  BY <1>5, <1>6, <1>7, <1>9

(***************************************************************************)
(* All locks                                                               *)
(***************************************************************************)
LEMMA Views ==
    ASSUME NEW t
    PROVE  /\ \A l : l \in Mine(t) <=> l \in LoLocks /\ Having(loLock[l], t)
           /\ \A l : l \in Queued(t) <=> l \in LoLocks /\ Queueing(loLock[l], t)
           /\ \A l : l \in Alone(t) <=> l \in LoLocks /\ Owning(loLock[l], t)
           /\ \A l : l \in Mine(t)' <=> l \in LoLocks /\ Having(loLock'[l], t)
           /\ \A l : l \in Queued(t)' <=> l \in LoLocks /\ Queueing(loLock'[l], t)
           /\ \A l : l \in Alone(t)' <=> l \in LoLocks /\ Owning(loLock'[l], t)
<1>1. (\A l : l \in Mine(t) <=> l \in LoLocks /\ Having(loLock[l], t))
  BY DEF Mine, Has, Holds, Request, Having
<1>2. \A l : l \in Queued(t) <=> l \in LoLocks /\ Queueing(loLock[l], t)
  BY DEF Queued, Queueing
<1>3. \A l : l \in Alone(t) <=> l \in LoLocks /\ Owning(loLock[l], t)
  BY DEF Alone, Owning
<1>4. \A l : l \in Mine(t)' <=> l \in LoLocks /\ Having(loLock'[l], t)
  BY DEF Mine, Has, Holds, Request, Having
<1>5. \A l : l \in Queued(t)' <=> l \in LoLocks /\ Queueing(loLock'[l], t)
  BY DEF Queued, Queueing
<1>6. \A l : l \in Alone(t)' <=> l \in LoLocks /\ Owning(loLock'[l], t)
  BY DEF Alone, Owning
<1> QED
  BY <1>1, <1>2, <1>3, <1>4, <1>5, <1>6

(* What the locks tell of every thread they tell of what the thread has.   *)
LEMMA ViewSets ==
    ASSUME NEW t
    PROVE  /\ Mine(t) = {l \in LoLocks : Having(loLock[l], t)}
           /\ Queued(t) = {l \in LoLocks : Queueing(loLock[l], t)}
           /\ Alone(t) = {l \in LoLocks : Owning(loLock[l], t)}
           /\ Mine(t)' = {l \in LoLocks : Having(loLock'[l], t)}
           /\ Queued(t)' = {l \in LoLocks : Queueing(loLock'[l], t)}
           /\ Alone(t)' = {l \in LoLocks : Owning(loLock'[l], t)}
  BY DEF Mine, Queued, Alone, Has, Holds, Request, Having, Queueing, Owning

LEMMA SameViews ==
    ASSUME UNCHANGED loLock
    PROVE  \A t : Mine(t)' = Mine(t) /\ Queued(t)' = Queued(t) /\ Alone(t)' = Alone(t)
  BY DEF Mine, Queued, Alone, Has, Holds

(* t begins to queue for l.                                                *)
LEMMA Arrives ==
    ASSUME LoTypeOK, LockInvs, NEW t \in Parties, NEW l \in LoLocks, NEW mode \in Modes,
           Queued(t) = {},
           loLock' = [loLock EXCEPT ![l].queue = Append(@, <<t, mode>>)]
    PROVE  /\ LockInvs' /\ loLock' = [k \in LoLocks |-> loLock'[k]]
           /\ \A u : Mine(u)' = Mine(u)
           /\ \A u : u # t => Queued(u)' = Queued(u) /\ Alone(u)' = Alone(u)
           /\ Queued(t)' = {l}
           /\ Alone(t)' = IF mode = "exclusive" THEN Alone(t) \union {l} ELSE Alone(t)
<1>1. loLock = [k \in LoLocks |-> loLock[k]]
  BY DEF LoTypeOK
<1>2. /\ loLock' = [k \in LoLocks |-> loLock'[k]]
      /\ loLock'[l] = [loLock[l] EXCEPT !.queue = Append(@, <<t, mode>>)]
      /\ \A k \in LoLocks : k # l => loLock'[k] = loLock[k]
  BY <1>1
<1>3. LockInv(loLock[l]) /\ ~Queueing(loLock[l], t)
  BY Views DEF LockInvs
<1>4. /\ LockInv(loLock'[l])
      /\ \A u : Having(loLock'[l], u) <=> Having(loLock[l], u)
      /\ \A u : Queueing(loLock'[l], u) <=> u = t \/ Queueing(loLock[l], u)
      /\ \A u : Owning(loLock'[l], u) <=> (u = t /\ mode = "exclusive") \/ Owning(loLock[l], u)
  <2> DEFINE new == loLock'[l]
             old == loLock[l]
  <2>1. new = [old EXCEPT !.queue = Append(@, <<t, mode>>)]
    BY <1>2
  <2> HIDE DEF new, old
  <2>2. LockInv(old) /\ ~Queueing(old, t)
    BY <1>3 DEF old
  <2>3. /\ LockInv(new)
        /\ \A u : Having(new, u) <=> Having(old, u)
        /\ \A u : Queueing(new, u) <=> u = t \/ Queueing(old, u)
        /\ \A u : Owning(new, u) <=> (u = t /\ mode = "exclusive") \/ Owning(old, u)
    BY <2>1, <2>2, LockArrival
  <2> QED
    BY <2>3 DEF new, old
<1>5. LockInvs'
  BY <1>2, <1>4 DEF LockInvs
<1>6. ASSUME NEW k \in LoLocks, NEW u
      PROVE  /\ Having(loLock'[k], u) <=> Having(loLock[k], u)
             /\ Queueing(loLock'[k], u) <=> (u = t /\ k = l) \/ Queueing(loLock[k], u)
             /\ Owning(loLock'[k], u)
                  <=> (u = t /\ k = l /\ mode = "exclusive") \/ Owning(loLock[k], u)
  <2>1. CASE k = l
    BY <2>1, <1>4, Zenon
  <2>2. CASE k # l
    BY <2>2, <1>2, Zenon
  <2> QED
    BY <2>1, <2>2
<1>7. ASSUME NEW u
      PROVE  /\ Mine(u)' = Mine(u)
             /\ Queued(u)' = {k \in LoLocks : (u = t /\ k = l) \/ k \in Queued(u)}
             /\ Alone(u)' = {k \in LoLocks : (u = t /\ k = l /\ mode = "exclusive") \/ k \in Alone(u)}
             /\ Queued(u) \subseteq LoLocks /\ Alone(u) \subseteq LoLocks
  <2>1. /\ Mine(u) = {k \in LoLocks : Having(loLock[k], u)}
        /\ Mine(u)' = {k \in LoLocks : Having(loLock'[k], u)}
    BY ViewSets
  <2>2. /\ Queued(u) = {k \in LoLocks : Queueing(loLock[k], u)}
        /\ Queued(u)' = {k \in LoLocks : Queueing(loLock'[k], u)}
    BY ViewSets
  <2>3. /\ Alone(u) = {k \in LoLocks : Owning(loLock[k], u)}
        /\ Alone(u)' = {k \in LoLocks : Owning(loLock'[k], u)}
    BY ViewSets
  <2>4. Mine(u)' = Mine(u)
    BY <1>6, <2>1
  <2>5. Queued(u)' = {k \in LoLocks : (u = t /\ k = l) \/ k \in Queued(u)}
    BY <1>6, <2>2
  <2>6. Alone(u)' = {k \in LoLocks : (u = t /\ k = l /\ mode = "exclusive") \/ k \in Alone(u)}
    BY <1>6, <2>3
  <2>7. Queued(u) \subseteq LoLocks /\ Alone(u) \subseteq LoLocks
    BY <2>2, <2>3
  <2> QED
    BY <2>4, <2>5, <2>6, <2>7
<1>8. ASSUME NEW u, u # t
      PROVE  Queued(u)' = Queued(u) /\ Alone(u)' = Alone(u)
  <2>1. Queued(u)' = Queued(u)
    BY <1>7, <1>8
  <2>2. Alone(u)' = Alone(u)
    BY <1>7, <1>8
  <2> QED
    BY <2>1, <2>2
<1>9. Queued(t)' = {l}
  BY <1>7
<1>10. Alone(t)' = IF mode = "exclusive" THEN Alone(t) \union {l} ELSE Alone(t)
  BY <1>7
<1> QED
  BY <1>2, <1>5, <1>7, <1>8, <1>9, <1>10

(* The first that queues for l gets it.                                    *)
LEMMA Granted ==
    ASSUME LoTypeOK, LockInvs, NEW l \in LoLocks, Grant(l)
    PROVE  /\ LockInvs' /\ loLock' = [k \in LoLocks |-> loLock'[k]]
           /\ \A u : Alone(u)' = Alone(u)
           /\ \E t \in Parties :
                /\ l \in Queued(t)
                /\ Mine(t)' = Mine(t) \union {l} /\ Queued(t)' = Queued(t) \ {l}
                /\ \A u : u # t => Mine(u)' = Mine(u) /\ Queued(u)' = Queued(u)
<1>1. loLock = [k \in LoLocks |-> loLock[k]]
  BY DEF LoTypeOK
<1>c. SUFFICES ASSUME NEW lock, lock = loLock[l], NEW t, t = Head(lock.queue)[1],
                      NEW new, new = [holders |-> lock.holders \union {Head(lock.queue)},
                                      queue |-> Tail(lock.queue)]
               PROVE  /\ LockInvs' /\ loLock' = [k \in LoLocks |-> loLock'[k]]
                      /\ \A u : Alone(u)' = Alone(u)
                      /\ t \in Parties /\ l \in Queued(t)
                      /\ Mine(t)' = Mine(t) \union {l} /\ Queued(t)' = Queued(t) \ {l}
                      /\ \A u : u # t => Mine(u)' = Mine(u) /\ Queued(u)' = Queued(u)
  BY Zenon
<1>2. /\ loLock' = [k \in LoLocks |-> loLock'[k]]
      /\ loLock'[l] = new
      /\ \A k \in LoLocks : k # l => loLock'[k] = loLock[k]
  BY <1>1, <1>c DEF Grant
<1>3. LockInv(lock) /\ lock.queue # <<>> /\ Compatible(lock.holders, Head(lock.queue)[2])
  BY <1>c DEF LockInvs, Grant
<1>4. /\ LockInv(new) /\ t \in Parties /\ Queueing(lock, t)
      /\ \A u : Having(new, u) <=> u = t \/ Having(lock, u)
      /\ \A u : Queueing(new, u) <=> u # t /\ Queueing(lock, u)
      /\ \A u : Owning(new, u) <=> Owning(lock, u)
  <2>1. new = [holders |-> lock.holders \union {Head(lock.queue)}, queue |-> Tail(lock.queue)]
        /\ t = Head(lock.queue)[1]
    BY <1>c
  <2> QED
    BY <1>3, <2>1, LockGranted, SMTT(20)
<1>5. LockInvs'
  BY <1>2, <1>4, <1>c DEF LockInvs
<1>6. ASSUME NEW k \in LoLocks, NEW u
      PROVE  /\ Having(loLock'[k], u) <=> (u = t /\ k = l) \/ Having(loLock[k], u)
             /\ Queueing(loLock'[k], u) <=> ~(u = t /\ k = l) /\ Queueing(loLock[k], u)
             /\ Owning(loLock'[k], u) <=> Owning(loLock[k], u)
  <2>1. CASE k = l
    BY <2>1, <1>2, <1>4, <1>c, Zenon
  <2>2. CASE k # l
    BY <2>2, <1>2, Zenon
  <2> QED
    BY <2>1, <2>2
<1>7. l \in Queued(t)
  BY <1>4, <1>c, Views
<1>8. ASSUME NEW u
      PROVE  /\ Mine(u)' = {k \in LoLocks : (u = t /\ k = l) \/ k \in Mine(u)}
             /\ Queued(u)' = {k \in LoLocks : ~(u = t /\ k = l) /\ k \in Queued(u)}
             /\ Alone(u)' = Alone(u)
             /\ Mine(u) \subseteq LoLocks /\ Queued(u) \subseteq LoLocks
  <2>1. /\ Mine(u) = {k \in LoLocks : Having(loLock[k], u)}
        /\ Mine(u)' = {k \in LoLocks : Having(loLock'[k], u)}
    BY ViewSets
  <2>2. /\ Queued(u) = {k \in LoLocks : Queueing(loLock[k], u)}
        /\ Queued(u)' = {k \in LoLocks : Queueing(loLock'[k], u)}
    BY ViewSets
  <2>3. /\ Alone(u) = {k \in LoLocks : Owning(loLock[k], u)}
        /\ Alone(u)' = {k \in LoLocks : Owning(loLock'[k], u)}
    BY ViewSets
  <2>4. Mine(u)' = {k \in LoLocks : (u = t /\ k = l) \/ k \in Mine(u)}
    BY <1>6, <2>1
  <2>5. Queued(u)' = {k \in LoLocks : ~(u = t /\ k = l) /\ k \in Queued(u)}
    BY <1>6, <2>2
  <2>6. Alone(u)' = Alone(u)
    BY <1>6, <2>3
  <2>7. Mine(u) \subseteq LoLocks /\ Queued(u) \subseteq LoLocks
    BY <2>1, <2>2
  <2> QED
    BY <2>4, <2>5, <2>6, <2>7
<1>9. Mine(t)' = Mine(t) \union {l} /\ Queued(t)' = Queued(t) \ {l}
  BY <1>8
<1>10. ASSUME NEW u, u # t
       PROVE  Mine(u)' = Mine(u) /\ Queued(u)' = Queued(u)
  <2>1. Mine(u)' = Mine(u)
    BY <1>8, <1>10
  <2>2. Queued(u)' = Queued(u)
    BY <1>8, <1>10
  <2> QED
    BY <2>1, <2>2
<1> QED
  BY <1>2, <1>4, <1>5, <1>7, <1>8, <1>9, <1>10

(* t gives back the locks of gone, and shares those of low.                *)
Freeing(t, gone, low) ==
    loLock' = [l \in LoLocks |-> [loLock[l] EXCEPT !.holders =
        IF l \in gone THEN {h \in @ : h[1] # t}
        ELSE IF l \in low THEN {<<t, "shared">>} ELSE @]]

LEMMA Freed ==
    ASSUME LoTypeOK, LockInvs, NEW t \in Parties, NEW gone, NEW low, Queued(t) = {},
           low \subseteq Alone(t), low \intersect gone = {}, Freeing(t, gone, low)
    PROVE  /\ LockInvs' /\ loLock' = [k \in LoLocks |-> loLock'[k]]
           /\ \A u : Queued(u)' = Queued(u)
           /\ \A u : u # t => Mine(u)' = Mine(u) /\ Alone(u)' = Alone(u)
           /\ Mine(t)' = Mine(t) \ gone
           /\ Alone(t)' = Alone(t) \ (gone \union low)
<1>0. loLock' = [l \in LoLocks |-> [loLock[l] EXCEPT !.holders =
          IF l \in gone THEN {h \in @ : h[1] # t}
          ELSE IF l \in low THEN {<<t, "shared">>} ELSE @]]
  BY DEF Freeing
<1>1. loLock' = [k \in LoLocks |-> loLock'[k]]
  BY <1>0
<1>2. \A l \in LoLocks : l \in gone
        => loLock'[l] = [loLock[l] EXCEPT !.holders = {h \in @ : h[1] # t}]
  BY <1>0, Zenon
<1>3. \A l \in LoLocks : l \notin gone /\ l \in low
                         => loLock'[l] = [loLock[l] EXCEPT !.holders = {<<t, "shared">>}]
  BY <1>0, Zenon
<1>4. \A l \in LoLocks : l \notin gone /\ l \notin low => loLock'[l] = loLock[l]
  <2> SUFFICES ASSUME NEW l \in LoLocks, l \notin gone, l \notin low
               PROVE  loLock'[l] = loLock[l]
    OBVIOUS
  <2>1. loLock'[l] = [loLock[l] EXCEPT !.holders = @]
    BY <1>0, Zenon
  <2>2. loLock[l] \in Lock
    BY DEF LockInvs, LockInv
  <2> QED
    BY <2>1, <2>2 DEF Lock
<1>5. \A l \in LoLocks : LockInv(loLock[l]) /\ ~Queueing(loLock[l], t)
  BY Views DEF LockInvs
<1>6. ASSUME NEW l \in LoLocks
      PROVE  /\ LockInv(loLock'[l])
             /\ \A u : Queueing(loLock'[l], u) <=> Queueing(loLock[l], u)
             /\ \A u : Having(loLock'[l], u) <=> (u # t \/ l \notin gone)
                  /\ Having(loLock[l], u)
             /\ \A u : Owning(loLock'[l], u)
                         <=> /\ u # t \/ (l \notin gone /\ l \notin low)
                             /\ Owning(loLock[l], u)
  <2>1. CASE l \in gone
    <3>1. /\ LockInv(loLock'[l])
          /\ \A u : Having(loLock'[l], u) <=> u # t /\ Having(loLock[l], u)
          /\ \A u : Queueing(loLock'[l], u) <=> Queueing(loLock[l], u)
          /\ \A u : Owning(loLock'[l], u) <=> u # t /\ Owning(loLock[l], u)
      BY <1>2, <1>5, <2>1, LockFreed
    <3> QED
      BY <2>1, <3>1, Zenon
  <2>2. CASE l \notin gone /\ l \in low
    <3>1. <<t, "exclusive">> \in loLock[l].holders
      <4>1. Owning(loLock[l], t)
        BY <2>2, Views
      <4>2. ~Mode(loLock[l].queue, t, "exclusive")
        BY <1>5 DEF Queueing, Mode
      <4> QED
        BY <4>1, <4>2 DEF Owning
    <3>2. /\ LockInv(loLock'[l])
          /\ \A u : Having(loLock'[l], u) <=> Having(loLock[l], u)
          /\ \A u : Queueing(loLock'[l], u) <=> Queueing(loLock[l], u)
          /\ \A u : Owning(loLock'[l], u) <=> u # t /\ Owning(loLock[l], u)
      BY <1>3, <1>5, <2>2, <3>1, LockDowngraded
    <3> QED
      BY <2>2, <3>2, Zenon
  <2>3. CASE l \notin gone /\ l \notin low
    <3>1. loLock'[l] = loLock[l]
      BY <2>3, <1>4
    <3> QED
      BY <2>3, <3>1, <1>5, Zenon
  <2> QED
    BY <2>1, <2>2, <2>3
<1>7. LockInvs'
  BY <1>6 DEF LockInvs
<1>8. ASSUME NEW u
      PROVE  /\ Queued(u)' = Queued(u)
             /\ Mine(u)' = {k \in LoLocks : (u # t \/ k \notin gone) /\ k \in Mine(u)}
             /\ Alone(u)' = {k \in LoLocks : /\ u # t \/ (k \notin gone /\ k \notin low)
                                             /\ k \in Alone(u)}
             /\ Mine(u) \subseteq LoLocks /\ Alone(u) \subseteq LoLocks
  <2>1. /\ Mine(u) = {k \in LoLocks : Having(loLock[k], u)}
        /\ Mine(u)' = {k \in LoLocks : Having(loLock'[k], u)}
    BY ViewSets
  <2>2. /\ Queued(u) = {k \in LoLocks : Queueing(loLock[k], u)}
        /\ Queued(u)' = {k \in LoLocks : Queueing(loLock'[k], u)}
    BY ViewSets
  <2>3. /\ Alone(u) = {k \in LoLocks : Owning(loLock[k], u)}
        /\ Alone(u)' = {k \in LoLocks : Owning(loLock'[k], u)}
    BY ViewSets
  <2>4. Mine(u)' = {k \in LoLocks : (u # t \/ k \notin gone) /\ k \in Mine(u)}
    BY <1>6, <2>1
  <2>5. Queued(u)' = Queued(u)
    BY <1>6, <2>2
  <2>6. Alone(u)' = {k \in LoLocks : /\ u # t \/ (k \notin gone /\ k \notin low)
                                    /\ k \in Alone(u)}
    BY <1>6, <2>3
  <2>7. Mine(u) \subseteq LoLocks /\ Alone(u) \subseteq LoLocks
    BY <2>1, <2>3
  <2> QED
    BY <2>4, <2>5, <2>6, <2>7
<1>9. ASSUME NEW u, u # t
      PROVE  Mine(u)' = Mine(u) /\ Alone(u)' = Alone(u)
  <2>1. Mine(u)' = Mine(u)
    BY <1>8, <1>9
  <2>2. Alone(u)' = Alone(u)
    BY <1>8, <1>9
  <2> QED
    BY <2>1, <2>2
<1>10. Mine(t)' = Mine(t) \ gone
  BY <1>8
<1>11. Alone(t)' = Alone(t) \ (gone \union low)
  BY <1>8
<1> QED
  BY <1>1, <1>7, <1>8, <1>9, <1>10, <1>11

(***************************************************************************)
(* One thread                                                              *)
(***************************************************************************)
(* What orders tell of locks.                                              *)
LEMMA Below ==
    ASSUME NEW k \in LoLocks
    PROVE  /\ ~(lock_order(k) < 4)
           /\ lock_order(k) < 5 <=> k = "serialize"
           /\ lock_order(k) < 7 <=> k \in {"serialize", "va_space"}
           /\ lock_order(k) < 8 <=> k \in {"serialize", "va_space", "rm_api"}
           /\ lock_order(k) < 9 <=> k \notin LoBlock
           /\ k \notin LoBlock <=> k \in {"serialize", "va_space", "rm_api", "rm_gpus"}
<1>1. k \in LoBlock \/ k \in {"serialize", "va_space", "rm_api", "rm_gpus"}
  BY DEF LoLocks, Loose
<1>2. k \in LoBlock => lock_order(k) = 9
        /\ k \notin {"serialize", "va_space", "rm_api", "rm_gpus"}
  BY OrderOf DEF Loose
<1> QED
  BY <1>1, <1>2, OrderOf

(* Whoever starts to queue for l, deeper than all it has, stays nested.    *)
LEMMA NestedDeeper ==
    ASSUME NEW M, NEW X, Nested(M, {}, X), NEW l \in LoLocks,
           \A k \in M : lock_order(k) < lock_order(l),
           NEW mode \in Modes, mode = "exclusive" \/ l = "va_space",
           NEW Y, Y = IF mode = "exclusive" THEN X \union {l} ELSE X
    PROVE  l \notin M /\ Nested(M, {l}, Y)
<1>1. M \subseteq LoLocks /\ X \subseteq M /\ IsFiniteSet(M) /\ Apart(M)
        /\ M \subseteq X \union {"va_space"}
  BY DEF Nested, Apart
<1>2. l \notin M
  BY <1>1, OrderOf
<1>3. IsFiniteSet(M \union {l})
  BY <1>1, FS_AddElement
<1>4. Apart(M \union {l})
  BY <1>1, OrderOf DEF Apart
<1>5. Y \subseteq M \union {l} /\ M \union {l} \subseteq Y \union {"va_space"}
  BY <1>1
<1> QED
  BY <1>1, <1>2, <1>3, <1>4, <1>5 DEF Nested

(* The next lock of a call can be queued for.                              *)
LEMMA AcquireShape ==
    ASSUME NEW d, NEW M, NEW X, Shape(d, M, {}, X), d # <<>>, NEW w, w = Head(d),
           NEW Y, Y = IF w.mode = "exclusive" THEN X \union {w.lock} ELSE X
    PROVE  /\ w.lock \in LoLocks /\ w.mode \in Modes /\ w = Request(w.lock, w.mode)
           /\ w.lock \notin M /\ Shape(Tail(d), M, {w.lock}, Y)
<1> DEFINE P == /\ w.lock \in LoLocks /\ w.mode \in Modes /\ w = Request(w.lock, w.mode)
                /\ w.lock \notin M /\ Shape(Tail(d), M, {w.lock}, Y)
<1>1. /\ Nested(M, {}, X) /\ Ruled(d, M, {}, X) /\ Todo(d, M, X)
      /\ M \subseteq LoLocks /\ X \subseteq M
  <2>1. M \union {} = M
    OBVIOUS
  <2> QED
    BY <2>1 DEF Shape, Nested
<1>2. ASSUME NEW l \in LoLocks, NEW mode \in Modes, w = Request(l, mode),
             mode = "exclusive" \/ l = "va_space",
             \A k \in M : lock_order(k) < lock_order(l),
             Ruled(Tail(d), M, {l}, Y), Todo(Tail(d), M \union {l}, Y)
      PROVE  P
  <2>1. w.lock = l /\ w.mode = mode
    BY <1>2 DEF Request
  <2>2. l \notin M /\ Nested(M, {l}, Y)
    BY <1>1, <1>2, <2>1, NestedDeeper
  <2> QED
    BY <1>2, <2>1, <2>2 DEF Shape
<1>3. "exclusive" \in Modes /\ "shared" \in Modes /\ "shared" # "exclusive"
  BY DEF Modes
<1>4. {"serialize", "va_space", "rm_api", "rm_gpus"} \subseteq LoLocks
        /\ LoBlock \subseteq LoLocks
  BY DEF LoLocks, Loose
<1> SUFFICES P
  OBVIOUS
<1> HIDE DEF P
<1>5. CASE d \in {<<SE, VX>>, <<SE, VS>>} /\ M = {}
  <2>1. w = SE /\ (Tail(d) = <<VX>> \/ Tail(d) = <<VS>>)
    <3>1. Head(<<SE, VX>>) = SE /\ Tail(<<SE, VX>>) = <<VX>>
      BY Tails
    <3>2. Head(<<SE, VS>>) = SE /\ Tail(<<SE, VS>>) = <<VS>>
      BY Tails
    <3> QED
      BY <1>5, <3>1, <3>2
  <2>2. Y = {"serialize"}
    BY <1>1, <1>5, <2>1, Requests
  <2>3. Todo(Tail(d), M \union {"serialize"}, Y)
    BY <1>5, <2>1 DEF Todo
  <2>4. Ruled(Tail(d), M, {"serialize"}, Y)
    BY <1>5, <2>1, <2>2 DEF Ruled
  <2>5. \A k \in M : lock_order(k) < lock_order("serialize")
    BY <1>5
  <2>9. w = Request("serialize", "exclusive") /\ "serialize" \in LoLocks
    BY <1>4, <2>1 DEF SE
  <2> QED
    BY <1>2, <1>3, <2>9, <2>3, <2>4, <2>5, Zenon
<1>6. CASE d = <<VX>> /\ M = {"serialize"}
  <2>1. w = VX /\ Tail(d) = <<>>
    BY <1>6, Tails
  <2>2. Y = X \union {"va_space"}
    BY <2>1, Requests
  <2>3. Todo(Tail(d), M \union {"va_space"}, Y)
    BY <2>1 DEF Todo
  <2>4. Ruled(Tail(d), M, {"va_space"}, Y)
    BY <1>6 DEF Ruled
  <2>5. \A k \in M : lock_order(k) < lock_order("va_space")
    BY <1>6, OrderOf
  <2>9. w = Request("va_space", "exclusive") /\ "va_space" \in LoLocks
    BY <1>4, <2>1 DEF VX
  <2> QED
    BY <1>2, <1>3, <2>9, <2>3, <2>4, <2>5, Zenon
<1>7. CASE d = <<VS>> /\ M \subseteq {"serialize"}
  <2>1. w = VS /\ Tail(d) = <<>>
    BY <1>7, Tails
  <2>2. Y = X
    BY <2>1, <1>3, Requests
  <2>3. Todo(Tail(d), M \union {"va_space"}, Y)
    BY <2>1 DEF Todo
  <2>4. Ruled(Tail(d), M, {"va_space"}, Y)
    BY <1>1, <1>7, <2>2 DEF Ruled
  <2>5. \A k \in M : lock_order(k) < lock_order("va_space")
    BY <1>7, OrderOf
  <2>9. w = Request("va_space", "shared") /\ "va_space" \in LoLocks
    BY <1>4, <2>1 DEF VS
  <2> QED
    BY <1>2, <1>3, <2>9, <2>3, <2>4, <2>5, Zenon
<1>8. CASE d = <<RA, RG>> /\ M \subseteq {"serialize", "va_space"} /\ RmFine(M, X)
  <2>1. w = RA /\ Tail(d) = <<RG>>
    BY <1>8, Tails
  <2>2. Y = X \union {"rm_api"}
    BY <2>1, Requests
  <2>3. Todo(Tail(d), M \union {"rm_api"}, Y)
    BY <1>8, <2>1 DEF Todo
  <2>4. \A x, y : <<x, y>> # <<VX>> /\ <<x, y>> # <<VS>>
    BY Tails
  <2>5. Ruled(Tail(d), M, {"rm_api"}, Y)
    BY <1>1, <1>8, <2>1, <2>2, <2>4 DEF Ruled, RmFine
  <2>6. \A k \in M : lock_order(k) < lock_order("rm_api")
    BY <1>8, OrderOf
  <2>9. w = Request("rm_api", "exclusive") /\ "rm_api" \in LoLocks
    BY <1>4, <2>1 DEF RA
  <2> QED
    BY <1>2, <1>3, <2>9, <2>3, <2>5, <2>6, Zenon
<1>9. CASE d = <<RG>> /\ "rm_api" \in M /\ M \subseteq {"serialize", "va_space", "rm_api"}
  <2>1. w = RG /\ Tail(d) = <<>>
    BY <1>9, Tails
  <2>2. Y = X \union {"rm_gpus"}
    BY <2>1, Requests
  <2>3. Todo(Tail(d), M \union {"rm_gpus"}, Y)
    BY <2>1 DEF Todo
  <2>4. <<RG>> # <<VX>> /\ <<RG>> # <<VS>>
    BY Requests
  <2>5. Ruled(Tail(d), M, {"rm_gpus"}, Y)
    BY <1>1, <1>9, <2>1, <2>2, <2>4 DEF Ruled, RmFine
  <2>6. \A k \in M : lock_order(k) < lock_order("rm_gpus")
    BY <1>9, OrderOf
  <2>9. w = Request("rm_gpus", "exclusive") /\ "rm_gpus" \in LoLocks
    BY <1>4, <2>1 DEF RG
  <2> QED
    BY <1>2, <1>3, <2>9, <2>3, <2>5, <2>6, Zenon
<1>10. ASSUME NEW b \in LoBlock, d = <<Request(b, "exclusive")>>, M \intersect LoBlock = {}
       PROVE  P
  <2>1. w = Request(b, "exclusive") /\ Tail(d) = <<>> /\ b \in LoLocks
    BY <1>4, <1>10, Tails
  <2>2. Y = X \union {b}
    BY <2>1, Requests
  <2>3. Todo(Tail(d), M \union {b}, Y)
    BY <2>1 DEF Todo
  <2>4. Request(b, "exclusive").lock = b
          /\ b \notin {"serialize", "va_space", "rm_api", "rm_gpus"}
    BY Requests, OrderOf DEF Loose
  <2>5. d # <<VX>> /\ d # <<VS>> /\ d # <<RG>>
    BY <1>10, <2>4, Requests
  <2>6. Ruled(Tail(d), M, {b}, Y)
    BY <1>1, <2>2, <2>4, <2>5 DEF Ruled, RmFine
  <2>7. \A k \in M : lock_order(k) < lock_order(b)
    BY <1>1, <1>10, OrderOf, Below
  <2> QED
    BY <1>2, <1>3, <2>1, <2>3, <2>6, <2>7
<1> QED
  <2>1. \/ d \in {<<SE, VX>>, <<SE, VS>>} /\ M = {}
        \/ d = <<VX>> /\ M = {"serialize"}
        \/ d = <<VS>> /\ M \subseteq {"serialize"}
        \/ d = <<RA, RG>> /\ M \subseteq {"serialize", "va_space"} /\ RmFine(M, X)
        \/ d = <<RG>> /\ "rm_api" \in M /\ M \subseteq {"serialize", "va_space", "rm_api"}
        \/ \E b \in LoBlock : d = <<Request(b, "exclusive")>> /\ M \intersect LoBlock = {}
    BY <1>1, Zenon DEF Todo
  <2> QED
    BY <2>1, <1>5, <1>6, <1>7, <1>8, <1>9, <1>10, Zenon

LEMMA GrantShape ==
    ASSUME NEW d, NEW M, NEW Q, NEW X, Shape(d, M, Q, X), NEW l \in Q,
           NEW N, N = M \union {l}
    PROVE  Q = {l} /\ Shape(d, N, {}, X) /\ N \union {} = M \union Q
<1>1. Q = {l}
  BY DEF Shape, Nested
<1>2. N \union {} = M \union Q
  BY <1>1
<1>3. Nested(N, {}, X)
  BY <1>1, <1>2 DEF Shape, Nested
<1>4. Ruled(d, N, {}, X)
  BY <1>2 DEF Shape, Ruled
<1> QED
  BY <1>1, <1>2, <1>3, <1>4 DEF Shape

(* A call that the tracking accepts can be made by a thread that is at     *)
(* rest.                                                                   *)
LEMMA AcceptedFirst ==
    ASSUME NEW M, NEW X, M \subseteq LoLocks, X \subseteq M, NEW call, NEW l \in LoLocks,
           NEW mode,
           call[1] = Request(l, mode), Accepted(Tracked(M, X), call)
    PROVE  \A k \in M : lock_order(k) < lock_order(l)
<1>1. __uvm_record_lock(Tracked(M, X), Request(l, mode)).ok
  BY Zenon DEF Accepted
<1> QED
  BY <1>1, RecordAccepted

LEMMA AcceptedRm ==
    ASSUME NEW M, NEW X, M \subseteq LoLocks, X \subseteq M, IsFiniteSet(M), "rm_api" \notin M,
           Accepted(Tracked(M, X), <<RA, RG>>)
    PROVE  RmFine(M, X)
<1> DEFINE call == <<RA, RG>>
           N == M \union {"rm_api"}
           Y == X \union {"rm_api"}
           first == __uvm_record_lock(Tracked(M, X), call[1])
<1>1. call[1] = Request("rm_api", "exclusive") /\ call[2] = Request("rm_gpus", "exclusive")
        /\ Len(call) = 2
  BY DEF RA, RG
<1>2. __uvm_record_lock(first.context, call[2]).ok
  <2> HIDE DEF call
  <2> QED
    BY <1>1 DEF Accepted, call
<1>3. first.context = Tracked(N, Y)
  <2>1. first.context = Recorded(Tracked(M, X), Request("rm_api", "exclusive"))
    BY <1>1 DEF __uvm_record_lock
  <2>2. Recorded(Tracked(M, X), Request("rm_api", "exclusive"))
        = Tracked(M \union {"rm_api"}, IF "exclusive" = "exclusive" THEN X \union {"rm_api"} ELSE X)
    BY RecordTracked DEF Modes
  <2> QED
    BY <2>1, <2>2
<1>4. N \subseteq LoLocks /\ Y \subseteq N /\ "rm_gpus" \in LoLocks
  BY DEF LoLocks, Loose
<1> HIDE DEF first, call, N, Y
<1>5. __uvm_record_lock(Tracked(N, Y), Request("rm_gpus", "exclusive")).ok
  BY <1>1, <1>2, <1>3
<1>6. RmFine(N, Y)
  BY <1>4, <1>5, RecordAccepted
<1> QED
  BY <1>6 DEF RmFine, N, Y

LEMMA StartShape ==
    ASSUME NEW M, NEW X, Shape(<<>>, M, {}, X), NEW call, Accepted(Tracked(M, X), call),
           \/ call \in {<<SE, VX>>, <<SE, VS>>, <<VS>>, <<RA, RG>>}
           \/ \E b \in LoBlock : call = <<Request(b, "exclusive")>>
    PROVE  Shape(call, M, {}, X)
<1>1. Nested(M, {}, X) /\ Ruled(<<>>, M, {}, X) /\ M \union {} = M
  BY DEF Shape
<1>2. /\ M \subseteq LoLocks /\ X \subseteq M /\ IsFiniteSet(M)
  BY <1>1 DEF Nested
<1>3. /\ "serialize" \in M => "va_space" \in M
      /\ "rm_api" \in M => "rm_gpus" \in M
  <2>1. <<>> # <<VX>> /\ <<>> # <<VS>> /\ <<>> # <<RG>>
    BY Tails
  <2> QED
    BY <1>1, <2>1 DEF Ruled
<1>4. Ruled(call, M, {}, X)
  BY <1>1, <1>3 DEF Ruled
<1> SUFFICES Todo(call, M, X)
  BY <1>1, <1>4 DEF Shape
<1>5. {"serialize", "va_space", "rm_api", "rm_gpus"} \subseteq LoLocks
        /\ LoBlock \subseteq LoLocks
  BY DEF LoLocks, Loose
<1>6. CASE call = <<SE, VX>> \/ call = <<SE, VS>>
  <2>1. call[1] = Request("serialize", "exclusive")
    BY <1>6, Tails DEF SE
  <2>2. \A k \in M : lock_order(k) < lock_order("serialize")
    BY <1>2, <1>5, <2>1, AcceptedFirst
  <2>3. M = {}
    BY <1>2, <2>2, OrderOf, Below
  <2> QED
    BY <1>6, <2>3 DEF Todo
<1>7. CASE call = <<VS>>
  <2>1. call[1] = Request("va_space", "shared")
    BY <1>7, Tails DEF VS
  <2>2. \A k \in M : lock_order(k) < lock_order("va_space")
    BY <1>2, <1>5, <2>1, AcceptedFirst
  <2>3. M \subseteq {"serialize"}
    BY <1>2, <2>2, OrderOf, Below
  <2> QED
    BY <1>7, <2>3 DEF Todo
<1>8. CASE call = <<RA, RG>>
  <2>1. call[1] = Request("rm_api", "exclusive")
    BY <1>8, Tails DEF RA
  <2>2. \A k \in M : lock_order(k) < lock_order("rm_api")
    BY <1>2, <1>5, <2>1, AcceptedFirst
  <2>3. M \subseteq {"serialize", "va_space"}
    BY <1>2, <2>2, OrderOf, Below
  <2>4. RmFine(M, X)
    BY <1>2, <1>8, <2>3, AcceptedRm
  <2> QED
    BY <1>8, <2>3, <2>4 DEF Todo
<1>9. ASSUME NEW b \in LoBlock, call = <<Request(b, "exclusive")>>
      PROVE  Todo(call, M, X)
  <2>1. call[1] = Request(b, "exclusive")
    BY <1>9, Tails
  <2>2. \A k \in M : lock_order(k) < lock_order(b)
    BY <1>2, <1>5, <2>1, AcceptedFirst
  <2>3. M \intersect LoBlock = {}
    BY <1>2, <2>2, OrderOf, Below
  <2> QED
    BY <1>9, <2>3 DEF Todo
<1> QED
  BY <1>6, <1>7, <1>8, <1>9

(* What a thread at rest has, by the deepest of its locks.                 *)
Deep(M, l) == l \in M /\ \A k \in M : lock_order(k) <= lock_order(l)

LEMMA DeepExists ==
    ASSUME NEW M, M # {}, M \subseteq LoLocks
    PROVE  \E l \in M : \A k \in M : lock_order(k) <= lock_order(l)
<1>1. ASSUME NEW b \in LoBlock, b \in M
      PROVE  \A k \in M : lock_order(k) <= lock_order(b)
  BY <1>1, OrderOf
<1>2. CASE \E b \in LoBlock : b \in M
  BY <1>1, <1>2
<1>3. CASE ~\E b \in LoBlock : b \in M
  <2>1. M \subseteq {"serialize", "va_space", "rm_api", "rm_gpus"}
    BY <1>3, Below
  <2>2. CASE "rm_gpus" \in M
    <3>1. \A k \in M : lock_order(k) <= lock_order("rm_gpus")
      BY <2>1, OrderOf
    <3> QED
      BY <2>2, <3>1
  <2>3. CASE "rm_gpus" \notin M /\ "rm_api" \in M
    <3>1. \A k \in M : lock_order(k) <= lock_order("rm_api")
      BY <2>1, <2>3, OrderOf
    <3> QED
      BY <2>3, <3>1
  <2>4. CASE M \subseteq {"serialize", "va_space"} /\ "va_space" \in M
    <3>1. \A k \in M : lock_order(k) <= lock_order("va_space")
      BY <2>4, OrderOf
    <3> QED
      BY <2>4, <3>1
  <2>5. CASE M \subseteq {"serialize"}
    <3>1. M = {"serialize"}
      BY <2>5
    <3>2. \A k \in M : lock_order(k) <= lock_order("serialize")
      BY <3>1, OrderOf
    <3> QED
      BY <3>1, <3>2
  <2> QED
    BY <2>1, <2>2, <2>3, <2>4, <2>5
<1> QED
  BY <1>2, <1>3

LEMMA RestShape ==
    ASSUME NEW M, NEW X, Shape(<<>>, M, {}, X), NEW l, Deep(M, l)
    PROVE  /\ M \subseteq LoLocks /\ X \subseteq M /\ IsFiniteSet(M) /\ Apart(M)
           /\ M \subseteq X \union {"va_space"}
           /\ l \in LoBlock \/ l = "rm_gpus" \/ l = "va_space"
           /\ l = "rm_gpus" => "rm_api" \in M /\ {"rm_api", "rm_gpus"} \subseteq X
                               /\ M \subseteq {"serialize", "va_space", "rm_api", "rm_gpus"}
           /\ l = "va_space" => /\ M \subseteq {"serialize", "va_space"}
                                /\ l \in X => M = {"serialize", "va_space"} /\ X = M
                                /\ l \notin X => X = M \ {"va_space"}
<1>1. Nested(M, {}, X) /\ Ruled(<<>>, M, {}, X) /\ M \union {} = M
  BY DEF Shape
<1>2. /\ M \subseteq LoLocks /\ X \subseteq M /\ IsFiniteSet(M) /\ Apart(M)
           /\ M \subseteq X \union {"va_space"}
  BY <1>1 DEF Nested, Apart
<1>3. /\ "serialize" \in M => "va_space" \in M
      /\ "rm_api" \in M => "rm_gpus" \in M
      /\ "rm_gpus" \in M => "rm_api" \in M
      /\ "va_space" \in X => "serialize" \in M
  <2>1. <<>> # <<VX>> /\ <<>> # <<VS>> /\ <<>> # <<RG>>
    BY Tails
  <2> QED
    BY <1>1, <2>1 DEF Ruled
<1>4. \A k \in M : lock_order(k) <= lock_order(l)
  BY DEF Deep
<1>5. l \in M /\ l \in LoLocks
  BY <1>2 DEF Deep
<1>6. l # "serialize" /\ l # "rm_api"
  BY <1>3, <1>4, <1>5, OrderOf
<1>7. l \in LoBlock \/ l = "rm_gpus" \/ l = "va_space"
  BY <1>5, <1>6, Below
<1>8. ASSUME l = "rm_gpus"
      PROVE  "rm_api" \in M /\ {"rm_api", "rm_gpus"} \subseteq X
             /\ M \subseteq {"serialize", "va_space", "rm_api", "rm_gpus"}
  <2>1. \A k \in M : k \notin LoBlock
    BY <1>4, <1>8, OrderOf
  <2> QED
    BY <1>2, <1>3, <1>5, <1>8, <2>1, Below
<1>9. ASSUME l = "va_space"
      PROVE  /\ M \subseteq {"serialize", "va_space"}
             /\ l \in X => M = {"serialize", "va_space"} /\ X = M
             /\ l \notin X => X = M \ {"va_space"}
  <2>1. M \subseteq {"serialize", "va_space"}
    BY <1>2, <1>4, <1>9, OrderOf, Below
  <2>2. ASSUME l \in X
        PROVE  M = {"serialize", "va_space"} /\ X = M
    BY <1>2, <1>3, <1>9, <2>1, <2>2
  <2>3. ASSUME l \notin X
        PROVE  X = M \ {"va_space"}
    BY <1>2, <1>9, <2>3
  <2> QED
    BY <2>1, <2>2, <2>3
<1> QED
  BY <1>2, <1>7, <1>8, <1>9

(***************************************************************************)
(* Releases                                                                *)
(***************************************************************************)
Gone(r) == {r.unlocks[i].lock : i \in DOMAIN r.unlocks}

(* What a thread with M and X has after the release r.                     *)
Kept(M, r) == M \ Gone(r)
KeptAlone(X, r) == X \ (IF r.downgrade THEN Gone(r) \union {"va_space"} ELSE Gone(r))

(* The tracking accepted what was done so far, and the context is c.       *)
Fine(v, c) == v.ok /\ v.context = c

LEMMA FineUnlocked ==
    ASSUME NEW v, NEW c, NEW d, NEW w, NEW out, Fine(v, c),
           __uvm_record_unlock(c, w, out).ok, __uvm_record_unlock(c, w, out).context = d
    PROVE  Fine(Unlocked(v, w, out), d)
<1> DEFINE u == __uvm_record_unlock(v.context, w, out)
<1>1. v.ok /\ v.context = c
  BY DEF Fine
<1>2. u.ok /\ u.context = d
  BY <1>1, Zenon
<1>3. Unlocked(v, w, out) = [ok |-> v.ok /\ u.ok, context |-> u.context]
  BY DEF Unlocked
<1> HIDE DEF u
<1>4. [ok |-> v.ok /\ u.ok, context |-> u.context].ok
  BY <1>1, <1>2
<1>5. [ok |-> v.ok /\ u.ok, context |-> u.context].context = d
  BY <1>2
<1> QED
  BY <1>3, <1>4, <1>5, Zenon DEF Fine

(* One lock is given back, the deepest or out of order.                    *)
LEMMA FineDeepest ==
    ASSUME NEW M, NEW X \in SUBSET M, M \subseteq LoLocks, IsFiniteSet(M), Apart(M),
           NEW l \in M, NEW mode \in Modes, l \in X <=> mode = "exclusive",
           \A k \in M : lock_order(k) <= lock_order(l), NEW v, Fine(v, Tracked(M, X))
    PROVE  Fine(Unlocked(v, Request(l, mode), FALSE), Tracked(M \ {l}, X \ {l}))
<1> SUFFICES ASSUME NEW out, out = FALSE
             PROVE  Fine(Unlocked(v, Request(l, mode), out), Tracked(M \ {l}, X \ {l}))
  OBVIOUS
<1>1. out \/ \A k \in M : lock_order(k) <= lock_order(l)
  OBVIOUS
<1>2. /\ __uvm_record_unlock(Tracked(M, X), Request(l, mode), out).ok
      /\ __uvm_record_unlock(Tracked(M, X), Request(l, mode), out).context = Tracked(M \ {l}, X \ {l})
  BY <1>1, UnlockTracked
<1> QED
  BY <1>2, FineUnlocked, Zenon

LEMMA FineAny ==
    ASSUME NEW M, NEW X \in SUBSET M, M \subseteq LoLocks, IsFiniteSet(M), Apart(M),
           NEW l \in M, NEW mode \in Modes, l \in X <=> mode = "exclusive",
           NEW v, Fine(v, Tracked(M, X))
    PROVE  Fine(Unlocked(v, Request(l, mode), TRUE), Tracked(M \ {l}, X \ {l}))
<1> SUFFICES ASSUME NEW out, out = TRUE
             PROVE  Fine(Unlocked(v, Request(l, mode), out), Tracked(M \ {l}, X \ {l}))
  OBVIOUS
<1>1. out
  OBVIOUS
<1> DEFINE P(o) == /\ __uvm_record_unlock(Tracked(M, X), Request(l, mode), o).ok
                   /\ __uvm_record_unlock(Tracked(M, X), Request(l, mode), o).context
                      = Tracked(M \ {l}, X \ {l})
<1>2. \A o : (o \/ \A k \in M : lock_order(k) <= lock_order(l)) => P(o)
  BY UnlockTracked
<1>3. P(out)
  BY <1>1, <1>2, Zenon
<1> QED
  BY <1>3, FineUnlocked, Zenon

LEMMA FineSkipping ==
    ASSUME NEW l, NEW mode, NEW v, Fine(v, Skipping({l}))
    PROVE  Fine(Unlocked(v, Request(l, mode), FALSE), Skipping({}))
<1>1. /\ __uvm_record_unlock(Skipping({l}), Request(l, mode), FALSE).ok
      /\ __uvm_record_unlock(Skipping({l}), Request(l, mode), FALSE).context = Skipping({})
  BY UnlockSkipping, Zenon
<1> QED
  BY <1>1, FineUnlocked, Zenon

LEMMA FineDowngraded ==
    ASSUME NEW M, NEW X \in SUBSET M, Apart(M), "va_space" \in X
    PROVE  Fine(Downgraded(Tracked(M, X)), Tracked(M, X \ {"va_space"}))
  BY DowngradeTracked, Zenon DEF Downgraded, Fine

LEMMA FineFirst ==
    ASSUME NEW c
    PROVE  Fine([ok |-> TRUE, context |-> c], c)
<1>1. [ok |-> TRUE, context |-> c].ok
  OBVIOUS
<1>2. [ok |-> TRUE, context |-> c].context = c
  OBVIOUS
<1> QED
  BY <1>1, <1>2, Zenon DEF Fine

(* What is given back, by the number of unlocks.                           *)
LEMMA ReleaseParts ==
    ASSUME NEW q
    PROVE  /\ Release(q, FALSE, FALSE).unlocks = q /\ ~Release(q, FALSE, FALSE).downgrade
           /\ Release(q, TRUE, FALSE).unlocks = q /\ Release(q, TRUE, FALSE).downgrade
           /\ Release(q, TRUE, TRUE).unlocks = q /\ Release(q, TRUE, TRUE).downgrade
  BY DEF Release

LEMMA AfterIs ==
    ASSUME NEW t, NEW q
    PROVE  /\ Len(q) = 1
                => AfterRelease(t, Release(q, FALSE, FALSE))
                   = Unlocked([ok |-> TRUE, context |-> loContext[t]], q[1], FALSE)
           /\ Len(q) = 2
                => AfterRelease(t, Release(q, FALSE, FALSE))
                   = Unlocked(Unlocked([ok |-> TRUE, context |-> loContext[t]], q[1], FALSE), q[2], FALSE)
           /\ Len(q) = 0 => AfterRelease(t, Release(q, TRUE, FALSE)) = Downgraded(loContext[t])
           /\ Len(q) = 1 => AfterRelease(t, Release(q, TRUE, TRUE))
                            = Unlocked(Downgraded(loContext[t]), q[1], TRUE)
<1>3. 0 # 1 /\ 0 # 2 /\ 1 # 2
  OBVIOUS
<1>4. Len(q) = 1
        => AfterRelease(t, Release(q, FALSE, FALSE))
           = Unlocked([ok |-> TRUE, context |-> loContext[t]], q[1], FALSE)
  BY <1>3, Zenon DEF AfterRelease, Release
<1>5. Len(q) = 2
        => AfterRelease(t, Release(q, FALSE, FALSE))
           = Unlocked(Unlocked([ok |-> TRUE, context |-> loContext[t]], q[1], FALSE), q[2], FALSE)
  BY <1>3, Zenon DEF AfterRelease, Release
<1>6. Len(q) = 0 => AfterRelease(t, Release(q, TRUE, FALSE)) = Downgraded(loContext[t])
  BY <1>3, Zenon DEF AfterRelease, Release
<1>7. Len(q) = 1 => AfterRelease(t, Release(q, TRUE, TRUE)) = Unlocked(Downgraded(loContext[t]), q[1], TRUE)
  BY <1>3, Zenon DEF AfterRelease, Release
<1> QED
  BY <1>4, <1>5, <1>6, <1>7, Zenon

(* The one lock, or the two, that a release gives back.                    *)
LEMMA GoneIs ==
    ASSUME NEW r, NEW a, NEW b
    PROVE  /\ r.unlocks = <<>> => Gone(r) = {}
           /\ r.unlocks = <<a>> => Gone(r) = {a.lock}
           /\ r.unlocks = Reverse(<<a, b>>) => Gone(r) = {a.lock, b.lock}
<1>1. r.unlocks = <<>> => Gone(r) = {}
  BY DEF Gone
<1>2. ASSUME r.unlocks = <<a>>
      PROVE  Gone(r) = {a.lock}
  <2>1. DOMAIN <<a>> = {1} /\ <<a>>[1] = a
    OBVIOUS
  <2> DEFINE q == <<a>>
  <2> HIDE DEF q
  <2>2. {q[i].lock : i \in DOMAIN q} = {a.lock}
    BY <2>1 DEF q
  <2> QED
    BY <1>2, <2>2, Zenon DEF Gone, q
<1>3. ASSUME r.unlocks = Reverse(<<a, b>>)
      PROVE  Gone(r) = {a.lock, b.lock}
  <2> DEFINE q == Reverse(<<a, b>>)
  <2>1. DOMAIN q = {1, 2} /\ q[1] = b /\ q[2] = a
    BY Reversed
  <2> HIDE DEF q
  <2>2. {q[i].lock : i \in DOMAIN q} = {a.lock, b.lock}
    BY <2>1
  <2> QED
    BY <1>3, <2>2, Zenon DEF Gone, q
<1> QED
  BY <1>1, <1>2, <1>3

Back(l, mode) == Release(<<Request(l, mode)>>, FALSE, FALSE)
BackTwo(l, second, k, first) ==
    Release(Reverse(<<Request(l, second), Request(k, first)>>), FALSE, FALSE)

(* t has the locks M, of which X are exclusive; l, taken in this mode, is  *)
(* the deepest of those not in gone.                                       *)
Owns(t, M, X) ==
    loContext[t] = Tracked(M, X) /\ X \subseteq M /\ M \subseteq LoLocks /\ IsFiniteSet(M)
      /\ Apart(M)
Top(M, X, gone, l, mode) ==
    /\ l \in M \ gone /\ mode \in Modes /\ (l \in X <=> mode = "exclusive")
    /\ \A k \in M \ gone : lock_order(k) <= lock_order(l)
TopTwo(M, X, k, first, l, second) == Top(M, X, {}, k, first) /\ Top(M, X, {k}, l, second)
Gave(t, r, M, X, gone) ==
    Fine(AfterRelease(t, r), Tracked(M \ gone, X \ gone)) /\ Gone(r) = gone /\ ~r.downgrade

LEMMA AfterOne ==
    ASSUME NEW t, NEW M, NEW X, Owns(t, M, X), NEW l, NEW mode, Top(M, X, {}, l, mode),
           NEW r, r = Back(l, mode)
    PROVE  Gave(t, r, M, X, {l})
<1>a. /\ loContext[t] = Tracked(M, X) /\ X \in SUBSET M /\ M \subseteq LoLocks /\ IsFiniteSet(M)
           /\ Apart(M)
      /\ l \in M /\ mode \in Modes /\ (l \in X <=> mode = "exclusive")
      /\ \A k \in M : lock_order(k) <= lock_order(l)
  BY DEF Owns, Top
<1> DEFINE w == Request(l, mode)
           f == [ok |-> TRUE, context |-> loContext[t]]
<1>1. Fine(f, Tracked(M, X))
  BY <1>a, FineFirst, Zenon
<1> HIDE DEF f
<1>2. Fine(Unlocked(f, w, FALSE), Tracked(M \ {l}, X \ {l}))
  BY <1>1, <1>a, FineDeepest
<1>3. w.lock = l
  BY DEF Request
<1> HIDE DEF w
<1>4. Len(<<w>>) = 1 /\ <<w>>[1] = w
  BY Tails, Zenon
<1>5. r = Release(<<w>>, FALSE, FALSE)
  BY Zenon DEF w, Back
<1>6. AfterRelease(t, r) = Unlocked(f, w, FALSE)
  <2> DEFINE q == <<w>>
  <2> HIDE DEF q
  <2>1. AfterRelease(t, Release(q, FALSE, FALSE))
        = Unlocked([ok |-> TRUE, context |-> loContext[t]], q[1], FALSE)
    BY <1>4, AfterIs, Zenon DEF q
  <2> QED
    BY <1>4, <1>5, <2>1, Zenon DEF f, q
<1>9. r.unlocks = <<w>> /\ ~r.downgrade
  BY <1>5, ReleaseParts, Zenon
<1>7. Gone(r) = {l}
  BY <1>3, <1>9, GoneIs
<1>8. ~r.downgrade
  BY <1>9
<1> QED
  BY <1>2, <1>6, <1>7, <1>8, Zenon DEF Gave

LEMMA AfterTwo ==
    ASSUME NEW t, NEW M, NEW X, Owns(t, M, X),
           NEW k, NEW first, NEW l, NEW second, TopTwo(M, X, k, first, l, second),
           NEW r, r = BackTwo(l, second, k, first)
    PROVE  Gave(t, r, M, X, {k, l})
<1>a. /\ loContext[t] = Tracked(M, X) /\ X \in SUBSET M /\ M \subseteq LoLocks /\ IsFiniteSet(M)
           /\ Apart(M)
      /\ k \in M /\ first \in Modes /\ (k \in X <=> first = "exclusive")
      /\ \A j \in M : lock_order(j) <= lock_order(k)
  BY DEF Owns, TopTwo, Top
<1>b. /\ l \in M /\ l # k /\ second \in Modes /\ (l \in X <=> second = "exclusive")
      /\ \A j \in M : j # k => lock_order(j) <= lock_order(l)
  BY DEF Owns, TopTwo, Top
<1> DEFINE a == Request(l, second)
           b == Request(k, first)
           f == [ok |-> TRUE, context |-> loContext[t]]
           N == M \ {k}
           Y == X \ {k}
<1>1. Fine(f, Tracked(M, X))
  BY <1>a, FineFirst, Zenon
<1> HIDE DEF f
<1>2. Fine(Unlocked(f, b, FALSE), Tracked(N, Y))
  BY <1>1, <1>a, FineDeepest
<1>3. Y \in SUBSET N /\ N \subseteq LoLocks /\ l \in N /\ (l \in Y <=> second = "exclusive")
      /\ \A j \in N : lock_order(j) <= lock_order(l)
  BY <1>a, <1>b
<1>4. Apart(N)
  BY <1>a DEF Apart
<1>5. IsFiniteSet(N)
  BY <1>a, FS_Subset
<1>6. N \ {l} = M \ {k, l} /\ Y \ {l} = X \ {k, l}
  OBVIOUS
<1>7. a.lock = l /\ b.lock = k
  BY DEF Request
<1> HIDE DEF N, Y
<1> DEFINE v == Unlocked(f, b, FALSE)
<1> HIDE DEF v
<1>8. Fine(Unlocked(v, a, FALSE), Tracked(N \ {l}, Y \ {l}))
  <2>1. Fine(v, Tracked(N, Y))
    BY <1>2 DEF v
  <2> QED
    BY <1>3, <1>4, <1>5, <1>b, <2>1, FineDeepest
<1> HIDE DEF a, b
<1> DEFINE q == Reverse(<<a, b>>)
<1>9. Len(q) = 2 /\ q[1] = b /\ q[2] = a
  BY Reversed
<1>10. r = Release(Reverse(<<a, b>>), FALSE, FALSE)
  BY Zenon DEF a, b, BackTwo
<1>11. AfterRelease(t, r) = Unlocked(v, a, FALSE)
  <2>1. r = Release(q, FALSE, FALSE)
    BY <1>10
  <2> HIDE DEF q
  <2> QED
    <3>1. AfterRelease(t, Release(q, FALSE, FALSE))
          = Unlocked(Unlocked([ok |-> TRUE, context |-> loContext[t]], q[1], FALSE), q[2], FALSE)
      BY <1>9, AfterIs, Zenon
    <3> QED
      BY <1>9, <2>1, <3>1, Zenon DEF f, v
<1>14. r.unlocks = Reverse(<<a, b>>) /\ ~r.downgrade
  BY <1>10, ReleaseParts, Zenon
<1>12. Gone(r) = {l, k}
  BY <1>7, <1>14, GoneIs
<1>13. ~r.downgrade
  BY <1>14
<1> QED
  <2>1. {l, k} = {k, l}
    OBVIOUS
  <2> QED
    BY <1>6, <1>8, <1>11, <1>12, <1>13, <2>1, Zenon DEF Gave

(* The VA space lock is downgraded, and the writers' lock given back or    *)
(* not.                                                                    *)
LEMMA AfterDowngrade ==
    ASSUME NEW t, NEW M, M = {"serialize", "va_space"}, IsFiniteSet(M), Apart(M),
           loContext[t] = Tracked(M, M)
    PROVE  /\ Fine(AfterRelease(t, uvm_va_space_downgrade_write), Tracked({"va_space"}, {}))
           /\ Gone(uvm_va_space_downgrade_write) = {"serialize"}
                /\ uvm_va_space_downgrade_write.downgrade
           /\ Fine(AfterRelease(t, uvm_va_space_downgrade_write_rm), Tracked(M, {"serialize"}))
           /\ Gone(uvm_va_space_downgrade_write_rm) = {}
                /\ uvm_va_space_downgrade_write_rm.downgrade
<1>1. M \ {"va_space"} = {"serialize"} /\ M \ {"serialize"} = {"va_space"}
        /\ {"serialize"} \ {"serialize"} = {}
      /\ M \subseteq LoLocks /\ "va_space" \in M /\ "serialize" \in M
  BY DEF LoLocks, Loose
<1> DEFINE r == uvm_va_space_downgrade_write
           s == uvm_va_space_downgrade_write_rm
           w == Request("serialize", "exclusive")
           first == Downgraded(loContext[t])
<1>2. Fine(first, Tracked(M, {"serialize"}))
  <2>1. Fine(Downgraded(Tracked(M, M)), Tracked(M, M \ {"va_space"}))
    BY <1>1, FineDowngraded
  <2> QED
    BY <1>1, <2>1, Zenon
<1>3. r = Release(<<w>>, TRUE, TRUE) /\ s = Release(<<>>, TRUE, FALSE)
  BY Zenon DEF uvm_va_space_downgrade_write, uvm_va_space_downgrade_write_rm, uvm_mutex_lock
<1> HIDE DEF r, s, first
<1>4. r.unlocks = <<w>> /\ r.downgrade /\ s.unlocks = <<>> /\ s.downgrade
  BY <1>3, ReleaseParts, Zenon
<1>5. w.lock = "serialize"
  BY DEF Request
<1>6. Fine(Unlocked(first, w, TRUE), Tracked({"va_space"}, {}))
  <2> DEFINE X == {"serialize"}
  <2>1. X \in SUBSET M /\ ("serialize" \in X <=> "exclusive" = "exclusive")
          /\ "exclusive" \in Modes
        /\ Fine(first, Tracked(M, X))
    BY <1>1, <1>2 DEF Modes
  <2> HIDE DEF X
  <2>2. Fine(Unlocked(first, w, TRUE), Tracked(M \ {"serialize"}, X \ {"serialize"}))
    BY <1>1, <2>1, FineAny
  <2> QED
    BY <1>1, <2>2 DEF X
<1> HIDE DEF w
<1>7. AfterRelease(t, r) = Unlocked(first, w, TRUE)
  <2> DEFINE q == <<w>>
  <2>1. Len(q) = 1 /\ q[1] = w
    BY Tails, Zenon
  <2> HIDE DEF q
  <2>2. AfterRelease(t, Release(q, TRUE, TRUE)) = Unlocked(Downgraded(loContext[t]), q[1], TRUE)
    BY <2>1, AfterIs, Zenon
  <2> QED
    BY <1>3, <2>1, <2>2, Zenon DEF first, q
<1>8. AfterRelease(t, s) = first
  <2> DEFINE q == <<>>
  <2>1. Len(q) = 0
    OBVIOUS
  <2> HIDE DEF q
  <2>2. AfterRelease(t, Release(q, TRUE, FALSE)) = Downgraded(loContext[t])
    BY <2>1, AfterIs, Zenon
  <2> QED
    BY <1>3, <2>2, Zenon DEF first, q
<1>9. Gone(r) = {"serialize"} /\ Gone(s) = {}
  BY <1>4, <1>5, GoneIs
<1> QED
  BY <1>2, <1>4, <1>6, <1>7, <1>8, <1>9, Zenon DEF r, s

(* What a thread keeps of what it has, if it gives back a lock with those  *)
(* that are taken together with it.                                        *)
LEMMA LessShape ==
    ASSUME NEW M, NEW X, Shape(<<>>, M, {}, X), NEW N, N \subseteq M,
           NEW Y, Y \subseteq N, N \subseteq Y \union {"va_space"},
           "serialize" \in N => "va_space" \in N,
           "rm_api" \in N <=> "rm_gpus" \in N,
           "va_space" \in Y => "serialize" \in N,
           "rm_api" \in N => RmFine(N, Y)
    PROVE  Shape(<<>>, N, {}, Y)
<1>1. Nested(M, {}, X) /\ N \union {} = N /\ M \union {} = M
  BY DEF Shape
<1>2. M \subseteq LoLocks /\ IsFiniteSet(M) /\ Apart(M)
  BY <1>1 DEF Nested
<1>3. IsFiniteSet(N)
  BY <1>2, FS_Subset
<1>4. Apart(N)
  BY <1>2 DEF Apart
<1>5. Nested(N, {}, Y)
  BY <1>1, <1>2, <1>3, <1>4 DEF Nested
<1>6. Ruled(<<>>, N, {}, Y) /\ Todo(<<>>, N, Y)
  BY DEF Ruled, Todo
<1> QED
  BY <1>1, <1>5, <1>6 DEF Shape

ReleaseFine(t, r, M, X) ==
    /\ r.downgrade => "va_space" \in X /\ "va_space" \notin Gone(r)
    /\ Shape(<<>>, Kept(M, r), {}, KeptAlone(X, r))
    /\ Fine(AfterRelease(t, r), Tracked(Kept(M, r), KeptAlone(X, r)))

LEMMA RestRuled ==
    ASSUME NEW M, NEW X, Shape(<<>>, M, {}, X)
    PROVE  /\ "serialize" \in M => "va_space" \in M
           /\ "rm_api" \in M <=> "rm_gpus" \in M
           /\ "va_space" \in X => "serialize" \in M
           /\ "rm_api" \in M => RmFine(M, X)
<1>1. <<>> # <<VX>> /\ <<>> # <<VS>> /\ <<>> # <<RG>>
  BY Tails
<1> QED
  BY <1>1 DEF Shape, Ruled

LEMMA FineUnlock ==
    ASSUME NEW t, NEW M, NEW X, Shape(<<>>, M, {}, X), loContext[t] = Tracked(M, X),
           NEW l \in LoBlock, Deep(M, l), NEW r, r = uvm_mutex_unlock(l)
    PROVE  ReleaseFine(t, r, M, X)
<1>1. /\ M \subseteq LoLocks /\ X \in SUBSET M /\ IsFiniteSet(M) /\ Apart(M)
           /\ M \subseteq X \union {"va_space"}
  BY RestShape
<1>2. l \in M /\ (\A k \in M : lock_order(k) <= lock_order(l)) /\ l \notin Loose
  BY OrderOf DEF Deep
<1>3. l \in X /\ l # "va_space" /\ l # "serialize" /\ l # "rm_api" /\ l # "rm_gpus"
  BY <1>1, <1>2 DEF Loose
<1>4. r = Back(l, "exclusive")
  BY Zenon DEF Back, uvm_mutex_unlock, uvm_mutex_lock
<1>5. Owns(t, M, X) /\ Top(M, X, {}, l, "exclusive")
  BY <1>1, <1>2, <1>3 DEF Modes, Owns, Top
<1>6. Fine(AfterRelease(t, r), Tracked(M \ {l}, X \ {l})) /\ Gone(r) = {l} /\ ~r.downgrade
  <2>1. Gave(t, r, M, X, {l})
    BY <1>4, <1>5, AfterOne, Zenon
  <2> QED
    BY <2>1 DEF Gave
<1>7. Kept(M, r) = M \ {l} /\ KeptAlone(X, r) = X \ {l}
  BY <1>6, Zenon DEF Kept, KeptAlone
<1>8. Shape(<<>>, M \ {l}, {}, X \ {l})
  <2>1. /\ "serialize" \in M => "va_space" \in M
        /\ "rm_api" \in M <=> "rm_gpus" \in M
        /\ "va_space" \in X => "serialize" \in M
        /\ "rm_api" \in M => RmFine(M, X)
    BY RestRuled
  <2> DEFINE N == M \ {l}
             Y == X \ {l}
  <2>2. /\ N \subseteq M /\ Y \subseteq N /\ N \subseteq Y \union {"va_space"}
        /\ "serialize" \in N => "va_space" \in N
        /\ "rm_api" \in N <=> "rm_gpus" \in N
        /\ "va_space" \in Y => "serialize" \in N
        /\ "rm_api" \in N => RmFine(N, Y)
    BY <1>1, <1>3, <2>1 DEF RmFine
  <2> HIDE DEF N, Y
  <2> QED
    BY <2>2, LessShape DEF N, Y
<1> QED
  BY <1>6, <1>7, <1>8, Zenon DEF ReleaseFine

LEMMA FineRm ==
    ASSUME NEW t, NEW M, NEW X, Shape(<<>>, M, {}, X), loContext[t] = Tracked(M, X),
           Deep(M, "rm_gpus"), NEW r, r = uvm_record_unlock_rm_all
    PROVE  ReleaseFine(t, r, M, X)
<1>1. /\ M \subseteq LoLocks /\ X \in SUBSET M /\ IsFiniteSet(M) /\ Apart(M)
           /\ M \subseteq X \union {"va_space"}
      /\ "rm_api" \in M /\ {"rm_api", "rm_gpus"} \subseteq X
      /\ M \subseteq {"serialize", "va_space", "rm_api", "rm_gpus"}
  BY RestShape
<1>2. "rm_gpus" \in M /\ \A k \in M : lock_order(k) <= lock_order("rm_gpus")
  BY DEF Deep
<1>3. r = BackTwo("rm_api", "exclusive", "rm_gpus", "exclusive")
  BY Zenon DEF BackTwo, uvm_record_unlock_rm_all, uvm_record_lock_rm_all
<1>4. \A j \in M : j # "rm_gpus" => lock_order(j) <= lock_order("rm_api")
  BY <1>1, OrderOf
<1>5. Owns(t, M, X) /\ TopTwo(M, X, "rm_gpus", "exclusive", "rm_api", "exclusive")
  BY <1>1, <1>2, <1>4 DEF Modes, Owns, Top, TopTwo
<1>6. Fine(AfterRelease(t, r), Tracked(M \ {"rm_gpus", "rm_api"}, X \ {"rm_gpus", "rm_api"}))
      /\ Gone(r) = {"rm_gpus", "rm_api"} /\ ~r.downgrade
  <2>1. Gave(t, r, M, X, {"rm_gpus", "rm_api"})
    BY <1>3, <1>5, AfterTwo, Zenon
  <2> QED
    BY <2>1 DEF Gave
<1>7. Kept(M, r) = M \ {"rm_gpus", "rm_api"} /\ KeptAlone(X, r) = X \ {"rm_gpus", "rm_api"}
  BY <1>6, Zenon DEF Kept, KeptAlone
<1>8. Shape(<<>>, M \ {"rm_gpus", "rm_api"}, {}, X \ {"rm_gpus", "rm_api"})
  <2>1. /\ "serialize" \in M => "va_space" \in M
        /\ "va_space" \in X => "serialize" \in M
    BY RestRuled
  <2> DEFINE N == M \ {"rm_gpus", "rm_api"}
             Y == X \ {"rm_gpus", "rm_api"}
  <2>2. /\ N \subseteq M /\ Y \subseteq N /\ N \subseteq Y \union {"va_space"}
        /\ "serialize" \in N => "va_space" \in N
        /\ "rm_api" \in N <=> "rm_gpus" \in N
        /\ "va_space" \in Y => "serialize" \in N
        /\ "rm_api" \in N => RmFine(N, Y)
    BY <1>1, <2>1
  <2> HIDE DEF N, Y
  <2> QED
    BY <2>2, LessShape DEF N, Y
<1> QED
  BY <1>6, <1>7, <1>8, Zenon DEF ReleaseFine

(* Nothing is kept.                                                        *)
LEMMA NoneShape ==
    ASSUME NEW M, NEW X, Shape(<<>>, M, {}, X)
    PROVE  Shape(<<>>, {}, {}, {})
<1> DEFINE N == {}
           Y == {}
<1>1. /\ N \subseteq M /\ Y \subseteq N /\ N \subseteq Y \union {"va_space"}
      /\ "serialize" \in N => "va_space" \in N
      /\ "rm_api" \in N <=> "rm_gpus" \in N
      /\ "va_space" \in Y => "serialize" \in N
      /\ "rm_api" \in N => RmFine(N, Y)
  OBVIOUS
<1> HIDE DEF N, Y
<1>2. Shape(<<>>, N, {}, Y)
  BY <1>1, LessShape
<1> QED
  BY <1>2 DEF N, Y

LEMMA FineAll ==
    ASSUME NEW t, NEW M, NEW X, Shape(<<>>, M, {}, X), X \subseteq M, NEW r, Gave(t, r, M, X, M)
    PROVE  ReleaseFine(t, r, M, X)
<1>1. Fine(AfterRelease(t, r), Tracked(M \ M, X \ M)) /\ Gone(r) = M /\ ~r.downgrade
  BY DEF Gave
<1>2. M \ M = {} /\ X \ M = {}
  OBVIOUS
<1>3. Kept(M, r) = {} /\ KeptAlone(X, r) = {}
  BY <1>1, <1>2, Zenon DEF Kept, KeptAlone
<1>4. Shape(<<>>, {}, {}, {})
  BY NoneShape
<1> QED
  BY <1>1, <1>2, <1>3, <1>4, Zenon DEF ReleaseFine

LEMMA FineUpWrite ==
    ASSUME NEW t, NEW M, NEW X, Shape(<<>>, M, {}, X), loContext[t] = Tracked(M, X),
           Deep(M, "va_space"), "va_space" \in X, NEW r, r = uvm_va_space_up_write
    PROVE  ReleaseFine(t, r, M, X)
<1>1. /\ M \subseteq LoLocks /\ IsFiniteSet(M) /\ Apart(M) /\ M = {"va_space", "serialize"}
           /\ X = M
  BY RestShape
<1>2. \A k \in M : lock_order(k) <= lock_order("va_space")
  BY DEF Deep
<1>3. r = BackTwo("serialize", "exclusive", "va_space", "exclusive")
  BY Zenon DEF BackTwo, uvm_va_space_up_write, uvm_va_space_down_write
<1>4. lock_order("serialize") <= lock_order("serialize")
  BY OrderOf
<1>5. Owns(t, M, X) /\ TopTwo(M, X, "va_space", "exclusive", "serialize", "exclusive")
  BY <1>1, <1>2, <1>4 DEF Modes, Owns, Top, TopTwo
<1>6. Gave(t, r, M, X, {"va_space", "serialize"})
  BY <1>3, <1>5, AfterTwo, Zenon
<1> QED
  BY <1>1, <1>6, FineAll

LEMMA FineUpReadRm ==
    ASSUME NEW t, NEW M, NEW X, Shape(<<>>, M, {}, X), loContext[t] = Tracked(M, X),
           Deep(M, "va_space"), "va_space" \notin X, "serialize" \in M, NEW r,
             r = uvm_va_space_up_read_rm
    PROVE  ReleaseFine(t, r, M, X)
<1>1. /\ M \subseteq LoLocks /\ IsFiniteSet(M) /\ Apart(M) /\ M = {"va_space", "serialize"}
      /\ X = {"serialize"}
  BY RestShape DEF Deep
<1>2. \A k \in M : lock_order(k) <= lock_order("va_space")
  BY DEF Deep
<1>3. r = BackTwo("serialize", "exclusive", "va_space", "shared")
  BY Zenon DEF BackTwo, uvm_va_space_up_read_rm, uvm_va_space_down_read_rm
<1>4. lock_order("serialize") <= lock_order("serialize")
  BY OrderOf
<1>5. Owns(t, M, X) /\ TopTwo(M, X, "va_space", "shared", "serialize", "exclusive")
  BY <1>1, <1>2, <1>4 DEF Modes, Owns, Top, TopTwo
<1>6. Gave(t, r, M, X, {"va_space", "serialize"})
  BY <1>3, <1>5, AfterTwo, Zenon
<1> QED
  BY <1>1, <1>6, FineAll

LEMMA FineUpRead ==
    ASSUME NEW t, NEW M, NEW X, Shape(<<>>, M, {}, X), loContext[t] = Tracked(M, X),
           Deep(M, "va_space"), "va_space" \notin X, "serialize" \notin M, NEW r,
             r = uvm_va_space_up_read
    PROVE  ReleaseFine(t, r, M, X)
<1>1. /\ M \subseteq LoLocks /\ IsFiniteSet(M) /\ Apart(M) /\ M = {"va_space"} /\ X = {}
  BY RestShape DEF Deep
<1>2. \A k \in M : lock_order(k) <= lock_order("va_space")
  BY DEF Deep
<1>3. r = Back("va_space", "shared")
  BY Zenon DEF Back, uvm_va_space_up_read, uvm_va_space_down_read
<1>5. Owns(t, M, X) /\ Top(M, X, {}, "va_space", "shared")
  BY <1>1, <1>2 DEF Modes, Owns, Top
<1>6. Gave(t, r, M, X, {"va_space"})
  BY <1>3, <1>5, AfterOne, Zenon
<1> QED
  BY <1>1, <1>6, FineAll

LEMMA FineDowngrades ==
    ASSUME NEW t, NEW M, NEW X, Shape(<<>>, M, {}, X), loContext[t] = Tracked(M, X),
           Deep(M, "va_space"), "va_space" \in X, NEW r,
           r = uvm_va_space_downgrade_write \/ r = uvm_va_space_downgrade_write_rm
    PROVE  ReleaseFine(t, r, M, X)
<1>1. IsFiniteSet(M) /\ Apart(M) /\ M = {"serialize", "va_space"} /\ X = M
  BY RestShape
<1>2. loContext[t] = Tracked(M, M)
  BY <1>1, Zenon
<1>3. CASE r = uvm_va_space_downgrade_write
  <2>1. Fine(AfterRelease(t, r), Tracked({"va_space"}, {})) /\ Gone(r) = {"serialize"}
          /\ r.downgrade
    BY <1>1, <1>2, <1>3, AfterDowngrade, Zenon
  <2>2. Kept(M, r) = {"va_space"} /\ KeptAlone(X, r) = {}
    <3>1. Kept(M, r) = M \ {"serialize"}
            /\ KeptAlone(X, r) = X \ ({"serialize"} \union {"va_space"})
      BY <2>1, Zenon DEF Kept, KeptAlone
    <3> QED
      BY <1>1, <3>1
  <2> DEFINE N == {"va_space"}
             Y == {}
  <2>3. /\ N \subseteq M /\ Y \subseteq N /\ N \subseteq Y \union {"va_space"}
        /\ "serialize" \in N => "va_space" \in N
        /\ "rm_api" \in N <=> "rm_gpus" \in N
        /\ "va_space" \in Y => "serialize" \in N
        /\ "rm_api" \in N => RmFine(N, Y)
    BY <1>1
  <2>4. "va_space" \in X /\ "va_space" \notin Gone(r)
    BY <1>1, <2>1
  <2> HIDE DEF N, Y
  <2>5. Shape(<<>>, N, {}, Y)
    BY <2>3, LessShape
  <2> QED
    BY <2>1, <2>2, <2>4, <2>5, Zenon DEF ReleaseFine, N, Y
<1>4. CASE r = uvm_va_space_downgrade_write_rm
  <2>1. Fine(AfterRelease(t, r), Tracked(M, {"serialize"})) /\ Gone(r) = {} /\ r.downgrade
    BY <1>1, <1>2, <1>4, AfterDowngrade, Zenon
  <2>2. Kept(M, r) = M /\ KeptAlone(X, r) = {"serialize"}
    <3>1. Kept(M, r) = M \ {} /\ KeptAlone(X, r) = X \ ({} \union {"va_space"})
      BY <2>1, Zenon DEF Kept, KeptAlone
    <3> QED
      BY <1>1, <3>1
  <2> DEFINE N == M
             Y == {"serialize"}
  <2>3. /\ N \subseteq M /\ Y \subseteq N /\ N \subseteq Y \union {"va_space"}
        /\ "serialize" \in N => "va_space" \in N
        /\ "rm_api" \in N <=> "rm_gpus" \in N
        /\ "va_space" \in Y => "serialize" \in N
        /\ "rm_api" \in N => RmFine(N, Y)
    BY <1>1
  <2>4. "va_space" \in X /\ "va_space" \notin Gone(r)
    BY <1>1, <2>1
  <2> HIDE DEF N, Y
  <2>5. Shape(<<>>, N, {}, Y)
    BY <2>3, LessShape
  <2> QED
    BY <2>1, <2>2, <2>4, <2>5, Zenon DEF ReleaseFine, N, Y
<1> QED
  BY <1>3, <1>4

(* What a thread that queues for nothing may release.                      *)
LEMMA HeldAlone ==
    ASSUME NEW t, Queued(t) = {}, NEW l \in LoLocks
    PROVE  /\ Holds(t, Request(l, "exclusive")) <=> l \in Alone(t)
           /\ Has(t, l) <=> l \in Mine(t)
<1>1. Has(t, l) <=> l \in Mine(t)
  BY DEF Mine
<1>2. ~Mode(loLock[l].queue, t, "exclusive")
  <2> SUFFICES ASSUME NEW i \in DOMAIN loLock[l].queue, loLock[l].queue[i] = <<t, "exclusive">>
               PROVE  FALSE
    BY DEF Mode
  <2>1. loLock[l].queue[i][1] = t
    OBVIOUS
  <2>2. l \in Queued(t)
    BY <2>1 DEF Queued
  <2> QED
    BY <2>2
<1>3. Holds(t, Request(l, "exclusive")) <=> <<t, "exclusive">> \in loLock[l].holders
  BY DEF Holds, Request
<1>4. Holds(t, Request(l, "exclusive")) <=> l \in Alone(t)
  BY <1>2, <1>3, Zenon DEF Alone
<1> QED
  BY <1>1, <1>4

ReleaseOf(t, r, l) ==
    \/ l \in LoBlock /\ r = uvm_mutex_unlock(l)
    \/ l = "rm_gpus" /\ r = uvm_record_unlock_rm_all
    \/ /\ l \notin LoBlock /\ l # "rm_gpus"
       /\ \/ /\ l \in Alone(t)
             /\ \/ r = uvm_va_space_up_write
                \/ r = uvm_va_space_downgrade_write \/ r = uvm_va_space_downgrade_write_rm
          \/ l \notin Alone(t) /\ "serialize" \in Mine(t) /\ r = uvm_va_space_up_read_rm
          \/ l \notin Alone(t) /\ "serialize" \notin Mine(t) /\ r = uvm_va_space_up_read

LEMMA ReleaseIs ==
    ASSUME NEW t, Queued(t) = {}, NEW r \in Releases(t)
    PROVE  \E l : Deep(Mine(t), l) /\ ReleaseOf(t, r, l)
<1>1. Mine(t) # {} /\ Mine(t) \subseteq LoLocks
  BY DEF Releases, Mine
<1> DEFINE l == Deepest(t)
<1>2. l \in Mine(t) /\ \A k \in Mine(t) : lock_order(k) <= lock_order(l)
  <2>1. \E k \in Mine(t) : \A j \in Mine(t) : lock_order(j) <= lock_order(k)
    BY <1>1, DeepExists
  <2> QED
    BY <2>1 DEF Deepest
<1> HIDE DEF l
<1>3. l \in LoLocks /\ "serialize" \in LoLocks
  BY <1>1, <1>2 DEF LoLocks, Loose
<1>4. /\ Holds(t, Request(l, "exclusive")) <=> l \in Alone(t)
      /\ Has(t, "serialize") <=> "serialize" \in Mine(t)
  BY <1>3, HeldAlone
<1>5. r \in IF l \in LoBlock THEN {uvm_mutex_unlock(l)}
            ELSE IF l = "rm_gpus" THEN {uvm_record_unlock_rm_all}
            ELSE IF Holds(t, Request(l, "exclusive"))
                 THEN {uvm_va_space_up_write, uvm_va_space_downgrade_write, uvm_va_space_downgrade_write_rm}
            ELSE IF Has(t, "serialize") THEN {uvm_va_space_up_read_rm} ELSE {uvm_va_space_up_read}
  BY <1>1, Zenon DEF Releases, l
<1>6. ReleaseOf(t, r, l)
  BY <1>4, <1>5, Zenon DEF ReleaseOf
<1> QED
  BY <1>2, <1>6, Zenon DEF Deep

LEMMA FineRelease ==
    ASSUME NEW t, Queued(t) = {}, NEW r \in Releases(t), NEW M, M = Mine(t), NEW X,
           X = Alone(t),
           Shape(<<>>, M, {}, X), loContext[t] = Tracked(M, X)
    PROVE  ReleaseFine(t, r, M, X)
<1>1. PICK l : Deep(M, l) /\ ReleaseOf(t, r, l)
  BY ReleaseIs
<1>2. l \in LoBlock \/ l = "rm_gpus" \/ l = "va_space"
  BY <1>1, RestShape
<1>3. CASE l \in LoBlock /\ r = uvm_mutex_unlock(l)
  BY <1>1, <1>3, FineUnlock
<1>4. CASE l = "rm_gpus" /\ r = uvm_record_unlock_rm_all
  BY <1>1, <1>4, FineRm
<1>5. CASE l = "va_space" /\ l \in X /\ r = uvm_va_space_up_write
  BY <1>1, <1>5, FineUpWrite
<1>6. CASE l = "va_space" /\ l \in X
             /\ (r = uvm_va_space_downgrade_write \/ r = uvm_va_space_downgrade_write_rm)
  BY <1>1, <1>6, FineDowngrades
<1>7. CASE l = "va_space" /\ l \notin X /\ "serialize" \in M /\ r = uvm_va_space_up_read_rm
  BY <1>1, <1>7, FineUpReadRm
<1>8. CASE l = "va_space" /\ l \notin X /\ "serialize" \notin M /\ r = uvm_va_space_up_read
  BY <1>1, <1>8, FineUpRead
<1> QED
  BY <1>1, <1>2, <1>3, <1>4, <1>5, <1>6, <1>7, <1>8, Zenon DEF ReleaseOf

(* Without tracking there is one lock to release.                          *)
LEMMA FineReleaseSkipping ==
    ASSUME NEW t, Queued(t) = {}, NEW r \in Releases(t), NEW M, M = Mine(t), NEW X,
           X = Alone(t),
           Shape(<<>>, M, {}, X), loContext[t] = Skipping(M), M \subseteq LoBlock
    PROVE  /\ Fine(AfterRelease(t, r), Skipping({})) /\ Gone(r) = M /\ ~r.downgrade
                /\ X \subseteq M
           /\ Shape(<<>>, {}, {}, {})
<1>1. PICK l : Deep(M, l) /\ ReleaseOf(t, r, l)
  BY ReleaseIs
<1>2. l \in M /\ l \in LoBlock /\ X \subseteq M /\ Apart(M)
  BY <1>1, RestShape DEF Deep
<1>3. M = {l}
  BY <1>2, OrderOf DEF Apart
<1>4. r = uvm_mutex_unlock(l)
  <2>1. l # "rm_gpus"
    BY <1>2, OrderOf DEF Loose
  <2> QED
    BY <1>1, <1>2, <2>1, Zenon DEF ReleaseOf
<1>5. Shape(<<>>, {}, {}, {})
  BY NoneShape
<1> DEFINE w == Request(l, "exclusive")
           f == [ok |-> TRUE, context |-> loContext[t]]
<1>6. r = Release(<<w>>, FALSE, FALSE)
  BY <1>4, Zenon DEF uvm_mutex_unlock, uvm_mutex_lock
<1>7. Fine(f, Skipping({l}))
  BY <1>3, FineFirst, Zenon
<1> HIDE DEF f
<1>8. Fine(Unlocked(f, w, FALSE), Skipping({}))
  BY <1>7, FineSkipping, Zenon
<1>9. w.lock = l
  BY DEF Request
<1> HIDE DEF w
<1>10. Len(<<w>>) = 1 /\ <<w>>[1] = w
  BY Tails, Zenon
<1>11. AfterRelease(t, r) = Unlocked(f, w, FALSE)
  <2> DEFINE q == <<w>>
  <2> HIDE DEF q
  <2>1. AfterRelease(t, Release(q, FALSE, FALSE))
        = Unlocked([ok |-> TRUE, context |-> loContext[t]], q[1], FALSE)
    BY <1>10, AfterIs, Zenon DEF q
  <2> QED
    BY <1>10, <1>6, <2>1, Zenon DEF f, q
<1>12. r.unlocks = <<w>> /\ ~r.downgrade
  BY <1>6, ReleaseParts, Zenon
<1>13. Gone(r) = {l}
  BY <1>9, <1>12, GoneIs
<1> QED
  BY <1>2, <1>3, <1>5, <1>8, <1>11, <1>12, <1>13, Zenon

(***************************************************************************)
(* Steps                                                                   *)
(***************************************************************************)
Unaffected(u) ==
    /\ loTodo'[u] = loTodo[u] /\ loContext'[u] = loContext[u]
    /\ Mine(u)' = Mine(u) /\ Queued(u)' = Queued(u) /\ Alone(u)' = Alone(u)

LEMMA ThreadKept ==
    ASSUME NEW u, ThreadInv(u), Unaffected(u)
    PROVE  ThreadInv(u)'
<1>1. /\ Shape(loTodo[u], Mine(u), Queued(u), Alone(u))
      /\ Known(loContext[u], loTodo[u], Mine(u) \union Queued(u), Alone(u))
      /\ u = LoBh => BhShape(loTodo[u], Mine(u) \union Queued(u), Alone(u))
           /\ loContext[u].skip = 0
  BY DEF ThreadInv
<1>2. /\ Shape(loTodo'[u], Mine(u)', Queued(u)', Alone(u)')
      /\ Known(loContext'[u], loTodo'[u], Mine(u)' \union Queued(u)', Alone(u)')
      /\ u = LoBh => BhShape(loTodo'[u], Mine(u)' \union Queued(u)', Alone(u)')
           /\ loContext'[u].skip = 0
  BY <1>1, Zenon DEF Unaffected
<1> QED
  BY <1>2 DEF ThreadInv

LEMMA RmKept ==
    ASSUME RmInv, Mine(LoRm)' = Mine(LoRm), Queued(LoRm)' = Queued(LoRm),
           Alone(LoRm)' = Alone(LoRm)
    PROVE  RmInv'
  BY Zenon DEF RmInv

(* What the invariant says of a thread that queues for nothing.            *)
Knowing(t, c, d, M, X) ==
    /\ Shape(d, M, {}, X) /\ M \subseteq LoLocks /\ X \subseteq M /\ IsFiniteSet(M)
    /\ M \union {} = M
    /\ \/ c = Tracked(M, X) /\ c.skip = 0
       \/ /\ c = Skipping(M) /\ c.skip = 1 /\ M \subseteq LoBlock /\ t # LoBh
          /\ d # <<>> => M = {} /\ \E b \in LoBlock : d = uvm_mutex_lock(b)
    /\ t = LoBh => BhShape(d, M, X)

LEMMA Knows ==
    ASSUME NEW t, ThreadInv(t), NEW M, M = Mine(t), NEW X, X = Alone(t), Queued(t) = {},
           NEW c, c = loContext[t], NEW d, d = loTodo[t]
    PROVE  Knowing(t, c, d, M, X)
<1>1. M \union {} = M
  OBVIOUS
<1>2. Shape(d, M, {}, X) /\ Known(c, d, M, X)
      /\ (t = LoBh => BhShape(d, M, X) /\ c.skip = 0)
  BY <1>1, Zenon DEF ThreadInv
<1>3. M \subseteq LoLocks /\ X \subseteq M /\ IsFiniteSet(M)
  BY <1>1, <1>2 DEF Shape, Nested
<1>4. Tracked(M, X).skip = 0 /\ Skipping(M).skip = 1
  BY DEF Tracked, Skipping
<1>5. 0 # 1
  OBVIOUS
<1> QED
  BY <1>1, <1>2, <1>3, <1>4, <1>5, Zenon DEF Known, Knowing

(* What a thread has to be for the invariant to hold of it.                *)
LEMMA ThreadFrom ==
    ASSUME NEW t, NEW M, M = Mine(t)', NEW Q, Q = Queued(t)', NEW X, X = Alone(t)',
           NEW d, d = loTodo'[t], NEW c, c = loContext'[t],
           Shape(d, M, Q, X), Known(c, d, M \union Q, X),
           t = LoBh => BhShape(d, M \union Q, X) /\ c.skip = 0
    PROVE  ThreadInv(t)'
<1>1. /\ Shape(loTodo'[t], Mine(t)', Queued(t)', Alone(t)')
      /\ Known(loContext'[t], loTodo'[t], Mine(t)' \union Queued(t)', Alone(t)')
      /\ t = LoBh => BhShape(loTodo'[t], Mine(t)' \union Queued(t)', Alone(t)')
           /\ loContext'[t].skip = 0
  BY Zenon
<1> QED
  BY <1>1 DEF ThreadInv

LEMMA StartStep ==
    ASSUME LoInv, NEW t \in LoThread, NEW call \in Calls(t), StartCall(t, call)
    PROVE  LoInv'
<1>c. SUFFICES ASSUME NEW M, M = Mine(t), NEW X, X = Alone(t), NEW c, c = loContext[t]
               PROVE  LoInv'
  OBVIOUS
<1>1. /\ loTodo[t] = <<>> /\ Queued(t) = {} /\ Accepted(loContext[t], call)
      /\ loTodo' = [loTodo EXCEPT ![t] = call]
      /\ UNCHANGED <<loContext, loLock, loFault, loSetup>>
  BY DEF StartCall, AtRest
<1>2. loTodo = [u \in LoThread |-> loTodo[u]] /\ loSetup \in LoSetups /\ ThreadInv(t)
  BY DEF LoInv, LoTypeOK
<1>3. loTodo'[t] = call /\ loTodo' = [u \in LoThread |-> loTodo'[u]]
      /\ \A u \in LoThread : u # t => loTodo'[u] = loTodo[u]
  BY <1>1, <1>2
<1>4. \A u : Mine(u)' = Mine(u) /\ Queued(u)' = Queued(u) /\ Alone(u)' = Alone(u)
  BY <1>1, SameViews
<1>5. LoTypeOK'
  BY <1>1, <1>3 DEF LoInv, LoTypeOK
<1>6. LockInvs' /\ RmInv'
  BY <1>1, <1>4, RmKept DEF LoInv, LockInvs
<1>7. /\ Shape(<<>>, M, {}, X) /\ M \subseteq LoLocks /\ X \subseteq M /\ IsFiniteSet(M)
           /\ M \union {} = M
      /\ \/ c = Tracked(M, X) /\ c.skip = 0
         \/ c = Skipping(M) /\ c.skip = 1 /\ M \subseteq LoBlock /\ t # LoBh
      /\ t = LoBh => BhShape(<<>>, M, X)
  <2>1. loTodo[t] = <<>> /\ Queued(t) = {} /\ ThreadInv(t)
    BY <1>1, <1>2
  <2>2. Knowing(t, c, <<>>, M, X)
    BY <1>c, <2>1, Knows
  <2> QED
    BY <2>2, Zenon DEF Knowing
<1>8. loSetup.blocks \subseteq LoBlock
  BY <1>2, LoAssumption
<1>9. ASSUME c = Tracked(M, X), c.skip = 0
      PROVE  ThreadInv(t)'
  <2>1. /\ \/ call \in {<<SE, VX>>, <<SE, VS>>, <<VS>>, <<RA, RG>>}
           \/ \E b \in LoBlock : call = uvm_mutex_lock(b)
        /\ t = LoBh => call = <<VS>> \/ \E b \in LoBlock : call = uvm_mutex_lock(b)
    BY <1>9, <1>c, <1>8 DEF Calls, uvm_va_space_down_write, uvm_va_space_down_read,
       uvm_va_space_down_read_rm, uvm_record_lock_rm_all, SE, VX, VS, RA, RG
  <2>2. Accepted(Tracked(M, X), call)
    BY <1>1, <1>9, <1>c, Zenon
  <2>3. Shape(call, M, {}, X)
    BY <1>7, <2>1, <2>2, StartShape DEF uvm_mutex_lock
  <2>4. Known(c, call, M \union {}, X)
    BY <1>7, <1>9 DEF Known
  <2>5. t = LoBh => BhShape(call, M \union {}, X) /\ c.skip = 0
    BY <1>7, <1>9, <2>1, Zenon DEF BhShape
  <2> QED
    BY <1>c, <1>1, <1>3, <1>4, <2>3, <2>4, <2>5, ThreadFrom
<1>10. ASSUME c = Skipping(M), c.skip = 1, t # LoBh
       PROVE  ThreadInv(t)'
  <2>1. M = {} /\ \E b \in LoBlock : call = uvm_mutex_lock(b)
    BY <1>10, <1>c, <1>8 DEF Calls
  <2>2. Shape(call, M, {}, X)
    <3>1. Todo(call, M \union {}, X)
      BY <2>1 DEF Todo, uvm_mutex_lock
    <3>2. Ruled(call, M, {}, X)
      BY <1>7, <2>1 DEF Ruled
    <3> QED
      BY <1>7, <3>1, <3>2 DEF Shape
  <2>4. Known(c, call, M \union {}, X)
    BY <1>10, <2>1, <1>7 DEF Known
  <2> QED
    BY <1>c, <1>1, <1>3, <1>4, <1>10, <2>2, <2>4, ThreadFrom
<1>11. ASSUME NEW u \in LoThread, u # t
       PROVE  ThreadInv(u)'
  BY <1>1, <1>3, <1>4, <1>11, ThreadKept DEF Unaffected, LoInv
<1> QED
  BY <1>5, <1>6, <1>7, <1>9, <1>10, <1>11 DEF LoInv

LEMMA AcquireStep ==
    ASSUME LoInv, ~loSetup.fails, NEW t \in LoThread, Acquire(t)
    PROVE  LoInv'
<1>c. SUFFICES ASSUME NEW M, M = Mine(t), NEW X, X = Alone(t), NEW c, c = loContext[t],
                      NEW d, d = loTodo[t], NEW w, w = Head(loTodo[t]),
                      NEW l, l = w.lock, NEW mode, mode = w.mode,
                      NEW Y, Y = IF mode = "exclusive" THEN X \union {l} ELSE X
               PROVE  LoInv'
  OBVIOUS
<1>1. /\ d # <<>> /\ Queued(t) = {}
      /\ loContext' = [loContext EXCEPT ![t] = __uvm_record_lock(loContext[t], w).context]
      /\ loLock' = [loLock EXCEPT ![w.lock].queue = Append(@, <<t, w.mode>>)]
      /\ loTodo' = [loTodo EXCEPT ![t] = Tail(d)]
      /\ UNCHANGED <<loFault, loSetup>>
  BY <1>c DEF Acquire
<1>2. /\ loTodo = [u \in LoThread |-> loTodo[u]]
           /\ loContext = [u \in LoThread |-> loContext[u]]
      /\ loSetup \in LoSetups /\ ThreadInv(t) /\ LoTypeOK /\ LockInvs /\ RmInv
  BY DEF LoInv, LoTypeOK
<1>3. /\ loTodo'[t] = Tail(d) /\ loTodo' = [u \in LoThread |-> loTodo'[u]]
      /\ loContext'[t] = __uvm_record_lock(c, w).context
      /\ loContext' = [u \in LoThread |-> loContext'[u]]
      /\ \A u \in LoThread : u # t => loTodo'[u] = loTodo[u] /\ loContext'[u] = loContext[u]
  BY <1>1, <1>2, <1>c
<1>4. /\ Shape(d, M, {}, X) /\ M \subseteq LoLocks /\ X \subseteq M /\ IsFiniteSet(M)
           /\ M \union {} = M
      /\ \/ c = Tracked(M, X) /\ c.skip = 0
         \/ /\ c = Skipping(M) /\ c.skip = 1 /\ M \subseteq LoBlock /\ t # LoBh
            /\ M = {} /\ \E b \in LoBlock : d = uvm_mutex_lock(b)
      /\ t = LoBh => BhShape(d, M, X)
  <2>1. d # <<>> /\ Queued(t) = {} /\ ThreadInv(t)
    BY <1>c, <1>1, <1>2
  <2>2. Knowing(t, c, d, M, X)
    BY <1>c, <2>1, Knows
  <2> QED
    BY <2>1, <2>2, Zenon DEF Knowing
<1>5. /\ l \in LoLocks /\ mode \in Modes /\ w = Request(l, mode)
      /\ l \notin M /\ Shape(Tail(d), M, {l}, Y)
  <2>1. w = Head(d) /\ Y = IF w.mode = "exclusive" THEN X \union {w.lock} ELSE X
    BY <1>c, Zenon
  <2>2. Shape(d, M, {}, X) /\ d # <<>>
    BY <1>1, <1>4
  <2>3. /\ w.lock \in LoLocks /\ w.mode \in Modes /\ w = Request(w.lock, w.mode)
        /\ w.lock \notin M /\ Shape(Tail(d), M, {w.lock}, Y)
    BY <2>1, <2>2, AcquireShape
  <2> QED
    BY <2>3, <1>c, Zenon
<1>6. t \in Parties /\ LoRm # t
  BY LoAssumption DEF Parties
<1>7. /\ LockInvs' /\ loLock' = [k \in LoLocks |-> loLock'[k]]
      /\ \A u : Mine(u)' = Mine(u)
      /\ \A u : u # t => Queued(u)' = Queued(u) /\ Alone(u)' = Alone(u)
      /\ Queued(t)' = {l}
      /\ Alone(t)' = Y
  <2>1. loLock' = [loLock EXCEPT ![l].queue = Append(@, <<t, mode>>)]
    BY <1>1, <1>c, Zenon
  <2>2. Y = IF mode = "exclusive" THEN Alone(t) \union {l} ELSE Alone(t)
    BY <1>c, Zenon
  <2> QED
    <3>1. Queued(t) = {} /\ LoTypeOK /\ LockInvs /\ t \in Parties /\ l \in LoLocks
            /\ mode \in Modes
      BY <1>1, <1>2, <1>5, <1>6
    <3>2. /\ LockInvs' /\ loLock' = [k \in LoLocks |-> loLock'[k]]
          /\ \A u : Mine(u)' = Mine(u)
          /\ \A u : u # t => Queued(u)' = Queued(u) /\ Alone(u)' = Alone(u)
          /\ Queued(t)' = {l}
          /\ Alone(t)' = IF mode = "exclusive" THEN Alone(t) \union {l} ELSE Alone(t)
      BY <2>1, <3>1, Arrives
    <3> QED
      BY <2>2, <3>2, Zenon
<1>8. LoTypeOK'
  BY <1>1, <1>2, <1>3, <1>7 DEF LoTypeOK
<1>9. RmInv'
  BY <1>2, <1>6, <1>7, RmKept
<1>10. __uvm_record_lock(c, w).context = Recorded(c, w)
  BY DEF __uvm_record_lock
<1>11. Mine(t)' = M /\ Queued(t)' = {l} /\ Alone(t)' = Y /\ loTodo'[t] = Tail(d)
  BY <1>3, <1>7, <1>c
<1>12. ASSUME c = Tracked(M, X), c.skip = 0
       PROVE  ThreadInv(t)'
  <2>1. Recorded(c, w) = Tracked(M \union {l}, Y)
    <3>1. Recorded(Tracked(M, X), Request(l, mode))
          = Tracked(M \union {l}, IF mode = "exclusive" THEN X \union {l} ELSE X)
      BY <1>4, <1>5, RecordTracked
    <3> QED
      BY <1>5, <1>12, <1>c, <3>1, Zenon
  <2>2. loContext'[t] = Tracked(M \union {l}, Y)
    BY <1>3, <1>10, <2>1, Zenon
  <2>3. Known(loContext'[t], Tail(d), M \union {l}, Y)
    BY <2>2, Zenon DEF Known
  <2>4. ASSUME t = LoBh
        PROVE  BhShape(Tail(d), M \union {l}, Y) /\ loContext'[t].skip = 0
    <3>1. loContext'[t].skip = 0
      BY <2>2 DEF Tracked
    <3>2. BhShape(d, M, X)
      BY <1>4, <2>4
    <3>3. CASE d = <<VS>>
      <4>1. Tail(d) = <<>> /\ w = VS
        BY <1>c, <3>3, Tails
      <4>2. l = "va_space" /\ mode = "shared"
        BY <4>1, <1>c, Requests
      <4> QED
        BY <3>1, <3>2, <4>1, <4>2, <1>c DEF BhShape
    <3>4. ASSUME NEW b \in LoBlock, d = uvm_mutex_lock(b)
          PROVE  BhShape(Tail(d), M \union {l}, Y) /\ loContext'[t].skip = 0
      <4>1. Tail(d) = <<>> /\ w = Request(b, "exclusive")
        BY <1>c, <3>4, Tails DEF uvm_mutex_lock
      <4>2. l = b /\ l # "va_space"
        BY <4>1, <1>c, Requests, OrderOf DEF Loose
      <4> QED
        BY <3>1, <3>2, <4>1, <4>2, <1>c DEF BhShape
    <3> QED
      BY <1>1, <3>2, <3>3, <3>4 DEF BhShape
  <2> QED
    BY <1>5, <1>11, <2>3, <2>4, ThreadFrom
<1>13. ASSUME c = Skipping(M), t # LoBh, M = {}, NEW b \in LoBlock, d = uvm_mutex_lock(b)
       PROVE  ThreadInv(t)'
  <2>1. Tail(d) = <<>> /\ w = Request(b, "exclusive")
    BY <1>c, <1>13, Tails DEF uvm_mutex_lock
  <2>2. l = b
    BY <2>1, <1>c, Requests
  <2>3. loContext'[t] = Skipping(M \union {l})
    <3>1. Recorded(Skipping({}), Request(l, mode)) = Skipping({l})
      BY RecordSkipping
    <3>2. M \union {l} = {l}
      BY <1>13
    <3> QED
      BY <1>3, <1>5, <1>10, <1>13, <3>1, <3>2, Zenon
  <2>4. Known(loContext'[t], Tail(d), M \union {l}, Y)
    BY <1>13, <2>1, <2>2, <2>3 DEF Known
  <2> QED
    BY <1>5, <1>11, <1>13, <2>4, ThreadFrom
<1>14. ASSUME NEW u \in LoThread, u # t
       PROVE  ThreadInv(u)'
  BY <1>3, <1>7, <1>14, ThreadKept DEF Unaffected, LoInv
<1> QED
  BY <1>4, <1>7, <1>8, <1>9, <1>12, <1>13, <1>14 DEF LoInv

LEMMA GrantStep ==
    ASSUME LoInv, NEW l \in LoLocks, Grant(l)
    PROVE  LoInv'
<1>1. UNCHANGED <<loContext, loTodo, loFault, loSetup>>
  BY DEF Grant
<1>2. LoTypeOK /\ LockInvs /\ RmInv /\ \A u \in LoThread : ThreadInv(u)
  BY DEF LoInv
<1>3. /\ LockInvs' /\ loLock' = [k \in LoLocks |-> loLock'[k]]
      /\ \A u : Alone(u)' = Alone(u)
      /\ \E t \in Parties :
           /\ l \in Queued(t)
           /\ Mine(t)' = Mine(t) \union {l} /\ Queued(t)' = Queued(t) \ {l}
           /\ \A u : u # t => Mine(u)' = Mine(u) /\ Queued(u)' = Queued(u)
  BY <1>2, Granted, Zenon
<1>4. PICK t \in Parties :
           /\ l \in Queued(t)
           /\ Mine(t)' = Mine(t) \union {l} /\ Queued(t)' = Queued(t) \ {l}
           /\ \A u : u # t => Mine(u)' = Mine(u) /\ Queued(u)' = Queued(u)
  BY <1>3
<1>5. LoTypeOK'
  BY <1>1, <1>2, <1>3 DEF LoTypeOK
<1>6. ASSUME NEW u \in LoThread, u # t
      PROVE  ThreadInv(u)'
  BY <1>1, <1>2, <1>3, <1>4, <1>6, ThreadKept DEF Unaffected
<1>7. CASE t = LoRm
  <2>1. RmInv'
    BY <1>2, <1>3, <1>4, <1>7 DEF RmInv
  <2>2. \A u \in LoThread : u # t
    BY <1>7, LoAssumption
  <2> QED
    BY <1>3, <1>5, <1>6, <2>1, <2>2 DEF LoInv
<1>8. CASE t \in LoThread
  <2>1. RmInv'
    <3>1. LoRm # t
      BY <1>8, LoAssumption
    <3> QED
      BY <1>2, <1>3, <1>4, <3>1, RmKept
  <2>2. ThreadInv(t)'
    <3>c. SUFFICES ASSUME NEW M, M = Mine(t), NEW Q, Q = Queued(t), NEW X, X = Alone(t),
                          NEW d, d = loTodo[t], NEW c, c = loContext[t]
                   PROVE  ThreadInv(t)'
      OBVIOUS
    <3>1. /\ Shape(d, M, Q, X) /\ Known(c, d, M \union Q, X)
          /\ t = LoBh => BhShape(d, M \union Q, X) /\ c.skip = 0
      BY <1>2, <1>8, <3>c, Zenon DEF ThreadInv
    <3> DEFINE N == M \union {l}
    <3>2. Q = {l} /\ Shape(d, N, {}, X) /\ N \union {} = M \union Q
      BY <1>4, <3>1, <3>c, GrantShape
    <3>3. Mine(t)' = N /\ Queued(t)' = {} /\ Alone(t)' = X /\ loTodo'[t] = d
            /\ loContext'[t] = c
      BY <1>1, <1>3, <1>4, <3>2, <3>c
    <3> HIDE DEF N
    <3>4. Known(c, d, N \union {}, X) /\ (t = LoBh => BhShape(d, N \union {}, X) /\ c.skip = 0)
      BY <3>1, <3>2, Zenon
    <3> QED
      BY <3>2, <3>3, <3>4, ThreadFrom
  <2> QED
    BY <1>3, <1>5, <1>6, <2>1, <2>2 DEF LoInv
<1> QED
  BY <1>7, <1>8 DEF Parties

(* What is left to a thread that releases.                                 *)
LEMMA UnlockStep ==
    ASSUME LoInv, NEW t \in LoThread, NEW r \in Releases(t), Unlock(t, r)
    PROVE  LoInv'
<1>c. SUFFICES ASSUME NEW M, M = Mine(t), NEW X, X = Alone(t), NEW c, c = loContext[t],
                      NEW gone, gone = Gone(r)
               PROVE  LoInv'
  OBVIOUS
<1>1. /\ loTodo[t] = <<>> /\ Queued(t) = {}
      /\ loContext' = [loContext EXCEPT ![t] = AfterRelease(t, r).context]
      /\ loLock' = [l \in LoLocks |-> [loLock[l] EXCEPT !.holders =
             IF \E i \in DOMAIN r.unlocks : r.unlocks[i].lock = l THEN {h \in @ : h[1] # t}
             ELSE IF r.downgrade /\ l = "va_space" THEN {<<t, "shared">>} ELSE @]]
      /\ loFault' = (loFault /\ (t # LoBh \/ r # uvm_va_space_up_read))
      /\ UNCHANGED <<loTodo, loSetup>>
  BY DEF Unlock, AtRest
<1>2. /\ loTodo = [u \in LoThread |-> loTodo[u]]
           /\ loContext = [u \in LoThread |-> loContext[u]]
      /\ loSetup \in LoSetups /\ ThreadInv(t) /\ LoTypeOK /\ LockInvs /\ RmInv
  BY DEF LoInv, LoTypeOK
<1>3. /\ loContext'[t] = AfterRelease(t, r).context /\ loTodo'[t] = <<>>
      /\ loContext' = [u \in LoThread |-> loContext'[u]]
      /\ \A u \in LoThread : u # t => loTodo'[u] = loTodo[u] /\ loContext'[u] = loContext[u]
  BY <1>1, <1>2
<1>4. /\ Shape(<<>>, M, {}, X) /\ M \subseteq LoLocks /\ X \subseteq M
      /\ \/ c = Tracked(M, X)
         \/ c = Skipping(M) /\ M \subseteq LoBlock /\ t # LoBh
      /\ t = LoBh => BhShape(<<>>, M, X)
  <2>1. loTodo[t] = <<>> /\ Queued(t) = {} /\ ThreadInv(t)
    BY <1>1, <1>2
  <2>2. Knowing(t, c, <<>>, M, X)
    BY <1>c, <2>1, Knows
  <2> QED
    BY <2>2, Zenon DEF Knowing
<1>5. t \in Parties /\ LoRm # t
  BY LoAssumption DEF Parties
<1>6. ASSUME NEW low, \A l : l \in low <=> r.downgrade /\ l = "va_space",
             low \subseteq X, low \intersect gone = {}
      PROVE  /\ LockInvs' /\ loLock' = [k \in LoLocks |-> loLock'[k]]
             /\ \A u : Queued(u)' = Queued(u)
             /\ \A u : u # t => Mine(u)' = Mine(u) /\ Alone(u)' = Alone(u)
             /\ Mine(t)' = M \ gone
             /\ Alone(t)' = X \ (gone \union low)
  <2>1. \A l : (\E i \in DOMAIN r.unlocks : r.unlocks[i].lock = l) <=> l \in gone
    BY <1>c DEF Gone
  <2>2. Freeing(t, gone, low)
    BY <1>1, <1>6, <2>1, Zenon DEF Freeing
  <2>3. low \subseteq Alone(t) /\ low \intersect gone = {}
    BY <1>6, <1>c
  <2>4. LoTypeOK /\ LockInvs /\ t \in Parties /\ Queued(t) = {}
    BY <1>1, <1>2, <1>5
  <2>5. /\ LockInvs' /\ loLock' = [k \in LoLocks |-> loLock'[k]]
        /\ \A u : Queued(u)' = Queued(u)
        /\ \A u : u # t => Mine(u)' = Mine(u) /\ Alone(u)' = Alone(u)
        /\ Mine(t)' = Mine(t) \ gone
        /\ Alone(t)' = Alone(t) \ (gone \union low)
    BY <2>2, <2>3, <2>4, Freed
  <2> QED
    BY <1>c, <2>5, Zenon
<1>7. ASSUME /\ LockInvs' /\ loLock' = [k \in LoLocks |-> loLock'[k]]
             /\ \A u : Queued(u)' = Queued(u)
             /\ \A u : u # t => Mine(u)' = Mine(u) /\ Alone(u)' = Alone(u)
             /\ ThreadInv(t)'
      PROVE  LoInv'
  <2>1. LoTypeOK'
    <3>1. loFault' \in BOOLEAN
      BY <1>1
    <3> QED
      BY <1>1, <1>2, <1>3, <1>7, <3>1 DEF LoTypeOK
  <2>2. RmInv'
    BY <1>2, <1>5, <1>7, RmKept
  <2>3. ASSUME NEW u \in LoThread, u # t
        PROVE  ThreadInv(u)'
    BY <1>3, <1>7, <2>3, ThreadKept DEF Unaffected, LoInv
  <2> QED
    BY <1>7, <2>1, <2>2, <2>3 DEF LoInv
<1>8. CASE c = Tracked(M, X)
  <2>1. ReleaseFine(t, r, M, X)
    BY <1>1, <1>4, <1>8, <1>c, FineRelease
  <2>2. /\ r.downgrade => "va_space" \in X /\ "va_space" \notin gone
        /\ Shape(<<>>, Kept(M, r), {}, KeptAlone(X, r))
        /\ loContext'[t] = Tracked(Kept(M, r), KeptAlone(X, r))
    BY <1>3, <1>c, <2>1, Zenon DEF ReleaseFine, Fine
  <2> DEFINE low == IF r.downgrade THEN {"va_space"} ELSE {}
  <2>a. /\ \A l : l \in low <=> r.downgrade /\ l = "va_space"
        /\ low \subseteq X /\ low \intersect gone = {}
    BY <2>2
  <2>b. KeptAlone(X, r) = X \ (gone \union low)
    <3>1. CASE r.downgrade
      BY <1>c, <3>1, Zenon DEF KeptAlone
    <3>2. CASE ~r.downgrade
      BY <1>c, <3>2 DEF KeptAlone
    <3> QED
      BY <3>1, <3>2
  <2> HIDE DEF low
  <2>3. /\ LockInvs' /\ loLock' = [k \in LoLocks |-> loLock'[k]]
        /\ \A u : Queued(u)' = Queued(u)
        /\ \A u : u # t => Mine(u)' = Mine(u) /\ Alone(u)' = Alone(u)
        /\ Mine(t)' = M \ gone
        /\ Alone(t)' = X \ (gone \union low)
    BY <1>6, <2>a, Zenon
  <2> DEFINE N == Kept(M, r)
             Y == KeptAlone(X, r)
  <2>4. N = M \ gone /\ Y = X \ (gone \union low)
    BY <1>c, <2>b, Zenon DEF Kept
  <2>5. Mine(t)' = N /\ Queued(t)' = {} /\ Alone(t)' = Y
    BY <1>1, <2>3, <2>4, Zenon
  <2>6. N \subseteq M /\ Y \subseteq X /\ N \union {} = N
    BY <2>4
  <2> HIDE DEF N, Y
  <2>7. Known(loContext'[t], <<>>, N \union {}, Y)
    BY <2>2, <2>6, Zenon DEF Known, N, Y
  <2>8. ASSUME t = LoBh
        PROVE  BhShape(<<>>, N \union {}, Y) /\ loContext'[t].skip = 0
    <3>1. loContext'[t].skip = 0
      BY <2>2 DEF Tracked
    <3> QED
      BY <1>4, <2>6, <2>8, <3>1 DEF BhShape
  <2>9. Shape(<<>>, N, {}, Y)
    BY <2>2 DEF N, Y
  <2>10. ThreadInv(t)'
    BY <1>3, <2>5, <2>7, <2>8, <2>9, ThreadFrom
  <2> QED
    BY <1>7, <2>3, <2>10
<1>9. CASE c = Skipping(M) /\ M \subseteq LoBlock /\ t # LoBh
  <2>1. /\ Fine(AfterRelease(t, r), Skipping({})) /\ Gone(r) = M /\ ~r.downgrade
             /\ X \subseteq M
        /\ Shape(<<>>, {}, {}, {})
    BY <1>1, <1>4, <1>9, <1>c, FineReleaseSkipping
  <2>2. /\ LockInvs' /\ loLock' = [k \in LoLocks |-> loLock'[k]]
        /\ \A u : Queued(u)' = Queued(u)
        /\ \A u : u # t => Mine(u)' = Mine(u) /\ Alone(u)' = Alone(u)
        /\ Mine(t)' = M \ gone
        /\ Alone(t)' = X \ gone
    <3> DEFINE low == {}
    <3>1. /\ \A l : l \in low <=> r.downgrade /\ l = "va_space"
          /\ low \subseteq X /\ low \intersect gone = {} /\ X \ (gone \union low) = X \ gone
      BY <2>1
    <3> HIDE DEF low
    <3> QED
      BY <1>6, <3>1, Zenon
  <2>3. M \ gone = {} /\ X \ gone = {}
    BY <1>c, <2>1
  <2>4. loContext'[t] = Skipping({})
    BY <1>3, <2>1, Zenon DEF Fine
  <2> DEFINE E == {}
  <2>5. Mine(t)' = E /\ Queued(t)' = E /\ Alone(t)' = E /\ E \union E = E
    BY <1>1, <2>2, <2>3
  <2>6. Known(loContext'[t], <<>>, E \union E, E)
    BY <2>4 DEF Known
  <2> HIDE DEF E
  <2>7. Shape(<<>>, E, E, E)
    BY <2>1 DEF E
  <2>8. ThreadInv(t)'
    BY <1>3, <1>9, <2>5, <2>6, <2>7, ThreadFrom
  <2> QED
    BY <1>7, <2>2, <2>8
<1> QED
  BY <1>4, <1>8, <1>9

(* The tracking is disabled, or enabled, by a thread without locks.        *)
LEMMA SkipStep ==
    ASSUME LoInv, NEW t \in LoThread,
           \/ uvm_thread_context_disable_lock_tracking(t)
             \/ uvm_thread_context_enable_lock_tracking(t)
    PROVE  LoInv'
<1>c. SUFFICES ASSUME NEW M, M = Mine(t), NEW X, X = Alone(t), NEW c, c = loContext[t]
               PROVE  LoInv'
  OBVIOUS
<1>1. /\ loTodo[t] = <<>> /\ Queued(t) = {} /\ M = {}
      /\ UNCHANGED <<loLock, loTodo, loFault, loSetup>>
  BY <1>c DEF uvm_thread_context_disable_lock_tracking, uvm_thread_context_enable_lock_tracking,
     AtRest
<1>2. \/ t # LoBh /\ c.skip = 0 /\ loContext' = [loContext EXCEPT ![t] = SkipMore(c)]
      \/ c.skip > 0 /\ loContext' = [loContext EXCEPT ![t] = SkipLess(c)]
  BY <1>c DEF uvm_thread_context_disable_lock_tracking, uvm_thread_context_enable_lock_tracking
<1>3. loContext = [u \in LoThread |-> loContext[u]] /\ ThreadInv(t)
  BY DEF LoInv, LoTypeOK
<1>4. /\ Shape(<<>>, M, {}, X) /\ X \subseteq M /\ M \union {} = M
      /\ \/ c = Tracked(M, X) /\ c.skip = 0
         \/ c = Skipping(M) /\ c.skip = 1 /\ t # LoBh
      /\ t = LoBh => BhShape(<<>>, M, X)
  <2>a. loTodo[t] = <<>> /\ Queued(t) = {}
    BY <1>1
  <2>1. Knowing(t, c, <<>>, M, X)
    BY <1>c, <1>3, <2>a, Knows
  <2> QED
    BY <2>1, Zenon DEF Knowing
<1>5. X = {} /\ M = {}
  BY <1>1, <1>4
<1>6. /\ Tracked({}, {}) = NoContext
      /\ SkipMore(NoContext) = Skipping({}) /\ SkipLess(Skipping({})) = NoContext
  BY RecordSkipping, Zenon
<1>7. \A u : Mine(u)' = Mine(u) /\ Queued(u)' = Queued(u) /\ Alone(u)' = Alone(u)
  BY <1>1, SameViews
<1>8. /\ LockInvs' /\ RmInv' /\ loTodo' = loTodo /\ loSetup' \in LoSetups
           /\ loFault' \in BOOLEAN
      /\ loTodo' = [u \in LoThread |-> loTodo'[u]] /\ loLock' = [l \in LoLocks |-> loLock'[l]]
  BY <1>1, <1>7, RmKept DEF LoInv, LockInvs, LoTypeOK
<1>9. ASSUME NEW new, loContext' = [loContext EXCEPT ![t] = new], Known(new, <<>>, M, X),
             t = LoBh => new.skip = 0
      PROVE  LoInv'
  <2>1. /\ loContext' = [u \in LoThread |-> loContext'[u]] /\ loContext'[t] = new
        /\ \A u \in LoThread : u # t => loContext'[u] = loContext[u]
    BY <1>3, <1>9
  <2>2. ASSUME NEW u \in LoThread, u # t
        PROVE  ThreadInv(u)'
    BY <1>7, <1>8, <2>1, <2>2, ThreadKept DEF Unaffected, LoInv
  <2> DEFINE Q == {}
  <2>3. Mine(t)' = M /\ Queued(t)' = Q /\ Alone(t)' = X /\ loTodo'[t] = <<>> /\ M \union Q = M
    BY <1>c, <1>1, <1>7
  <2>4. Shape(<<>>, M, Q, X) /\ (t = LoBh => BhShape(<<>>, M, X))
    BY <1>4
  <2> HIDE DEF Q
  <2>5. Known(new, <<>>, M \union Q, X)
          /\ (t = LoBh => BhShape(<<>>, M \union Q, X) /\ new.skip = 0)
    BY <1>9, <2>3, <2>4, Zenon
  <2>6. ThreadInv(t)'
    BY <2>1, <2>3, <2>4, <2>5, ThreadFrom
  <2> QED
    BY <1>8, <2>1, <2>2, <2>6 DEF LoInv, LoTypeOK
<1>10. CASE c = Tracked(M, X) /\ c.skip = 0
  <2>1. loContext' = [loContext EXCEPT ![t] = SkipMore(c)]
        /\ t # LoBh
    BY <1>2, <1>10
  <2>2. c = NoContext
    BY <1>5, <1>6, <1>10
  <2>3. loContext' = [loContext EXCEPT ![t] = Skipping({})]
    BY <1>6, <2>1, <2>2, Zenon
  <2>4. Known(Skipping({}), <<>>, M, X)
    BY <1>5 DEF Known
  <2> QED
    BY <1>9, <2>1, <2>3, <2>4
<1>11. CASE c = Skipping(M) /\ c.skip = 1 /\ t # LoBh
  <2>1. loContext' = [loContext EXCEPT ![t] = SkipLess(c)]
    BY <1>2, <1>11
  <2>2. c = Skipping({})
    BY <1>5, <1>11, Zenon
  <2>3. loContext' = [loContext EXCEPT ![t] = Tracked({}, {})]
    BY <1>6, <2>1, <2>2, Zenon
  <2>4. Known(Tracked({}, {}), <<>>, M, X)
    BY <1>5, Zenon DEF Known
  <2> QED
    BY <1>9, <1>11, <2>3, <2>4
<1> QED
  BY <1>4, <1>10, <1>11

LEMMA RmLockStep ==
    ASSUME LoInv, RmLock
    PROVE  LoInv'
<1>c. SUFFICES ASSUME NEW l, l = "rm_gpus", NEW mode, mode = "exclusive"
               PROVE  LoInv'
  OBVIOUS
<1>1. /\ Queued(LoRm) = {} /\ Mine(LoRm) = {}
      /\ loLock' = [loLock EXCEPT ![l].queue = Append(@, <<LoRm, mode>>)]
      /\ UNCHANGED <<loContext, loTodo, loFault, loSetup>>
  BY <1>c, Zenon DEF RmLock
<1>2. LoTypeOK /\ LockInvs /\ RmInv /\ LoRm \in Parties /\ LoRm \notin LoThread
  BY LoAssumption DEF LoInv, Parties
<1>3. l \in LoLocks /\ mode \in Modes
  BY <1>c DEF LoLocks, Loose, Modes
<1>4. /\ LockInvs' /\ loLock' = [k \in LoLocks |-> loLock'[k]]
      /\ \A u : Mine(u)' = Mine(u)
      /\ \A u : u # LoRm => Queued(u)' = Queued(u) /\ Alone(u)' = Alone(u)
      /\ Queued(LoRm)' = {l}
      /\ Alone(LoRm)' = IF mode = "exclusive" THEN Alone(LoRm) \union {l} ELSE Alone(LoRm)
  BY <1>1, <1>2, <1>3, Arrives
<1>5. RmInv'
  BY <1>c, <1>1, <1>4 DEF RmInv
<1>6. LoTypeOK'
  BY <1>1, <1>2, <1>4 DEF LoTypeOK
<1>7. ASSUME NEW u \in LoThread
      PROVE  ThreadInv(u)'
  BY <1>1, <1>2, <1>4, ThreadKept DEF Unaffected, LoInv
<1> QED
  BY <1>4, <1>5, <1>6, <1>7 DEF LoInv

LEMMA RmUnlockStep ==
    ASSUME LoInv, RmUnlock
    PROVE  LoInv'
<1>c. SUFFICES ASSUME NEW l, l = "rm_gpus"
               PROVE  LoInv'
  OBVIOUS
<1>1. /\ Mine(LoRm) # {}
      /\ loLock' = [loLock EXCEPT ![l].holders = {}]
      /\ UNCHANGED <<loContext, loTodo, loFault, loSetup>>
  BY <1>c, Zenon DEF RmUnlock
<1>2. LoTypeOK /\ LockInvs /\ RmInv /\ LoRm \in Parties /\ LoRm \notin LoThread /\ l \in LoLocks
  BY <1>c, LoAssumption DEF LoInv, Parties, LoLocks, Loose
<1>3. Mine(LoRm) = {l} /\ Queued(LoRm) = {} /\ l \in Alone(LoRm)
  BY <1>c, <1>1, <1>2 DEF RmInv
<1>4. LockInv(loLock[l]) /\ loLock = [k \in LoLocks |-> loLock[k]]
  BY <1>2 DEF LockInvs, LoTypeOK
<1>5. <<LoRm, "exclusive">> \in loLock[l].holders
  <2>1. Owning(loLock[l], LoRm) /\ ~Queueing(loLock[l], LoRm)
    BY <1>2, <1>3, Views
  <2>2. ~Mode(loLock[l].queue, LoRm, "exclusive")
    BY <2>1 DEF Queueing, Mode
  <2> QED
    BY <2>1, <2>2 DEF Owning
<1>6. loLock[l].holders = {<<LoRm, "exclusive">>}
  BY <1>2, <1>4, <1>5 DEF LockInv, Single
<1>7. \A k \in LoLocks : loLock[k] \in Lock
  BY <1>2 DEF LockInvs, LockInv
<1>8. Freeing(LoRm, {l}, {})
  <2> DEFINE new == [k \in LoLocks |-> [loLock[k] EXCEPT !.holders =
                        IF k \in {l} THEN {h \in @ : h[1] # LoRm}
                        ELSE IF k \in {} THEN {<<LoRm, "shared">>} ELSE @]]
  <2>1. ASSUME NEW k \in LoLocks
        PROVE  loLock'[k] = new[k]
    <3>1. CASE k = l
      <4>1. {h \in loLock[l].holders : h[1] # LoRm} = {}
        BY <1>6
      <4>2. new[k] = [loLock[l] EXCEPT !.holders = {h \in @ : h[1] # LoRm}]
        BY <3>1, Zenon
      <4>3. loLock'[k] = [loLock[l] EXCEPT !.holders = {}]
        BY <1>1, <1>2, <1>4, <3>1
      <4> QED
        BY <4>1, <4>2, <4>3, Zenon
    <3>2. CASE k # l
      <4>1. new[k] = [loLock[k] EXCEPT !.holders = @]
        BY <3>2, Zenon
      <4>2. new[k] = loLock[k]
        BY <1>7, <4>1 DEF Lock
      <4>3. loLock'[k] = loLock[k]
        BY <1>1, <1>4, <3>2
      <4> QED
        BY <4>2, <4>3
    <3> QED
      BY <3>1, <3>2
  <2>2. loLock' = [k \in LoLocks |-> loLock'[k]]
    BY <1>1, <1>4
  <2>3. new = [k \in LoLocks |-> new[k]]
    OBVIOUS
  <2> HIDE DEF new
  <2>4. loLock' = new
    BY <2>1, <2>2, <2>3
  <2> QED
    BY <2>4, Zenon DEF Freeing, new
<1>9. /\ LockInvs' /\ loLock' = [k \in LoLocks |-> loLock'[k]]
      /\ \A u : Queued(u)' = Queued(u)
      /\ \A u : u # LoRm => Mine(u)' = Mine(u) /\ Alone(u)' = Alone(u)
      /\ Mine(LoRm)' = Mine(LoRm) \ {l}
      /\ Alone(LoRm)' = Alone(LoRm) \ ({l} \union {})
  <2> DEFINE gone == {l}
             low == {}
  <2>1. low \subseteq Alone(LoRm) /\ low \intersect gone = {}
    OBVIOUS
  <2>2. Freeing(LoRm, gone, low)
    BY <1>8
  <2> HIDE DEF gone, low
  <2>3. /\ LockInvs' /\ loLock' = [k \in LoLocks |-> loLock'[k]]
        /\ \A u : Queued(u)' = Queued(u)
        /\ \A u : u # LoRm => Mine(u)' = Mine(u) /\ Alone(u)' = Alone(u)
        /\ Mine(LoRm)' = Mine(LoRm) \ gone
        /\ Alone(LoRm)' = Alone(LoRm) \ (gone \union low)
    BY <1>2, <1>3, <2>1, <2>2, Freed
  <2> QED
    BY <2>3, Zenon DEF gone, low
<1>10. RmInv'
  BY <1>3, <1>9 DEF RmInv
<1>11. LoTypeOK'
  BY <1>1, <1>2, <1>9 DEF LoTypeOK
<1>12. ASSUME NEW u \in LoThread
       PROVE  ThreadInv(u)'
  BY <1>1, <1>2, <1>9, ThreadKept DEF Unaffected, LoInv
<1> QED
  BY <1>9, <1>10, <1>11, <1>12 DEF LoInv

LEMMA SameStep ==
    ASSUME LoInv, UNCHANGED <<loContext, loLock, loTodo, loSetup>>, loFault' \in BOOLEAN
    PROVE  LoInv'
<1>1. \A u : Mine(u)' = Mine(u) /\ Queued(u)' = Queued(u) /\ Alone(u)' = Alone(u)
  BY SameViews
<1>2. LoTypeOK' /\ LockInvs' /\ RmInv'
  BY <1>1, RmKept DEF LoInv, LoTypeOK, LockInvs
<1>3. ASSUME NEW u \in LoThread
      PROVE  ThreadInv(u)'
  BY <1>1, ThreadKept DEF Unaffected, LoInv
<1> QED
  BY <1>2, <1>3 DEF LoInv

LEMMA LoInitial ==
    ASSUME LoInit
    PROVE  LoInv
<1>1. /\ loContext = [t \in LoThread |-> NoContext] /\ loTodo = [t \in LoThread |-> <<>>]
      /\ loLock = [l \in LoLocks |-> [holders |-> {}, queue |-> <<>>]]
      /\ loFault = FALSE /\ loSetup \in LoSetups
  BY DEF LoInit
<1>2. LoTypeOK
  BY <1>1 DEF LoTypeOK
<1>3. LockInvs
  <2>1. [holders |-> {}, queue |-> <<>>] \in Lock
    BY DEF Lock
  <2>2. Single({}) /\ Once(<<>>)
    BY DEF Single, Once
  <2> QED
    BY <1>1, <2>1, <2>2 DEF LockInvs, LockInv
<1>4. \A t : Mine(t) = {} /\ Queued(t) = {} /\ Alone(t) = {}
  <2>1. \A l \in LoLocks : loLock[l].holders = {} /\ DOMAIN loLock[l].queue = {}
    BY <1>1
  <2> QED
    BY <2>1 DEF Mine, Has, Holds, Request, Queued, Alone, Mode
<1>5. RmInv
  BY <1>4 DEF RmInv
<1>6. ASSUME NEW t \in LoThread
      PROVE  ThreadInv(t)
  <2> DEFINE E == {}
  <2>1. loContext[t] = Tracked(E, E) /\ loTodo[t] = <<>> /\ Tracked(E, E).skip = 0
    BY <1>1, <1>6, RecordSkipping DEF Tracked
  <2>2. E \union E = E /\ Mine(t) = E /\ Queued(t) = E /\ Alone(t) = E
    BY <1>4
  <2>3. Shape(<<>>, E, E, E)
    <3>1. Nested(E, E, E)
      BY FS_EmptySet DEF Nested, Apart
    <3>2. Ruled(<<>>, E, E, E) /\ Todo(<<>>, E, E)
      BY DEF Ruled, Todo
    <3> HIDE DEF E
    <3> QED
      BY <2>2, <3>1, <3>2, Zenon DEF Shape
  <2>4. BhShape(<<>>, E, E)
    BY DEF BhShape
  <2> HIDE DEF E
  <2> QED
    BY <2>1, <2>2, <2>3, <2>4, Zenon DEF ThreadInv, Known
<1> QED
  BY <1>2, <1>3, <1>5, <1>6 DEF LoInv

(* As long as every context can be allocated.                              *)
LoSafe == ~loSetup.fails => LoInv

LEMMA LoStep ==
    ASSUME LoSafe, [LoNext]_loVars
    PROVE  LoSafe'
<1>1. loSetup' = loSetup
  <2>1. CASE LoNext
    BY <2>1, Zenon DEF LoNext, StartCall, Acquire, Unlock, Grant, RmLock, RmUnlock, Fault,
       uvm_thread_context_disable_lock_tracking, uvm_thread_context_enable_lock_tracking
  <2> QED
    BY <2>1 DEF loVars
<1> SUFFICES ASSUME ~loSetup.fails, LoInv
             PROVE  LoInv'
  BY <1>1 DEF LoSafe
<1>2. ASSUME NEW t \in LoThread, NEW call \in Calls(t), StartCall(t, call)
      PROVE  LoInv'
  BY <1>2, StartStep
<1>3. ASSUME NEW t \in LoThread, Acquire(t)
      PROVE  LoInv'
  BY <1>3, AcquireStep
<1>4. ASSUME NEW t \in LoThread, NEW r \in Releases(t), Unlock(t, r)
      PROVE  LoInv'
  BY <1>4, UnlockStep
<1>5. ASSUME NEW t \in LoThread,
             uvm_thread_context_disable_lock_tracking(t)
               \/ uvm_thread_context_enable_lock_tracking(t)
      PROVE  LoInv'
  BY <1>5, SkipStep
<1>6. ASSUME NEW l \in LoLocks, Grant(l)
      PROVE  LoInv'
  BY <1>6, GrantStep
<1>7. CASE RmLock
  BY <1>7, RmLockStep
<1>8. CASE RmUnlock
  BY <1>8, RmUnlockStep
<1>9. CASE Fault
  BY <1>9, SameStep DEF Fault
<1>10. CASE UNCHANGED loVars
  BY <1>10, SameStep DEF loVars, LoInv, LoTypeOK
<1> HIDE DEF LoInv
<1> QED
  BY <1>2, <1>3, <1>4, <1>5, <1>6, <1>7, <1>8, <1>9, <1>10, Zenon DEF LoNext

(* The invariant of lock order tracking (uvm8_lock.c): while contexts can  *)
(* be allocated, a thread takes locks in the one order the tracking        *)
(* accepts, and its context (uvm8_thread_context.c) says which it has and  *)
(* waits for.                                                              *)
THEOREM LoInvariant == LoSpec => []LoSafe
<1>1. LoInit => LoSafe
  BY LoInitial DEF LoSafe
<1>2. LoSafe /\ [LoNext]_loVars => LoSafe'
  BY LoStep
<1> QED
  BY <1>1, <1>2, PTL DEF LoSpec

(***************************************************************************)
(* Deadlock                                                                *)
(***************************************************************************)
LEMMA Smallest ==
    ASSUME NEW T, T \subseteq Nat, T # {}
    PROVE  \E i \in T : \A j \in T : ~(j < i)
<1> DEFINE R == {ij \in Nat \X Nat : ij[1] < ij[2]}
<1>1. IsWellFoundedOn(R, Nat)
  BY NatLessThanWellFounded DEF OpToRel
<1> HIDE DEF R
<1>2. \E i \in T : \A j \in T : ~(<<j, i>> \in R)
  BY <1>1, WFMin
<1> QED
  BY <1>2 DEF R

(* Each of S waits for one of S.                                           *)
Stuck(S) == S \subseteq Parties /\ \A t \in S : \E u \in S : WaitsFor(t, u)

LEMMA QueuedOnce ==
    ASSUME LoInv, NEW t \in Parties, NEW l \in Queued(t)
    PROVE  /\ Queued(t) = {l} /\ l \in LoLocks /\ l \notin Mine(t)
           /\ t \in LoThread => \A k \in Mine(t) : lock_order(k) < lock_order(l)
           /\ t = LoRm => l = "rm_gpus" /\ Mine(t) = {}
<1>1. CASE t \in LoThread
  <2>1. t # LoRm
    BY <1>1, LoAssumption
  <2>2. Nested(Mine(t), Queued(t), Alone(t))
    BY <1>1 DEF LoInv, ThreadInv, Shape
  <2>3. /\ Queued(t) = {l} /\ l \in LoLocks /\ Mine(t) \subseteq LoLocks
        /\ \A k \in Mine(t) : lock_order(k) < lock_order(l)
    BY <2>2 DEF Nested
  <2>4. l \notin Mine(t)
    BY <2>3, OrderOf
  <2> QED
    BY <2>1, <2>3, <2>4
<1>2. CASE t = LoRm
  <2>1. LoRm \notin LoThread /\ "rm_gpus" \in LoLocks
    BY LoAssumption DEF LoLocks, Loose
  <2>2. /\ Mine(LoRm) \union Queued(LoRm) \subseteq {"rm_gpus"}
        /\ Mine(LoRm) \intersect Queued(LoRm) = {}
    BY DEF LoInv, RmInv
  <2> QED
    BY <1>2, <2>1, <2>2
<1> QED
  BY <1>1, <1>2 DEF Parties

LEMMA FirstWaiter ==
    ASSUME LoInv, NEW S, Stuck(S), NEW l \in LoLocks, \E t \in S : l \in Queued(t)
    PROVE  \E t, u \in S :
              /\ l \in Queued(t) /\ l \in Mine(u)
              /\ \E mode \in Modes : /\ Mode(loLock[l].queue, t, mode)
                                     /\ ~Compatible(loLock[l].holders, mode)
<1> DEFINE q == loLock[l].queue
           T == {i \in DOMAIN q : q[i][1] \in S}
<1>1. q \in Seq(Entries) /\ Once(q)
  BY DEF LoInv, LockInvs, LockInv, Lock
<1>2. T \subseteq Nat /\ T # {}
  <2>1. DOMAIN q \subseteq Nat
    BY <1>1
  <2>2. PICK t \in S : l \in Queued(t)
    OBVIOUS
  <2>3. \E i \in DOMAIN q : q[i][1] = t
    BY <2>2 DEF Queued
  <2> QED
    BY <2>1, <2>3
<1> HIDE DEF q
<1>3. PICK i \in T : \A j \in T : ~(j < i)
  BY <1>2, Smallest
<1>4. i \in DOMAIN q /\ q[i][1] \in S /\ i \in Nat
  BY <1>2, <1>3
<1>5. q[i] = <<q[i][1], q[i][2]>> /\ q[i][2] \in Modes
  <2>1. q[i] \in Entries
    BY <1>1, <1>4
  <2> QED
    BY <2>1, EntryParts
<1>c. SUFFICES ASSUME NEW t, t = q[i][1], NEW mode, mode = q[i][2]
               PROVE  \E u \in S : l \in Mine(u) /\ l \in Queued(t) /\ Mode(q, t, mode)
                                   /\ ~Compatible(loLock[l].holders, mode)
  BY <1>4, <1>5 DEF q
<1>6. Mode(q, t, mode)
  BY <1>4, <1>5, <1>c DEF Mode
<1>7. l \in Queued(t)
  BY <1>4, <1>c DEF Queued, q
<1>8. PICK u \in S : WaitsFor(t, u)
  BY <1>4, <1>c DEF Stuck
<1>9. t \in Parties
  BY <1>4, <1>c DEF Stuck
<1>10. Queued(t) = {l} /\ (t = LoRm => Mine(LoRm) = {})
  BY <1>7, <1>9, QueuedOnce
<1> DEFINE at == CHOOSE j \in DOMAIN q : q[j][1] = t
<1>11. \/ Has(u, l) /\ ~Compatible(loLock[l].holders, q[at][2])
       \/ \E j \in 1 .. at - 1 : q[j][1] = u
  <2>1. \/ \E k \in Queued(t) :
              LET a == CHOOSE j \in DOMAIN loLock[k].queue : loLock[k].queue[j][1] = t
              IN  \/ Has(u, k) /\ ~Compatible(loLock[k].holders, loLock[k].queue[a][2])
                  \/ \E j \in 1 .. a - 1 : loLock[k].queue[j][1] = u
        \/ t = LoRm /\ Mine(LoRm) # {}
    BY <1>8, Zenon DEF WaitsFor
  <2>2. \E k \in {l} :
              LET a == CHOOSE j \in DOMAIN loLock[k].queue : loLock[k].queue[j][1] = t
              IN  \/ Has(u, k) /\ ~Compatible(loLock[k].holders, loLock[k].queue[a][2])
                  \/ \E j \in 1 .. a - 1 : loLock[k].queue[j][1] = u
    BY <1>10, <2>1, Zenon
  <2> QED
    BY <2>2, Zenon DEF q
<1>12. at = i
  <2>1. at \in DOMAIN q /\ q[at][1] = t
    BY <1>4, <1>c
  <2> HIDE DEF at
  <2> QED
    BY <1>1, <1>4, <1>c, <2>1 DEF Once
<1> HIDE DEF at
<1>13. ~\E j \in 1 .. at - 1 : q[j][1] = u
  <2> SUFFICES ASSUME NEW j \in 1 .. i - 1, q[j][1] = u
               PROVE  FALSE
    BY <1>12
  <2>1. j \in DOMAIN q /\ j < i
    BY <1>1, <1>4
  <2> QED
    BY <1>3, <2>1
<1>14. Has(u, l) /\ ~Compatible(loLock[l].holders, mode)
  BY <1>11, <1>12, <1>13, <1>c, Zenon
<1>15. l \in Mine(u)
  BY <1>14 DEF Mine
<1> QED
  BY <1>6, <1>7, <1>14, <1>15

(* Whoever is stuck queues for a lock, deeper than those it has.           *)
LEMMA StuckQueues ==
    ASSUME LoInv, NEW S, Stuck(S), NEW u \in S, u \in LoThread
    PROVE  \E l \in Queued(u) : \A k \in Mine(u) : lock_order(k) < lock_order(l)
<1>1. u # LoRm /\ u \in Parties
  BY LoAssumption DEF Parties
<1>2. PICK v \in S : WaitsFor(u, v)
  BY DEF Stuck
<1>3. Queued(u) # {}
  BY <1>1, <1>2, Zenon DEF WaitsFor
<1> QED
  BY <1>1, <1>3, QueuedOnce

(* Who has a lock in exclusive mode is in its holders so, and is the only  *)
(* one.                                                                    *)
LEMMA OneAlone ==
    ASSUME LoInv, NEW t \in LoThread, NEW l \in Mine(t), l \in Alone(t)
    PROVE  loLock[l].holders = {<<t, "exclusive">>}
<1>1. l \in LoLocks
  BY DEF Mine
<1>2. l \notin Queued(t)
  <2>1. t \in Parties
    BY DEF Parties
  <2> QED
    BY <2>1, QueuedOnce
<1>3. ~Mode(loLock[l].queue, t, "exclusive")
  <2> SUFFICES ASSUME NEW i \in DOMAIN loLock[l].queue, loLock[l].queue[i] = <<t, "exclusive">>
               PROVE  FALSE
    BY DEF Mode
  <2>1. loLock[l].queue[i][1] = t
    OBVIOUS
  <2>2. l \in Queued(t)
    BY <1>1, <2>1 DEF Queued
  <2> QED
    BY <1>2, <2>2
<1>4. <<t, "exclusive">> \in loLock[l].holders
  BY <1>1, <1>3, Zenon DEF Alone
<1>5. Single(loLock[l].holders) /\ t \in Parties
  BY <1>1 DEF LoInv, LockInvs, LockInv, Parties
<1> QED
  BY <1>4, <1>5 DEF Single

(* Who has only some locks in shared mode is one of those that share them. *)
LEMMA OneShares ==
    ASSUME LoInv, NEW t \in LoThread, NEW l \in Mine(t), l \notin Alone(t)
    PROVE  \A h \in loLock[l].holders : h[2] = "shared"
<1>1. l \in LoLocks /\ t \in Parties
  BY DEF Mine, Parties
<1>2. loLock[l].holders \subseteq Entries /\ Single(loLock[l].holders)
  BY <1>1 DEF LoInv, LockInvs, LockInv, Lock
<1>3. PICK mode \in Modes : <<t, mode>> \in loLock[l].holders
  BY DEF Mine, Has, Holds, Request
<1>4. mode # "exclusive"
  BY <1>1, <1>3 DEF Alone
<1>5. <<t, "shared">> \in loLock[l].holders
  BY <1>3, <1>4 DEF Modes
<1> SUFFICES ASSUME NEW h \in loLock[l].holders, h[2] # "shared"
             PROVE  FALSE
  OBVIOUS
<1>6. h = <<h[1], h[2]>> /\ h[1] \in Parties /\ h[2] \in Modes
  BY <1>2, EntryParts
<1>7. h[2] = "exclusive"
  BY <1>6 DEF Modes
<1>8. <<h[1], "exclusive">> \in loLock[l].holders
  BY <1>6, <1>7
<1>9. loLock[l].holders = {<<h[1], "exclusive">>}
  BY <1>2, <1>6, <1>8 DEF Single
<1>10. <<t, "shared">> = <<h[1], "exclusive">>
  BY <1>5, <1>9
<1>11. "shared" = "exclusive"
  BY <1>10
<1> QED
  BY <1>11

(* What a thread's invariant says of the locks it has and queues for.      *)
LEMMA RulesOf ==
    ASSUME LoInv, NEW t \in LoThread
    PROVE  /\ "va_space" \in Alone(t) => "serialize" \in Mine(t)
           /\ "rm_gpus" \in Mine(t) \union Queued(t) => "rm_api" \in Mine(t)
           /\ "rm_api" \in Mine(t) \union Queued(t)
                => /\ "va_space" \notin Alone(t)
                   /\ "va_space" \in Mine(t) => "serialize" \in Mine(t) \union Queued(t)
           /\ Mine(t) \union Queued(t) \subseteq Alone(t) \union {"va_space"}
           /\ Mine(t) \subseteq LoLocks
  BY DEF LoInv, ThreadInv, Shape, Nested, Ruled, RmFine

LEMMA NobodyAtBlock ==
    ASSUME LoInv, NEW S, Stuck(S), NEW b \in LoBlock, NEW t \in S, b \in Queued(t)
    PROVE  FALSE
<1>1. b \in LoLocks
  BY DEF LoLocks
<1>2. PICK u \in S : b \in Mine(u)
  BY <1>1, FirstWaiter
<1>3. u \in LoThread
  <2>1. u \in Parties
    BY DEF Stuck
  <2>2. u # LoRm
    <3>1. b # "rm_gpus"
      BY OrderOf DEF Loose
    <3> QED
      BY <1>2, <3>1 DEF LoInv, RmInv
  <2> QED
    BY <2>1, <2>2 DEF Parties
<1>4. PICK l \in Queued(u) : \A k \in Mine(u) : lock_order(k) < lock_order(l)
  BY <1>3, StuckQueues
<1>5. l \in LoLocks
  BY DEF Queued
<1> QED
  BY <1>2, <1>4, <1>5, OrderOf

LEMMA NobodyAtVaSpace ==
    ASSUME LoInv, NEW S, Stuck(S), NEW s \in S, "va_space" \in Queued(s)
    PROVE  FALSE
<1>c. SUFFICES ASSUME NEW va, va = "va_space"
               PROVE  FALSE
  OBVIOUS
<1>1. va \in LoLocks /\ va \in Queued(s)
  BY <1>c DEF LoLocks, Loose
<1>2. PICK t, u \in S :
         /\ va \in Queued(t) /\ va \in Mine(u)
         /\ \E mode \in Modes : /\ Mode(loLock[va].queue, t, mode)
                                /\ ~Compatible(loLock[va].holders, mode)
  BY <1>1, FirstWaiter
<1>3. PICK mode \in Modes : Mode(loLock[va].queue, t, mode)
        /\ ~Compatible(loLock[va].holders, mode)
  BY <1>2
<1>4. t \in Parties /\ u \in Parties
  BY DEF Stuck
<1>5. t \in LoThread /\ u \in LoThread
  <2>1. t # LoRm
    BY <1>2, <1>4, <1>c, QueuedOnce
  <2>2. u # LoRm
    BY <1>2, <1>c DEF LoInv, RmInv
  <2> QED
    BY <1>4, <2>1, <2>2 DEF Parties
<1>6. PICK l \in Queued(u) : \A k \in Mine(u) : lock_order(k) < lock_order(l)
  BY <1>5, StuckQueues
<1>7. l = "rm_api" \/ l = "rm_gpus"
  <2>1. l \in LoLocks /\ lock_order(va) < lock_order(l)
    BY <1>2, <1>6 DEF Queued
  <2>2. l \notin LoBlock
    BY <1>6, NobodyAtBlock
  <2> QED
    BY <2>1, <2>2, <1>c, OrderOf, Below
<1>8. "rm_api" \in Mine(u) \union Queued(u)
  BY <1>5, <1>6, <1>7, RulesOf
<1>9. va \notin Alone(u) /\ "serialize" \in Mine(u)
  <2>1. va \notin Alone(u) /\ "serialize" \in Mine(u) \union Queued(u)
    BY <1>2, <1>5, <1>8, <1>c, RulesOf
  <2>2. Queued(u) = {l}
    BY <1>4, <1>6, QueuedOnce
  <2> QED
    BY <1>7, <2>1, <2>2
<1>10. loLock["serialize"].holders = {<<u, "exclusive">>}
  <2>1. "serialize" \in Alone(u)
    BY <1>5, <1>9, RulesOf
  <2> QED
    BY <1>5, <1>9, <2>1, OneAlone
<1>11. mode = "exclusive"
  <2>1. \A h \in loLock[va].holders : h[2] = "shared"
    BY <1>2, <1>5, <1>9, OneShares
  <2> QED
    BY <1>3, <2>1 DEF Compatible, Modes
<1>12. va \in Alone(t)
  BY <1>1, <1>3, <1>11, Zenon DEF Alone
<1>13. "serialize" \in Mine(t)
  BY <1>5, <1>12, <1>c, RulesOf
<1>14. loLock["serialize"].holders = {<<t, "exclusive">>}
  <2>1. "serialize" \in Alone(t)
    BY <1>5, <1>13, RulesOf
  <2> QED
    BY <1>5, <1>13, <2>1, OneAlone
<1>15. t = u
  <2>1. <<t, "exclusive">> = <<u, "exclusive">>
    BY <1>10, <1>14
  <2> QED
    BY <2>1
<1>16. va \notin Mine(t)
  BY <1>2, <1>4, QueuedOnce
<1> QED
  BY <1>2, <1>15, <1>16

LEMMA NobodyStuck ==
    ASSUME LoInv, NEW S, Stuck(S)
    PROVE  S = {}
<1>1. \A t \in S, b \in LoBlock : b \notin Queued(t)
  BY NobodyAtBlock
<1>2. \A t \in S : "va_space" \notin Queued(t)
  BY NobodyAtVaSpace
<1>3. \A t \in S : t \in LoThread \/ t = LoRm
  BY DEF Stuck, Parties
<1>4. {"serialize", "va_space", "rm_api", "rm_gpus"} \subseteq LoLocks
  BY DEF LoLocks, Loose
<1>5. LoBh \notin S
  <2> SUFFICES ASSUME LoBh \in S
               PROVE  FALSE
    OBVIOUS
  <2>1. LoBh \in LoThread
    BY LoAssumption
  <2>2. PICK l \in Queued(LoBh) : \A k \in Mine(LoBh) : lock_order(k) < lock_order(l)
    BY <2>1, StuckQueues
  <2>3. Queued(LoBh) \subseteq LoBlock \union {"va_space"}
    BY <2>1 DEF LoInv, ThreadInv, BhShape
  <2> QED
    BY <1>1, <1>2, <2>2, <2>3
<1>6. ASSUME LoRm \in S
      PROVE  Mine(LoRm) = {}
  <2>1. PICK u \in S : WaitsFor(LoRm, u)
    BY <1>6 DEF Stuck
  <2>2. PICK l : l \in Queued(LoRm)
    BY <1>5, <2>1, Zenon DEF WaitsFor
  <2> QED
    BY <2>2, QueuedOnce DEF Parties
<1>7. ASSUME NEW l \in LoLocks, NEW t \in S, l \in Queued(t)
      PROVE  \E u \in S : u \in LoThread /\ l \in Mine(u)
                          /\ \E k \in Queued(u) : k \in LoLocks /\ lock_order(l) < lock_order(k)
  <2>1. PICK u \in S : l \in Mine(u)
    BY <1>7, FirstWaiter
  <2>2. u \in LoThread
    BY <1>3, <1>6, <2>1
  <2>3. PICK k \in Queued(u) : \A j \in Mine(u) : lock_order(j) < lock_order(k)
    BY <2>2, StuckQueues
  <2>4. k \in LoLocks
    BY DEF Queued
  <2> QED
    BY <2>1, <2>2, <2>3, <2>4
<1>8. \A t \in S : "rm_gpus" \notin Queued(t)
  <2> SUFFICES ASSUME NEW t \in S, "rm_gpus" \in Queued(t)
               PROVE  FALSE
    OBVIOUS
  <2>a. PICK u \in S : \E k \in Queued(u) : k \in LoLocks
          /\ lock_order("rm_gpus") < lock_order(k)
    BY <1>4, <1>7
  <2>1. PICK k \in Queued(u) : k \in LoLocks /\ lock_order("rm_gpus") < lock_order(k)
    BY <2>a
  <2>2. k \in LoBlock
    BY <2>1, OrderOf, Below
  <2> QED
    BY <1>1, <2>1, <2>2
<1>9. \A t \in S : "rm_api" \notin Queued(t)
  <2> SUFFICES ASSUME NEW t \in S, "rm_api" \in Queued(t)
               PROVE  FALSE
    OBVIOUS
  <2>a. PICK u \in S : \E k \in Queued(u) : k \in LoLocks
          /\ lock_order("rm_api") < lock_order(k)
    BY <1>4, <1>7
  <2>1. PICK k \in Queued(u) : k \in LoLocks /\ lock_order("rm_api") < lock_order(k)
    BY <2>a
  <2>2. k \in LoBlock \/ k = "rm_gpus"
    BY <2>1, OrderOf, Below
  <2> QED
    BY <1>1, <1>8, <2>1, <2>2
<1>10. \A t \in S : "serialize" \notin Queued(t)
  <2> SUFFICES ASSUME NEW t \in S, "serialize" \in Queued(t)
               PROVE  FALSE
    OBVIOUS
  <2>a. PICK u \in S : \E k \in Queued(u) : k \in LoLocks
          /\ lock_order("serialize") < lock_order(k)
    BY <1>4, <1>7
  <2>1. PICK k \in Queued(u) : k \in LoLocks /\ lock_order("serialize") < lock_order(k)
    BY <2>a
  <2>2. k \in LoBlock \/ k = "rm_gpus" \/ k = "rm_api" \/ k = "va_space"
    BY <2>1, OrderOf, Below
  <2> QED
    BY <1>1, <1>2, <1>8, <1>9, <2>1, <2>2
<1>11. \A t \in S : Queued(t) = {}
  <2>1. \A t \in S : Queued(t) \subseteq LoLocks
    BY DEF Queued
  <2>2. \A l \in LoLocks : l \in LoBlock \/ l \in {"serialize", "va_space", "rm_api", "rm_gpus"}
    BY Below
  <2> QED
    BY <1>1, <1>2, <1>8, <1>9, <1>10, <2>1, <2>2
<1> SUFFICES ASSUME NEW t \in S
             PROVE  FALSE
  OBVIOUS
<1>12. PICK u \in S : WaitsFor(t, u)
  BY DEF Stuck
<1>13. t = LoRm /\ u = LoBh
  BY <1>11, <1>12, Zenon DEF WaitsFor
<1> QED
  BY <1>5, <1>13

LEMMA NeverDeadlocked ==
    ASSUME LoInv
    PROVE  NoDeadlock
<1> SUFFICES ASSUME NEW S, S \subseteq Waiting, S # {},
      ~\E t \in S : \A u \in S : ~WaitsFor(t, u)
             PROVE  FALSE
  BY DEF NoDeadlock
<1>1. S \subseteq Parties
  BY DEF Waiting, Parties
<1>2. \A t \in S : \E u \in S : WaitsFor(t, u)
  BY Zenon
<1>3. Stuck(S)
  BY <1>1, <1>2 DEF Stuck
<1> QED
  BY <1>3, NobodyStuck

(***************************************************************************)
(* Contexts and releases                                                   *)
(***************************************************************************)
LEMMA TrackedExact ==
    ASSUME NEW L, NEW X, IsFiniteSet(L), X \subseteq L
    PROVE  LET context == Tracked(L, X)
           IN  /\ context.ref_count = Cardinality(L) + context.skip
               /\ (context = NoContext) = (context.ref_count = 0)
               /\ context.skip = 0 /\ context.locks = L
                    /\ context.exclusive = {lock_order(l) : l \in X}
               /\ context.acquired = {lock_order(l) : l \in context.locks}
<1>c. SUFFICES ASSUME NEW c, c = Tracked(L, X)
               PROVE  /\ c.ref_count = Cardinality(L) + c.skip
                      /\ (c = NoContext) = (c.ref_count = 0)
                      /\ c.skip = 0 /\ c.locks = L /\ c.exclusive = {lock_order(l) : l \in X}
                      /\ c.acquired = {lock_order(l) : l \in c.locks}
  BY Zenon
<1>1. /\ c.ref_count = Cardinality(L) /\ c.skip = 0 /\ c.locks = L
      /\ c.exclusive = {lock_order(l) : l \in X} /\ c.acquired = {lock_order(l) : l \in L}
  BY <1>c DEF Tracked
<1>2. Cardinality(L) \in Nat /\ (Cardinality(L) = 0 <=> L = {})
  BY FS_CardinalityType, FS_EmptySet
<1>3. c = NoContext <=> c.ref_count = 0
  <2>1. ASSUME L = {}
        PROVE  c = NoContext
    BY <1>c, <2>1, RecordSkipping
  <2>2. NoContext.locks = {}
    BY DEF NoContext
  <2>3. c = NoContext <=> L = {}
    BY <1>1, <2>1, <2>2
  <2> QED
    BY <1>1, <1>2, <2>3
<1>4. c.ref_count = Cardinality(L) + c.skip
  BY <1>1, <1>2
<1>5. c.acquired = {lock_order(l) : l \in c.locks}
  BY <1>1
<1> QED
  BY <1>1, <1>3, <1>4, <1>5, Zenon

LEMMA SkippingExact ==
    ASSUME NEW L, IsFiniteSet(L)
    PROVE  LET context == Skipping(L)
           IN  /\ context.ref_count = Cardinality(L) + context.skip /\ context.skip # 0
               /\ (context = NoContext) = (context.ref_count = 0)
<1>1. Cardinality(L) \in Nat
  BY FS_CardinalityType
<1>2. Skipping(L).ref_count = Cardinality(L) + 1 /\ Skipping(L).skip = 1
  BY DEF Skipping
<1>3. NoContext.skip = 0
  BY DEF NoContext
<1>4. Skipping(L) # NoContext /\ Skipping(L).ref_count # 0
  BY <1>1, <1>2, <1>3
<1> QED
  BY <1>2, <1>4

LEMMA AlwaysExact ==
    ASSUME LoInv
    PROVE  ContextsExact
<1> DEFINE Exact(t, c) ==
      /\ c.ref_count = Cardinality(Mine(t) \union Queued(t)) + c.skip
      /\ (c = NoContext) = (c.ref_count = 0)
      /\ c.skip = 0 =>
           /\ c.locks = Mine(t) \union Queued(t)
           /\ c.acquired = {lock_order(l) : l \in c.locks}
           /\ \A l \in Mine(t) : (lock_order(l) \in c.exclusive) = Holds(t, Request(l, "exclusive"))
<1> SUFFICES ASSUME NEW t \in LoThread
             PROVE  Exact(t, loContext[t])
  BY Zenon DEF ContextsExact
<1>c. SUFFICES ASSUME NEW c, c = loContext[t], NEW L, L = Mine(t) \union Queued(t), NEW X,
        X = Alone(t)
               PROVE  Exact(t, c)
  BY Zenon
<1>1. Nested(Mine(t), Queued(t), X) /\ Known(c, loTodo[t], L, X)
  BY <1>c DEF LoInv, ThreadInv, Shape
<1>2. IsFiniteSet(L) /\ Apart(L) /\ X \subseteq L
  BY <1>1, <1>c DEF Nested
<1>3. CASE c = Tracked(L, X)
  <2>1. /\ c.ref_count = Cardinality(L) + c.skip /\ (c = NoContext) = (c.ref_count = 0)
        /\ c.skip = 0 /\ c.locks = L /\ c.exclusive = {lock_order(l) : l \in X}
        /\ c.acquired = {lock_order(l) : l \in c.locks}
    BY <1>2, <1>3, TrackedExact
  <2>2. ASSUME NEW l \in Mine(t)
        PROVE  lock_order(l) \in c.exclusive <=> Holds(t, Request(l, "exclusive"))
    <3>1. l \in L /\ l \in LoLocks
      BY <1>c DEF Mine
    <3>2. lock_order(l) \in c.exclusive <=> l \in X
      BY <1>2, <2>1, <3>1 DEF Apart
    <3>3. Holds(t, Request(l, "exclusive")) <=> <<t, "exclusive">> \in loLock[l].holders
      BY DEF Holds, Request
    <3>4. ASSUME l \in Alone(t)
          PROVE  <<t, "exclusive">> \in loLock[l].holders
      <4>1. loLock[l].holders = {<<t, "exclusive">>}
        BY <3>4, OneAlone
      <4> QED
        BY <4>1
    <3>5. ASSUME <<t, "exclusive">> \in loLock[l].holders
          PROVE  l \in Alone(t)
      BY <3>1, <3>5 DEF Alone
    <3> QED
      BY <1>c, <3>2, <3>3, <3>4, <3>5, Zenon
  <2>3. \A l \in Mine(t) : (lock_order(l) \in c.exclusive) = Holds(t, Request(l, "exclusive"))
    BY <2>2 DEF Holds
  <2> QED
    BY <1>c, <2>1, <2>3, Zenon
<1>4. CASE c = Skipping(L)
  <2>1. /\ c.ref_count = Cardinality(L) + c.skip /\ c.skip # 0
        /\ (c = NoContext) = (c.ref_count = 0)
    BY <1>2, <1>4, SkippingExact
  <2> QED
    BY <1>c, <2>1, Zenon
<1> QED
  BY <1>1, <1>3, <1>4 DEF Known

LEMMA AlwaysAccepted ==
    ASSUME LoInv
    PROVE  NestingAccepted
<1> SUFFICES ASSUME NEW t \in LoThread, NEW r \in Releases(t), AtRest(t)
             PROVE  AfterRelease(t, r).ok
  BY DEF NestingAccepted
<1>c. SUFFICES ASSUME NEW M, M = Mine(t), NEW X, X = Alone(t), NEW c, c = loContext[t]
               PROVE  AfterRelease(t, r).ok
  OBVIOUS
<1>1. loTodo[t] = <<>> /\ Queued(t) = {} /\ ThreadInv(t)
  BY DEF AtRest, LoInv
<1>2. Knowing(t, c, <<>>, M, X)
  BY <1>1, <1>c, Knows
<1>3. /\ Shape(<<>>, M, {}, X)
      /\ c = Tracked(M, X) \/ (c = Skipping(M) /\ M \subseteq LoBlock)
  BY <1>2, Zenon DEF Knowing
<1>4. CASE c = Tracked(M, X)
  <2>1. ReleaseFine(t, r, M, X)
    BY <1>1, <1>3, <1>4, <1>c, FineRelease
  <2> QED
    BY <2>1, Zenon DEF ReleaseFine, Fine
<1>5. CASE c = Skipping(M) /\ M \subseteq LoBlock
  <2>1. Fine(AfterRelease(t, r), Skipping({}))
    BY <1>1, <1>3, <1>5, <1>c, FineReleaseSkipping
  <2> QED
    BY <2>1, Zenon DEF Fine
<1> QED
  BY <1>3, <1>4, <1>5

(* While thread contexts can be allocated, the lock order tracking of      *)
(* uvm8_lock.c keeps its promise: threads whose every call it accepts, the *)
(* bottom half that services GPU faults and RM's thread never wait for     *)
(* each other in a circle; a context (uvm8_thread_context.c) knows exactly *)
(* the locks its thread has or waits for; and no release or downgrade of   *)
(* what is deepest is rejected.                                            *)
THEOREM LocksAlwaysExact == LoSpec => [](~loSetup.fails => LocksExact)
<1>1. LoSafe => (~loSetup.fails => LocksExact)
  BY NeverDeadlocked, AlwaysExact, AlwaysAccepted DEF LoSafe, LocksExact
<1> QED
  BY <1>1, LoInvariant, PTL
===============================================================================
