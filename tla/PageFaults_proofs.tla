--------------------------- MODULE PageFaults_proofs ---------------------------
(***************************************************************************)
(* Proofs about the servicing of replayable faults, for any requests, any  *)
(* VA spaces and pages, and a fault buffer of any size.                    *)
(***************************************************************************)
EXTENDS PageFaults, FiniteSetTheorems, NaturalsInduction, WellFoundedInduction, TLAPS

(***************************************************************************)
(* The invariant                                                           *)
(***************************************************************************)
PfStates == {"idle", "stalled", "dropped", "retry", "done", "cancelled", "stopped"}
PfSetup ==
    [policy : Policies, requests : SUBSET Requests, channels : SUBSET Channels, oom : Nat,
     throttles : Nat, reuse : SUBSET {"channel", "range"}]
PfEntry ==
    [req : Requests \union {NoRequest}, channel : {0, 1}, range : {0, 1}, valid : BOOLEAN]
PfPc ==
    {"idle", "loop", "fetch", "preprocess", "service", "flush", "wait", "refetch", "try_cancel",
     "cancel", "cancel_done", "cancel_batch", "end", "end_error"}

PfBufferType ==
    /\ ring \in [Slots -> PfEntry]
    /\ put \in Slots /\ cached_get \in Slots /\ cached_put \in Slots
PfCacheType ==
    /\ \E n \in Nat : fault_cache \in [1..n -> Faults]
    /\ todo \subseteq DOMAIN fault_cache
PfSpaceType ==
    /\ channel \in [Spaces -> {"bound", "stopped", "detached", "released"}]
    /\ channel_gen \in [Spaces -> {0, 1}]
    /\ range_gen \in [Spaces \X Blocks -> {0, 1}]
    /\ gpu_va_space \in [Spaces -> BOOLEAN] /\ needs_fault_buffer_flush \in [Spaces -> BOOLEAN]
    /\ va_space \in Spaces \union {NoSpace}

\* Where the bottom half is decides its mode, and when it has faults left to service and the
\* lock of a VA space.
PfControl ==
    /\ pc \in PfPc /\ mode \in {"REGULAR", "CANCEL"}
    /\ pc \in {"idle", "loop", "wait", "cancel_batch", "end", "end_error"} => mode = "REGULAR"
    /\ pc \in {"cancel", "refetch", "try_cancel", "cancel_done"} => mode = "CANCEL"
    /\ pc = "flush" => \/ flush.ret \in {"idle", "loop", "wait"} /\ mode = "REGULAR"
                       \/ flush.ret \in {"cancel", "refetch"} /\ mode = "CANCEL"
    /\ pc \notin {"preprocess", "service"} => todo = {}
    /\ pc \notin {"service", "flush"} => va_space = NoSpace

\* The driver's pointers against the GPU's.
PfPointers ==
    /\ (cached_put - cached_get) % MaxFaults <= (put - cached_get) % MaxFaults
    /\ \A i \in Slots : ring[i].valid => i \in InBuffer(cached_get, put)

\* An entry between GET and the cached PUT, which a flush under way discards.
Discarded(i) == pc = "flush" /\ i \in InBuffer(cached_get, cached_put)
\* The range an entry or a fault belongs to is gone.
Stale(f) == f.range # range_gen[<<f.req.space, Block(f.req.page)>>]
PfEntries ==
    \A i \in InBuffer(cached_get, put) :
      LET s == ring[i].req.space
      IN  /\ ring[i].req \in Requests /\ ring[i].channel = channel_gen[s]
          /\ channel[s] = "released" => Discarded(i)
          /\ Stale(ring[i]) => ~gpu_va_space[s] \/ needs_fault_buffer_flush[s] \/ Discarded(i)
PfFaults ==
    \A k \in todo :
      LET s == fault_cache[k].req.space
      IN  /\ fault_cache[k].channel = channel_gen[s] /\ channel[s] # "released"
          /\ Stale(fault_cache[k])
               => ~gpu_va_space[s] \/ (needs_fault_buffer_flush[s] /\ va_space # s)

\* A channel is bound once more at most, and a range mapped again once; a stopped channel's
\* requests are over.
PfGenerations ==
    /\ \A s \in Spaces :
         /\ channel[s] # "bound" => channel_gen[s] = 0
         /\ channel_gen[s] = 1 => "channel" \notin setup.reuse
    /\ \A r \in Requests : channel[r.space] # "bound" => ~Live(r)
    /\ \A s \in Spaces, b \in Blocks : range_gen[<<s, b>>] = 1 => "range" \notin setup.reuse

\* num_pending_faults counts what is left of the batch, and what was left of earlier ones.
PfPending ==
    /\ num_pending_faults \in [Utlbs -> Nat]
    /\ \A u \in Utlbs :
         num_pending_faults[u] >= Cardinality({k \in todo : fault_cache[k].req.utlb = u})

PfInv ==
    /\ setup \in PfSetup /\ request \in [Requests -> PfStates]
    /\ PfBufferType /\ PfCacheType /\ PfSpaceType /\ PfControl /\ PfPointers
    /\ PfEntries /\ PfFaults /\ PfGenerations /\ PfPending

(***************************************************************************)
(* The ring                                                                *)
(***************************************************************************)
LEMMA PfBounds ==
    /\ MaxFaults \in Nat /\ MaxFaults > 1 /\ BatchCount \in 1..MaxFaults
    /\ Slots = 0..(MaxFaults - 1)
    /\ \A r \in Requests :
         /\ r.utlb \in Utlbs /\ r.utlb \in Nat /\ r.space \in Spaces /\ r.space \in Nat
         /\ r.page \in Pages /\ r.page \in Nat /\ Block(r.page) \in Blocks
         /\ r.access \in Accesses /\ r.type \in {"pte", "fatal"}
    /\ NoSpace \notin Spaces
BY PageFaultsAssumption DEF Slots, Utlbs, Spaces, Blocks, NoSpace

LEMMA PfDistance ==
    ASSUME NEW a \in Slots, NEW b \in Slots
    PROVE  (a - b) % MaxFaults = IF a >= b THEN a - b ELSE a - b + MaxFaults
<1>1. \A M \in Nat : M > 1 =>
        \A x, y \in 0..M-1 : (x - y) % M = IF x >= y THEN x - y ELSE x - y + M
  OBVIOUS
<1> QED
  BY <1>1, PfBounds

LEMMA PfAdvance ==
    ASSUME NEW a \in Slots, NEW n \in 0..MaxFaults
    PROVE  /\ (a + n) % MaxFaults = IF a + n < MaxFaults THEN a + n ELSE a + n - MaxFaults
           /\ (a + n) % MaxFaults \in Slots
<1>1. \A M \in Nat : M > 1 => \A x \in 0..M-1, y \in 0..M :
        (x + y) % M = IF x + y < M THEN x + y ELSE x + y - M
  OBVIOUS
<1>2. (a + n) % MaxFaults = IF a + n < MaxFaults THEN a + n ELSE a + n - MaxFaults
  BY <1>1, PfBounds
<1> QED
  BY <1>2, PfBounds

\* Places on the ring, without remainders.
LEMMA PfPlace ==
    ASSUME NEW get \in Slots, NEW limit \in Slots, NEW i \in Slots
    PROVE  /\ i \in InBuffer(get, limit) <=>
                IF get <= limit THEN get <= i /\ i < limit ELSE get <= i \/ i < limit
           /\ (i - get) % MaxFaults <= (limit - get) % MaxFaults <=>
                IF get <= limit THEN get <= i /\ i <= limit ELSE get <= i \/ i <= limit
<1>1. /\ (i - get) % MaxFaults = IF i >= get THEN i - get ELSE i - get + MaxFaults
      /\ (limit - get) % MaxFaults =
           IF limit >= get THEN limit - get ELSE limit - get + MaxFaults
  BY PfDistance
<1> QED
  BY <1>1, PfBounds DEF InBuffer

\* The GPU writes an entry.
LEMMA PfWritten ==
    ASSUME PfBufferType, PfPointers, NextSlot(put) # cached_get
    PROVE  /\ NextSlot(put) \in Slots
           /\ \A i \in Slots : /\ i \in InBuffer(cached_get, NextSlot(put))
                                    <=> i \in InBuffer(cached_get, put) \/ i = put
           /\ put \notin InBuffer(cached_get, cached_put)
           /\ (cached_put - cached_get) % MaxFaults <= (NextSlot(put) - cached_get) % MaxFaults
<1> DEFINE next == NextSlot(put)
<1>1. put \in Slots /\ cached_get \in Slots /\ cached_put \in Slots
  BY DEF PfBufferType
<1>2. next \in Slots /\ next = IF put + 1 < MaxFaults THEN put + 1 ELSE 0
  <2>1. 1 \in 0..MaxFaults
    BY PfBounds
  <2>2. (put + 1) % MaxFaults = (IF put + 1 < MaxFaults THEN put + 1 ELSE put + 1 - MaxFaults)
    BY <1>1, <2>1, PfAdvance
  <2> QED
    BY <1>1, <2>2, PfBounds DEF NextSlot
<1> HIDE DEF next
<1>3. next # cached_get
  BY DEF next
<1>4. IF cached_get <= put THEN cached_get <= cached_put /\ cached_put <= put
      ELSE cached_get <= cached_put \/ cached_put <= put
  BY <1>1, PfPlace DEF PfPointers
<1>5. ASSUME NEW i \in Slots
      PROVE  i \in InBuffer(cached_get, next) <=> i \in InBuffer(cached_get, put) \/ i = put
  <2>1. i \in InBuffer(cached_get, put) <=>
          IF cached_get <= put THEN cached_get <= i /\ i < put
          ELSE cached_get <= i \/ i < put
    BY <1>1, PfPlace
  <2>2. i \in InBuffer(cached_get, next) <=>
          IF cached_get <= next THEN cached_get <= i /\ i < next
          ELSE cached_get <= i \/ i < next
    BY <1>1, <1>2, PfPlace
  <2> QED
    BY <1>1, <1>2, <1>3, <2>1, <2>2, PfBounds
<1>6. put \notin InBuffer(cached_get, cached_put)
  <2>1. put \in InBuffer(cached_get, cached_put) <=>
          IF cached_get <= cached_put THEN cached_get <= put /\ put < cached_put
          ELSE cached_get <= put \/ put < cached_put
    BY <1>1, PfPlace
  <2> QED
    BY <1>1, <1>4, <2>1, PfBounds
<1>7. (cached_put - cached_get) % MaxFaults <= (next - cached_get) % MaxFaults
  <2>1. (cached_put - cached_get) % MaxFaults <= (next - cached_get) % MaxFaults <=>
          IF cached_get <= next THEN cached_get <= cached_put /\ cached_put <= next
          ELSE cached_get <= cached_put \/ cached_put <= next
    BY <1>1, <1>2, PfPlace
  <2> QED
    BY <1>1, <1>2, <1>3, <1>4, <2>1, PfBounds
<1> QED
  BY <1>2, <1>5, <1>6, <1>7 DEF next

\* GET moves on, not beyond the cached PUT.
LEMMA PfMoved ==
    ASSUME PfBufferType, PfPointers, NEW get \in Slots,
           (get - cached_get) % MaxFaults <= (cached_put - cached_get) % MaxFaults
    PROVE  /\ (cached_put - get) % MaxFaults <= (put - get) % MaxFaults
           /\ \A i \in Slots : i \in InBuffer(get, put)
                                 <=> i \in InBuffer(cached_get, put) \ InBuffer(cached_get, get)
           /\ InBuffer(cached_get, get) \subseteq InBuffer(cached_get, cached_put)
<1>1. put \in Slots /\ cached_get \in Slots /\ cached_put \in Slots
  BY DEF PfBufferType
<1>2. IF cached_get <= put THEN cached_get <= cached_put /\ cached_put <= put
      ELSE cached_get <= cached_put \/ cached_put <= put
  BY <1>1, PfPlace DEF PfPointers
<1>3. IF cached_get <= cached_put THEN cached_get <= get /\ get <= cached_put
      ELSE cached_get <= get \/ get <= cached_put
  BY <1>1, PfPlace
<1>4. (cached_put - get) % MaxFaults <= (put - get) % MaxFaults
  <2>1. (cached_put - get) % MaxFaults <= (put - get) % MaxFaults <=>
          IF get <= put THEN get <= cached_put /\ cached_put <= put
          ELSE get <= cached_put \/ cached_put <= put
    BY <1>1, PfPlace
  <2> QED
    BY <1>1, <1>2, <1>3, <2>1, PfBounds
<1>5. ASSUME NEW i \in Slots
      PROVE  /\ i \in InBuffer(get, put)
                  <=> i \in InBuffer(cached_get, put) /\ i \notin InBuffer(cached_get, get)
             /\ i \in InBuffer(cached_get, get) => i \in InBuffer(cached_get, cached_put)
  <2>1. /\ i \in InBuffer(get, put) <=>
             IF get <= put THEN get <= i /\ i < put ELSE get <= i \/ i < put
        /\ i \in InBuffer(cached_get, put) <=>
             IF cached_get <= put THEN cached_get <= i /\ i < put
             ELSE cached_get <= i \/ i < put
        /\ i \in InBuffer(cached_get, get) <=>
             IF cached_get <= get THEN cached_get <= i /\ i < get
             ELSE cached_get <= i \/ i < get
        /\ i \in InBuffer(cached_get, cached_put) <=>
             IF cached_get <= cached_put THEN cached_get <= i /\ i < cached_put
             ELSE cached_get <= i \/ i < cached_put
    BY <1>1, PfPlace
  <2> QED
    BY <1>1, <1>2, <1>3, <2>1, PfBounds
<1> QED
  BY <1>4, <1>5 DEF InBuffer

\* The n entries from GET.
LEMMA PfFetched ==
    ASSUME PfBufferType, PfPointers, NEW n \in 0..Available
    PROVE  LET get == (cached_get + n) % MaxFaults
           IN  /\ get \in Slots
               /\ (get - cached_get) % MaxFaults <= (cached_put - cached_get) % MaxFaults
               /\ \A k \in 1..n : Slot(k) \in InBuffer(cached_get, get)
               /\ \A i \in InBuffer(cached_get, get) : \E k \in 1..n : i = Slot(k)
               /\ n + 1 \in 1..Available => Slot(n + 1) \in Slots
<1> DEFINE get == (cached_get + n) % MaxFaults
<1>1. put \in Slots /\ cached_get \in Slots /\ cached_put \in Slots
  BY DEF PfBufferType
<1>2. Available = IF cached_put >= cached_get THEN cached_put - cached_get
                  ELSE cached_put - cached_get + MaxFaults
  BY <1>1, PfDistance DEF Available
<1>3. n \in 0..(MaxFaults - 1) /\ Available \in 0..(MaxFaults - 1)
  BY <1>1, <1>2, PfBounds
<1>4. /\ get \in Slots
      /\ get = IF cached_get + n < MaxFaults THEN cached_get + n ELSE cached_get + n - MaxFaults
  BY <1>1, <1>3, PfAdvance, PfBounds
<1> HIDE DEF get
<1>5. (get - cached_get) % MaxFaults <= (cached_put - cached_get) % MaxFaults
  <2>1. (get - cached_get) % MaxFaults <= (cached_put - cached_get) % MaxFaults <=>
          IF cached_get <= cached_put THEN cached_get <= get /\ get <= cached_put
          ELSE cached_get <= get \/ get <= cached_put
    BY <1>1, <1>4, PfPlace
  <2> QED
    BY <1>1, <1>2, <1>3, <1>4, <2>1, PfBounds
<1>6. ASSUME NEW k \in 1..(n + 1)
      PROVE  /\ Slot(k) \in Slots
             /\ Slot(k) = IF cached_get + (k - 1) < MaxFaults THEN cached_get + (k - 1)
                          ELSE cached_get + (k - 1) - MaxFaults
  <2>1. k - 1 \in 0..MaxFaults /\ cached_get + k - 1 = cached_get + (k - 1)
    BY <1>1, <1>3, PfBounds
  <2> QED
    BY <1>1, <2>1, PfAdvance DEF Slot
<1>7. ASSUME NEW k \in 1..n
      PROVE  Slot(k) \in InBuffer(cached_get, get)
  <2>1. PICK i \in Slots :
          /\ i = Slot(k)
          /\ i = IF cached_get + (k - 1) < MaxFaults THEN cached_get + (k - 1)
                 ELSE cached_get + (k - 1) - MaxFaults
    BY <1>3, <1>6
  <2>2. i \in InBuffer(cached_get, get) <=>
          IF cached_get <= get THEN cached_get <= i /\ i < get
          ELSE cached_get <= i \/ i < get
    BY <1>1, <1>4, PfPlace
  <2>3. i \in InBuffer(cached_get, get)
    BY <1>1, <1>3, <1>4, <2>1, <2>2, PfBounds
  <2> QED
    BY <2>1, <2>3
<1>8. ASSUME NEW i \in InBuffer(cached_get, get)
      PROVE  \E k \in 1..n : i = Slot(k)
  <2>0. i \in Slots
    BY DEF InBuffer
  <2>1. IF cached_get <= get THEN cached_get <= i /\ i < get ELSE cached_get <= i \/ i < get
    BY <1>1, <1>4, <2>0, PfPlace
  <2> DEFINE k == IF i >= cached_get THEN i - cached_get + 1 ELSE i - cached_get + MaxFaults + 1
  <2>2. k \in 1..n
    BY <1>1, <1>3, <1>4, <2>0, <2>1, PfBounds
  <2>3. i = IF cached_get + (k - 1) < MaxFaults THEN cached_get + (k - 1)
            ELSE cached_get + (k - 1) - MaxFaults
    BY <1>1, <1>3, <1>4, <2>0, <2>1, PfBounds
  <2> HIDE DEF k
  <2>4. k \in 1..(n + 1)
    BY <1>3, <2>2
  <2> QED
    BY <1>6, <2>2, <2>3, <2>4
<1>9. n + 1 \in 1..Available => Slot(n + 1) \in Slots
  BY <1>3, <1>6
<1> QED
  BY <1>4, <1>5, <1>7, <1>8, <1>9 DEF get

(***************************************************************************)
(* Choices of the bottom half                                              *)
(***************************************************************************)
LEMMA PfLeast ==
    ASSUME NEW S, S # {}, NEW f, \A x \in S : f[x] \in Nat
    PROVE  \E x \in S : \A y \in S : f[x] <= f[y]
<1> DEFINE R == {ij \in Nat \X Nat : ij[1] < ij[2]}
           T == {f[x] : x \in S}
<1>1. IsWellFoundedOn(R, Nat)
  BY NatLessThanWellFounded DEF OpToRel
<1>2. T \subseteq Nat /\ T # {}
  OBVIOUS
<1> HIDE DEF R, T
<1>3. PICK i \in T : \A j \in T : ~(<<j, i>> \in R)
  BY <1>1, <1>2, WFMin
<1>4. \A j \in T : i <= j
  <2> SUFFICES ASSUME NEW j \in T, ~(i <= j)
               PROVE  FALSE
    OBVIOUS
  <2>1. i \in Nat /\ j \in Nat /\ j < i
    BY <1>2
  <2>2. <<j, i>> \in R
    BY <2>1 DEF R
  <2> QED
    BY <1>3, <2>2
<1>5. PICK x \in S : i = f[x]
  BY DEF T
<1>6. \A y \in S : f[y] \in T
  BY DEF T
<1> QED
  BY <1>4, <1>5, <1>6

\* The order of service_fault_batch has a first fault.
LEMMA PfFirst ==
    ASSUME PfCacheType, todo # {}
    PROVE  First(todo) \in todo
<1> DEFINE r(k) == fault_cache[k].req
<1>1. \A k \in todo : r(k) \in Requests /\ k \in Nat
  BY DEF PfCacheType, Faults
<1>2. \A k \in todo : /\ r(k).space \in Nat /\ r(k).page \in Nat
                      /\ Intrusiveness(r(k).access) \in 0..3
  BY <1>1, PfBounds DEF Intrusiveness, Level, Accesses
<1> HIDE DEF r
<1>3. PICK a \in todo : \A k \in todo : r(a).space <= r(k).space
  <2> DEFINE f == [k \in todo |-> r(k).space]
  <2>1. \A k \in todo : f[k] \in Nat
    BY <1>2
  <2>2. \E x \in todo : \A y \in todo : f[x] <= f[y]
    <3> HIDE DEF f
    <3> QED
      BY <2>1, PfLeast
  <2> QED
    BY <2>2
<1> DEFINE A == {k \in todo : r(k).space = r(a).space}
<1>4. PICK b \in A : \A k \in A : r(b).page <= r(k).page
  <2> DEFINE f == [k \in A |-> r(k).page]
  <2>1. (\A k \in A : f[k] \in Nat) /\ A # {}
    BY <1>2
  <2>2. \E x \in A : \A y \in A : f[x] <= f[y]
    <3> HIDE DEF f, A
    <3> QED
      BY <2>1, PfLeast
  <2> QED
    BY <2>2
<1> DEFINE B == {k \in A : r(k).page = r(b).page}
<1>5. PICK c \in B : \A k \in B : Intrusiveness(r(c).access) >= Intrusiveness(r(k).access)
  <2> DEFINE f == [k \in B |-> 3 - Intrusiveness(r(k).access)]
  <2>1. (\A k \in B : f[k] \in Nat) /\ B # {}
    BY <1>2
  <2>2. \E x \in B : \A y \in B : f[x] <= f[y]
    <3> HIDE DEF f, B
    <3> QED
      BY <2>1, PfLeast
  <2>3. PICK x \in B : \A y \in B : f[x] <= f[y]
    BY <2>2
  <2>4. \A y \in B : Intrusiveness(r(x).access) >= Intrusiveness(r(y).access)
    BY <1>2, <2>3
  <2> QED
    BY <2>4
<1> DEFINE C == {k \in B : Intrusiveness(r(k).access) = Intrusiveness(r(c).access)}
<1>6. PICK d \in C : \A k \in C : d <= k
  <2> DEFINE f == [k \in C |-> k]
  <2>1. (\A k \in C : f[k] \in Nat) /\ C # {}
    BY <1>1
  <2>2. \E x \in C : \A y \in C : f[x] <= f[y]
    <3> HIDE DEF f, C
    <3> QED
      BY <2>1, PfLeast
  <2> QED
    BY <2>2
<1>7. ASSUME NEW j \in todo \ {d}
      PROVE  Before(d, j)
  <2>1. \/ r(d).space < r(j).space
        \/ r(d).space = r(j).space /\ r(d).page < r(j).page
        \/ r(d).space = r(j).space /\ r(d).page = r(j).page
             /\ Intrusiveness(r(d).access) > Intrusiveness(r(j).access)
        \/ r(d).space = r(j).space /\ r(d).page = r(j).page
             /\ Intrusiveness(r(d).access) = Intrusiveness(r(j).access) /\ d < j
    <3>1. r(d).space = r(a).space /\ r(d).page = r(b).page /\ d \in todo
          /\ Intrusiveness(r(d).access) = Intrusiveness(r(c).access)
      OBVIOUS
    <3>2. CASE j \notin A
      BY <1>2, <1>3, <3>1, <3>2
    <3>3. CASE j \in A /\ j \notin B
      BY <1>2, <1>4, <3>1, <3>3
    <3>4. CASE j \in B /\ j \notin C
      BY <1>2, <1>5, <3>1, <3>4
    <3>5. CASE j \in C
      BY <1>1, <1>6, <3>1, <3>5
    <3> QED
      BY <3>2, <3>3, <3>4, <3>5
  <2> QED
    BY <2>1 DEF Before, r
<1>8. d \in todo
  OBVIOUS
<1> QED
  BY <1>7, <1>8 DEF First

\* What is fetched lies before the cached PUT.
LEMMA PfCount ==
    ASSUME PfBufferType
    PROVE  FetchCount \in 0..Available
<1>1. Available \in Nat
  <2>1. cached_put \in Slots /\ cached_get \in Slots
    BY DEF PfBufferType
  <2> QED
    BY <2>1, PfDistance, PfBounds DEF Available
<1>2. BatchCount \in Nat
  BY PfBounds
<1> DEFINE S == {n \in 0..Available : Ready(n) /\ n <= BatchCount}
<1>3. 0 \in S
  BY <1>1, <1>2 DEF Ready
<1>4. PICK n \in S : \A m \in S : m <= n
  <2> DEFINE f == [k \in S |-> Available - k]
  <2>1. (\A k \in S : f[k] \in Nat) /\ S # {}
    BY <1>1, <1>3
  <2>2. \E x \in S : \A y \in S : f[x] <= f[y]
    <3> HIDE DEF f, S
    <3> QED
      BY <2>1, PfLeast
  <2>3. PICK x \in S : \A y \in S : f[x] <= f[y]
    BY <2>2
  <2>4. \A y \in S : y <= x
    BY <1>1, <2>3
  <2> QED
    BY <2>4
<1>5. n = Available \/ n = BatchCount \/ ~ring[Slot(n + 1)].valid
  <2> SUFFICES ASSUME n # Available, n # BatchCount, ring[Slot(n + 1)].valid
               PROVE  FALSE
    OBVIOUS
  <2>1. n + 1 \in 0..Available /\ n + 1 <= BatchCount /\ n \in Nat
    BY <1>1, <1>2
  <2>2. Ready(n + 1)
    <3>1. \A k \in 1..(n + 1) : k \in 1..n \/ k = n + 1
      BY <2>1
    <3> QED
      BY <3>1 DEF Ready
  <2> QED
    BY <1>4, <2>1, <2>2
<1>6. \E m \in 0..Available : /\ Ready(m) /\ m <= BatchCount
                              /\ m = Available \/ m = BatchCount \/ ~ring[Slot(m + 1)].valid
  BY <1>5
<1> QED
  BY <1>1, <1>6 DEF FetchCount

\* The faults K are dealt with.
LEMMA PfHandled ==
    ASSUME PfCacheType, PfPending, NEW K \in SUBSET todo, Handled(K)
    PROVE  /\ num_pending_faults' \in [Utlbs -> Nat]
           /\ \A u \in Utlbs : num_pending_faults'[u]
                                 >= Cardinality({k \in todo \ K : fault_cache[k].req.utlb = u})
<1>1. PICK n \in Nat : todo \subseteq 1..n
  BY DEF PfCacheType
<1>2. IsFiniteSet(todo)
  <2>1. 1 \in Int /\ n \in Int
    OBVIOUS
  <2>2. IsFiniteSet(1..n)
    BY <2>1, FS_Interval
  <2> QED
    BY <1>1, <2>2, FS_Subset
<1>3. ASSUME NEW u \in Utlbs
      PROVE  /\ num_pending_faults'[u] \in Nat
             /\ num_pending_faults'[u]
                  >= Cardinality({k \in todo \ K : fault_cache[k].req.utlb = u})
  <2> DEFINE all == {k \in todo : fault_cache[k].req.utlb = u}
             done == {k \in K : fault_cache[k].req.utlb = u}
             left == {k \in todo \ K : fault_cache[k].req.utlb = u}
  <2>1. left = all \ done /\ done \subseteq all /\ all \subseteq todo
    OBVIOUS
  <2>2. num_pending_faults'[u] = num_pending_faults[u] - Cardinality(done)
    BY DEF Handled
  <2>3. num_pending_faults[u] \in Nat /\ num_pending_faults[u] >= Cardinality(all)
    BY DEF PfPending
  <2> HIDE DEF all, done, left
  <2>4. IsFiniteSet(all) /\ IsFiniteSet(done)
    BY <1>2, <2>1, FS_Subset
  <2>5. Cardinality(left) = Cardinality(all) - Cardinality(done)
    <3>1. all \cap done = done
      BY <2>1
    <3>2. Cardinality(all \ done) = Cardinality(all) - Cardinality(all \cap done)
      BY <2>4, FS_Difference
    <3> QED
      BY <2>1, <3>1, <3>2
  <2>6. Cardinality(left) \in Nat /\ Cardinality(all) \in Nat /\ Cardinality(done) \in Nat
    BY <2>1, <2>4, FS_CardinalityType, FS_Difference
  <2>7. num_pending_faults'[u] \in Nat /\ num_pending_faults'[u] >= Cardinality(left)
    BY <2>2, <2>3, <2>5, <2>6
  <2> QED
    BY <2>7 DEF left
<1> QED
  BY <1>3 DEF Handled

(***************************************************************************)
(* Steps                                                                   *)
(***************************************************************************)
LEMMA PfInitInv == PfInit => PfInv
<1> SUFFICES ASSUME PfInit
             PROVE  PfInv
  OBVIOUS
<1>0. MaxFaults \in Nat /\ MaxFaults > 1 /\ 0 \in Slots
  BY PfBounds
<1>1. setup \in PfSetup
  BY PageFaultsAssumption DEF PfInit, PfSetup
<1>2. request \in [Requests -> PfStates] /\ \A r \in Requests : request[r] = "idle"
  BY DEF PfInit, PfStates
<1>3. ring = [i \in Slots |-> Empty] /\ put = 0 /\ cached_get = 0 /\ cached_put = 0
  BY DEF PfInit
<1>4. /\ channel = [s \in Spaces |-> "bound"] /\ channel_gen = [s \in Spaces |-> 0]
      /\ range_gen = [x \in Spaces \X Blocks |-> 0] /\ gpu_va_space = [s \in Spaces |-> TRUE]
      /\ needs_fault_buffer_flush = [s \in Spaces |-> FALSE] /\ va_space = NoSpace
  BY DEF PfInit
<1>5. fault_cache = <<>> /\ todo = {} /\ pc = "idle" /\ mode = "REGULAR"
      /\ num_pending_faults = [u \in Utlbs |-> 0]
  BY DEF PfInit
<1>6. PfBufferType
  <2>1. Empty \in PfEntry /\ Empty.valid = FALSE
    BY DEF Empty, PfEntry
  <2> QED
    BY <1>0, <1>3, <2>1 DEF PfBufferType
<1>7. InBuffer(0, 0) = {}
  <2>1. \A i \in Slots : i \notin InBuffer(0, 0)
    BY <1>0, PfPlace, PfBounds
  <2> QED
    BY <2>1 DEF InBuffer
<1>8. PfPointers
  <2>1. \A i \in Slots : ~ring[i].valid
    BY <1>3 DEF Empty
  <2>2. (0 - 0) % MaxFaults <= (0 - 0) % MaxFaults
    BY <1>0, PfPlace
  <2> QED
    BY <1>3, <2>1, <2>2 DEF PfPointers
<1>9. PfEntries
  BY <1>3, <1>7 DEF PfEntries
<1>10. PfCacheType /\ PfFaults
  <2>1. fault_cache \in [1..0 -> Faults]
    BY <1>5
  <2> QED
    BY <1>5, <2>1 DEF PfCacheType, PfFaults
<1>11. PfSpaceType
  BY <1>4 DEF PfSpaceType
<1>12. PfControl
  BY <1>4, <1>5 DEF PfControl, PfPc
<1>13. PfGenerations
  <2>0. \A x \in Spaces \X Blocks : range_gen[x] = 0
    BY <1>4
  <2>1. \A s \in Spaces, b \in Blocks : range_gen[<<s, b>>] # 1
    BY <2>0
  <2>2. \A s \in Spaces : channel[s] = "bound" /\ channel_gen[s] # 1
    BY <1>4
  <2>3. \A r \in Requests : channel[r.space] = "bound"
    BY <2>2, PfBounds
  <2> QED
    BY <2>1, <2>2, <2>3 DEF PfGenerations
<1>14. PfPending
  <2>1. \A u \in Utlbs : {k \in todo : fault_cache[k].req.utlb = u} = {}
    BY <1>5
  <2>2. \A u \in Utlbs : Cardinality({k \in todo : fault_cache[k].req.utlb = u}) = 0
    BY <2>1, FS_EmptySet
  <2> QED
    BY <1>5, <2>2 DEF PfPending
<1> QED
  BY <1>1, <1>2, <1>6, <1>8, <1>9, <1>10, <1>11, <1>12, <1>13, <1>14 DEF PfInv

\* What the bottom half may do without losing sight of an entry.
LEMMA PfKept ==
    ASSUME PfInv,
           UNCHANGED <<ring, put, cached_get, channel, channel_gen, range_gen, gpu_va_space,
                       needs_fault_buffer_flush>>,
           setup' \in PfSetup, setup'.reuse = setup.reuse,
           request' \in [Requests -> PfStates], \A r \in Requests : Live(r)' => Live(r),
           cached_put' \in {cached_put, put},
           pc = "flush" => pc' = "flush" /\ cached_put' = cached_put,
           PfCacheType', PfControl', PfPending', va_space' \in Spaces \union {NoSpace},
           va_space' \in {va_space, NoSpace} \/ ~gpu_va_space[va_space']
             \/ ~needs_fault_buffer_flush[va_space'],
           todo' \subseteq todo,
           \A k \in todo' : /\ fault_cache'[k].req = fault_cache[k].req
                            /\ fault_cache'[k].channel = fault_cache[k].channel
                            /\ fault_cache'[k].range = fault_cache[k].range
    PROVE  PfInv'
<1>1. PfBufferType' /\ PfSpaceType'
  BY DEF PfInv, PfBufferType, PfSpaceType
<1>2. PfPointers'
  <2>1. cached_put \in Slots /\ put \in Slots /\ cached_get \in Slots
    BY DEF PfInv, PfBufferType
  <2>2. (put - cached_get) % MaxFaults <= (put - cached_get) % MaxFaults
    BY <2>1, PfDistance, PfBounds
  <2> QED
    BY <2>2 DEF PfInv, PfPointers, InBuffer
<1>3. PfEntries'
  <2>1. \A i : Discarded(i) => Discarded(i)'
    BY DEF Discarded, InBuffer
  <2>2. InBuffer(cached_get, put)' = InBuffer(cached_get, put)
    BY DEF InBuffer
  <2> QED
    BY <2>1, <2>2 DEF PfInv, PfEntries, Stale
<1>4. PfFaults'
  <2>1. PfFaults /\ PfSpaceType
    BY DEF PfInv
  <2>2. ASSUME NEW k \in todo', NEW f, f = fault_cache[k], NEW g, g = fault_cache'[k],
               NEW s, s = f.req.space
        PROVE  /\ g.req.space = s /\ g.channel = channel_gen[s] /\ channel[s] # "released"
               /\ g.range # range_gen[<<s, Block(g.req.page)>>]
                    => ~gpu_va_space[s] \/ (needs_fault_buffer_flush[s] /\ va_space' # s)
    <3>1. k \in todo /\ g.req = f.req /\ g.channel = f.channel /\ g.range = f.range
      BY <2>2
    <3>2. f.req \in Requests
      BY <2>2, <3>1 DEF PfInv, PfCacheType, Faults
    <3>3. s # NoSpace
      BY <2>2, <3>2, PfBounds
    <3>4. /\ f.channel = channel_gen[s] /\ channel[s] # "released"
          /\ f.range # range_gen[<<s, Block(f.req.page)>>]
               => ~gpu_va_space[s] \/ (needs_fault_buffer_flush[s] /\ va_space # s)
      BY <2>1, <2>2, <3>1 DEF PfFaults, Stale
    <3> QED
      BY <2>2, <3>1, <3>3, <3>4
  <2>3. ASSUME NEW k \in todo'
        PROVE  LET s == fault_cache'[k].req.space
               IN  /\ fault_cache'[k].channel = channel_gen'[s] /\ channel'[s] # "released"
                   /\ fault_cache'[k].range # range_gen'[<<s, Block(fault_cache'[k].req.page)>>]
                        => ~gpu_va_space'[s] \/ (needs_fault_buffer_flush'[s] /\ va_space' # s)
    BY <2>2
  <2> QED
    BY <2>3 DEF PfFaults, Stale
<1>5. PfGenerations'
  BY DEF PfInv, PfGenerations
<1> QED
  BY <1>1, <1>2, <1>3, <1>4, <1>5 DEF PfInv

\* What is left of the batch is counted when nothing is dealt with, or nothing is left.
LEMMA PfPendingKept ==
    ASSUME PfInv, UNCHANGED num_pending_faults, PfCacheType', todo' \subseteq todo,
           \A k \in todo' : fault_cache'[k].req = fault_cache[k].req
    PROVE  PfPending'
<1>1. PICK n \in Nat : todo \subseteq 1..n
  BY DEF PfInv, PfCacheType
<1>2. IsFiniteSet(todo)
  <2>1. 1 \in Int /\ n \in Int
    OBVIOUS
  <2>2. IsFiniteSet(1..n)
    BY <2>1, FS_Interval
  <2> QED
    BY <1>1, <2>2, FS_Subset
<1>3. ASSUME NEW u \in Utlbs
      PROVE  num_pending_faults[u] >= Cardinality({k \in todo' : fault_cache'[k].req.utlb = u})
  <2> DEFINE all == {k \in todo : fault_cache[k].req.utlb = u}
             left == {k \in todo' : fault_cache'[k].req.utlb = u}
  <2>1. left \subseteq all /\ all \subseteq todo
    OBVIOUS
  <2>2. num_pending_faults[u] \in Nat /\ num_pending_faults[u] >= Cardinality(all)
    BY DEF PfInv, PfPending
  <2> HIDE DEF all, left
  <2>3. IsFiniteSet(all) /\ IsFiniteSet(left)
    BY <1>2, <2>1, FS_Subset
  <2>4. Cardinality(left) <= Cardinality(all)
    BY <2>1, <2>3, FS_Subset
  <2>5. Cardinality(left) \in Nat /\ Cardinality(all) \in Nat
    BY <2>3, FS_CardinalityType
  <2>6. num_pending_faults[u] >= Cardinality(left)
    BY <2>2, <2>4, <2>5
  <2> QED
    BY <2>6 DEF left
<1> QED
  BY <1>3 DEF PfInv, PfPending

LEMMA PfUntouched ==
    ASSUME PfInv,
           UNCHANGED <<fault_cache, num_pending_faults, pc, mode, todo, va_space, flush,
                       channel, channel_gen, range_gen, gpu_va_space,
                       needs_fault_buffer_flush>>
    PROVE  PfCacheType' /\ PfSpaceType' /\ PfControl' /\ PfPending' /\ PfFaults'
BY DEF PfInv, PfCacheType, PfSpaceType, PfControl, PfPending, PfFaults, Stale

\* Steps of the GPU that write no entry.
LEMMA PfGpuQuiet ==
    ASSUME PfInv,
           \/ \E c \in Channels : Replay(c) \/ Acknowledge(c)
           \/ \E s \in Spaces : ResetChannel(s)
    PROVE  PfInv'
<1>1. /\ UNCHANGED <<setup, ring, put, cached_get, cached_put, fault_cache, num_pending_faults,
                     pc, mode, todo, va_space, flush>>
      /\ UNCHANGED <<channel, channel_gen, range_gen, gpu_va_space, needs_fault_buffer_flush>>
  BY DEF Replay, Acknowledge, ResetChannel, cache_vars, utlb_vars, bh_vars, space_vars
<1>2. request \in [Requests -> PfStates]
  BY DEF PfInv
<1>3. request' \in [Requests -> PfStates] /\ \A r \in Requests : Live(r)' => Live(r)
  <2>1. ASSUME NEW c \in Channels, Replay(c)
        PROVE  <1>3!:
    <3>1. request' = [r \in Requests |-> IF Waiting(r) THEN "retry" ELSE request[r]]
      BY <2>1 DEF Replay
    <3> QED
      BY <1>2, <3>1 DEF PfStates, Live, Waiting
  <2>2. ASSUME NEW c \in Channels, Acknowledge(c)
        PROVE  <1>3!:
    BY <1>2, <2>2 DEF Acknowledge, Live, Waiting
  <2>3. ASSUME NEW s \in Spaces, ResetChannel(s)
        PROVE  <1>3!:
    <3>1. request' =
            [r \in Requests |-> IF r.space = s /\ Live(r) THEN "stopped" ELSE request[r]]
      BY <2>3 DEF ResetChannel
    <3> QED
      BY <1>2, <3>1 DEF PfStates, Live, Waiting
  <2> QED
    BY <2>1, <2>2, <2>3
<1>4. PfCacheType' /\ PfControl' /\ PfPending'
  BY <1>1, PfUntouched
<1>5. setup \in PfSetup /\ va_space \in Spaces \union {NoSpace}
  BY DEF PfInv, PfSpaceType
<1> QED
  BY <1>1, <1>3, <1>4, <1>5, PfKept

\* A request faults, or succeeds.
LEMMA PfAccess ==
    ASSUME PfInv, NEW r \in Requests, Access(r), channel[r.space] = "bound"
    PROVE  PfInv'
<1>1. /\ UNCHANGED <<setup, cached_get, cached_put, fault_cache, num_pending_faults, pc, mode,
                     todo, va_space, flush>>
      /\ UNCHANGED <<channel, channel_gen, range_gen, gpu_va_space, needs_fault_buffer_flush>>
  BY DEF Access, cache_vars, utlb_vars, bh_vars, space_vars
<1>2. /\ PfCacheType' /\ PfSpaceType' /\ PfControl' /\ PfPending' /\ PfFaults'
      /\ setup' \in PfSetup
  BY <1>1, PfUntouched DEF PfInv
<1>3. /\ PfBufferType /\ PfPointers /\ PfEntries /\ PfGenerations /\ PfSpaceType
      /\ request \in [Requests -> PfStates]
  BY DEF PfInv
<1>4. PICK x \in PfStates : request' = [request EXCEPT ![r] = x]
  <2>1. CASE Authorized(r)
    BY <2>1 DEF Access, PfStates
  <2>2. CASE ~Authorized(r)
    BY <2>2 DEF Access, Fault, PfStates
  <2> QED
    BY <2>1, <2>2
<1>5. request' \in [Requests -> PfStates] /\ PfGenerations'
  <2>1. \A q \in Requests : q = r \/ request'[q] = request[q]
    BY <1>3, <1>4
  <2>2. \A q \in Requests : channel[q.space] # "bound" => ~Live(q)'
    BY <1>3, <2>1 DEF PfGenerations, Live, Waiting
  <2> QED
    BY <1>1, <1>3, <1>4, <2>2 DEF PfGenerations
<1>6. CASE UNCHANGED <<ring, put>>
  <2>1. PfBufferType' /\ PfPointers'
    BY <1>1, <1>3, <1>6 DEF PfBufferType, PfPointers, InBuffer
  <2>2. PfEntries'
    BY <1>1, <1>3, <1>6 DEF PfEntries, Stale, Discarded, InBuffer
  <2> QED
    BY <1>2, <1>5, <2>1, <2>2 DEF PfInv
<1>7. CASE ~UNCHANGED <<ring, put>>
  <2> DEFINE e == [req |-> r, channel |-> channel_gen[r.space],
                   range |-> range_gen[<<r.space, Block(r.page)>>], valid |-> FALSE]
  <2>1. NextSlot(put) # cached_get /\ ring' = [ring EXCEPT ![put] = e] /\ put' = NextSlot(put)
    BY <1>7 DEF Access, Fault
  <2>2. e \in PfEntry
    <3>1. r.space \in Spaces /\ <<r.space, Block(r.page)>> \in Spaces \X Blocks
      BY PfBounds
    <3>2. channel_gen[r.space] \in {0, 1} /\ range_gen[<<r.space, Block(r.page)>>] \in {0, 1}
      BY <1>3, <3>1 DEF PfSpaceType
    <3> QED
      BY <3>2 DEF PfEntry
  <2>3. /\ e.req = r /\ e.channel = channel_gen[r.space] /\ e.valid = FALSE
        /\ e.range = range_gen[<<r.space, Block(r.page)>>]
    OBVIOUS
  <2> HIDE DEF e
  <2>4. /\ put' \in Slots
        /\ \A i \in Slots :
             i \in InBuffer(cached_get, put') <=> i \in InBuffer(cached_get, put) \/ i = put
        /\ put \notin InBuffer(cached_get, cached_put)
        /\ (cached_put - cached_get) % MaxFaults <= (put' - cached_get) % MaxFaults
    BY <1>3, <2>1, PfWritten
  <2>5. ring \in [Slots -> PfEntry] /\ put \in Slots
    BY <1>3 DEF PfBufferType
  <2>6. ring'[put] = e /\ \A i \in Slots : i = put \/ ring'[i] = ring[i]
    BY <2>1, <2>5
  <2>7. PfBufferType'
    BY <1>1, <1>3, <2>1, <2>2, <2>4 DEF PfBufferType
  <2>8. PfPointers'
    <3>1. ASSUME NEW i \in Slots, ring'[i].valid
          PROVE  i \in InBuffer(cached_get, put')
      BY <1>3, <2>3, <2>4, <2>6, <3>1 DEF PfPointers
    <3> QED
      BY <1>1, <2>4, <3>1 DEF PfPointers, InBuffer
  <2>9. PfEntries'
    <3>1. ASSUME NEW i \in InBuffer(cached_get, put'), NEW f, f = ring'[i],
                 NEW s, s = f.req.space
          PROVE  /\ f.req \in Requests /\ f.channel = channel_gen[s]
                 /\ channel[s] = "released" => Discarded(i)
                 /\ f.range # range_gen[<<s, Block(f.req.page)>>]
                      => ~gpu_va_space[s] \/ needs_fault_buffer_flush[s] \/ Discarded(i)
      <4>1. CASE i = put
        BY <2>3, <2>6, <3>1, <4>1
      <4>2. CASE i # put
        <5>1. i \in InBuffer(cached_get, put) /\ f = ring[i]
          BY <2>4, <2>6, <3>1, <4>2 DEF InBuffer
        <5> QED
          BY <1>3, <3>1, <5>1 DEF PfEntries, Stale
      <4> QED
        BY <4>1, <4>2
    <3>2. \A i : Discarded(i)' <=> Discarded(i)
      BY <1>1 DEF Discarded, InBuffer
    <3>3. InBuffer(cached_get, put)' = InBuffer(cached_get, put')
      BY <1>1 DEF InBuffer
    <3> QED
      BY <1>1, <3>1, <3>2, <3>3 DEF PfEntries, Stale
  <2> QED
    BY <1>2, <1>5, <2>7, <2>8, <2>9 DEF PfInv
<1> QED
  BY <1>6, <1>7

LEMMA PfRequests ==
    ASSUME PfInv, NEW r \in Requests, Issue(r) \/ Retry(r)
    PROVE  PfInv'
<1>1. Access(r)
  BY DEF Issue, Retry
<1>2. channel[r.space] = "bound"
  <2>1. CASE Issue(r)
    BY <2>1 DEF Issue
  <2>2. CASE Retry(r)
    BY <2>2 DEF Retry, PfInv, PfGenerations, Live
  <2> QED
    BY <2>1, <2>2
<1> QED
  BY <1>1, <1>2, PfAccess

\* The valid bit of an entry appears.
LEMMA PfEntryWritten ==
    ASSUME PfInv, NEW i \in Slots, EntryWritten(i)
    PROVE  PfInv'
<1>1. /\ UNCHANGED <<setup, request, put, cached_get, cached_put, fault_cache,
                     num_pending_faults, pc, mode, todo, va_space, flush>>
      /\ UNCHANGED <<channel, channel_gen, range_gen, gpu_va_space, needs_fault_buffer_flush>>
      /\ i \in InBuffer(cached_get, put)
  BY DEF EntryWritten, cache_vars, utlb_vars, bh_vars, space_vars
<1>2. /\ PfCacheType' /\ PfSpaceType' /\ PfControl' /\ PfPending' /\ PfFaults'
      /\ setup' \in PfSetup /\ request' \in [Requests -> PfStates]
  BY <1>1, PfUntouched DEF PfInv
<1>3. PfBufferType /\ PfPointers /\ PfEntries /\ PfGenerations
  BY DEF PfInv
<1>4. PICK e : /\ e = [req |-> ring[i].req, channel |-> ring[i].channel,
                        range |-> ring[i].range, valid |-> TRUE]
               /\ e \in PfEntry /\ ring' = [ring EXCEPT ![i] = e]
  <2>1. ring[i] \in PfEntry
    BY <1>3 DEF PfBufferType
  <2>2. [ring[i] EXCEPT !.valid = TRUE]
          = [req |-> ring[i].req, channel |-> ring[i].channel,
             range |-> ring[i].range, valid |-> TRUE]
    <3>1. PICK x : x = ring[i]
      OBVIOUS
    <3>2. x = [req |-> x.req, channel |-> x.channel, range |-> x.range, valid |-> x.valid]
      BY <2>1, <3>1 DEF PfEntry
    <3>3. PICK y : y = [x EXCEPT !.valid = TRUE]
      OBVIOUS
    <3>4. y = [req |-> x.req, channel |-> x.channel, range |-> x.range, valid |-> TRUE]
      BY <3>2, <3>3
    <3> QED
      BY <3>1, <3>3, <3>4
  <2>3. [req |-> ring[i].req, channel |-> ring[i].channel,
             range |-> ring[i].range, valid |-> TRUE]
          \in PfEntry
    <3>1. /\ ring[i].req \in Requests \union {NoRequest} /\ ring[i].channel \in {0, 1}
          /\ ring[i].range \in {0, 1} /\ TRUE \in BOOLEAN
      BY <2>1 DEF PfEntry
    <3> QED
      BY <3>1 DEF PfEntry
  <2>4. ring' = [ring EXCEPT ![i] = [ring[i] EXCEPT !.valid = TRUE]]
    BY DEF EntryWritten
  <2> QED
    BY <2>2, <2>3, <2>4
<1>5. /\ e.req = ring[i].req /\ e.channel = ring[i].channel /\ e.range = ring[i].range
  BY <1>4
<1>6. ring'[i] = e /\ \A j \in Slots : j = i \/ ring'[j] = ring[j]
  BY <1>3, <1>4 DEF PfBufferType
<1>7. PfBufferType'
  <2>1. ring \in [Slots -> PfEntry]
    BY <1>3 DEF PfBufferType
  <2>2. ring' \in [Slots -> PfEntry]
    BY <1>4, <2>1
  <2> QED
    BY <1>1, <1>3, <2>2 DEF PfBufferType
<1>8. PfPointers'
  <2>1. \A j \in Slots : ring'[j].valid => j \in InBuffer(cached_get, put)
    BY <1>1, <1>3, <1>6 DEF PfPointers
  <2> QED
    BY <1>1, <1>3, <2>1 DEF PfPointers, InBuffer
<1>9. PfEntries'
  <2>1. \A j \in Slots : /\ ring'[j].req = ring[j].req /\ ring'[j].channel = ring[j].channel
                          /\ ring'[j].range = ring[j].range
    BY <1>5, <1>6
  <2>2. InBuffer(cached_get, put)' = InBuffer(cached_get, put)
          /\ InBuffer(cached_get, put) \subseteq Slots
    BY <1>1 DEF InBuffer
  <2>3. \A j : Discarded(j)' <=> Discarded(j)
    BY <1>1 DEF Discarded, InBuffer
  <2> QED
    BY <1>1, <1>3, <2>1, <2>2, <2>3 DEF PfEntries, Stale
<1>10. PfGenerations'
  BY <1>1, <1>3 DEF PfGenerations, Live, Waiting
<1> QED
  BY <1>2, <1>7, <1>8, <1>9, <1>10 DEF PfInv

\* A step of the bottom half between its reads of the ring.
PfSteady ==
    /\ UNCHANGED <<setup, ring, put, cached_get, num_pending_faults>>
    /\ UNCHANGED <<channel, channel_gen, range_gen, gpu_va_space, needs_fault_buffer_flush>>
    /\ request' \in [Requests -> PfStates] /\ \A r \in Requests : Live(r)' => Live(r)
    /\ cached_put' \in {cached_put, put} /\ pc # "flush" /\ PfControl'
    /\ \/ va_space' \in {va_space, NoSpace}
       \/ /\ va_space' \in Spaces
          /\ ~gpu_va_space[va_space'] \/ ~needs_fault_buffer_flush[va_space']
    /\ todo' \subseteq todo
    /\ fault_cache' = fault_cache \/ (fault_cache' = <<>> /\ todo' = {})

LEMMA PfSteadyKept ==
    ASSUME PfInv, PfSteady
    PROVE  PfInv'
<1>1. PfCacheType'
  <2>1. CASE fault_cache' = fault_cache
    BY <2>1 DEF PfInv, PfCacheType, PfSteady
  <2>2. CASE fault_cache' = <<>> /\ todo' = {}
    <3>1. fault_cache' \in [1..0 -> Faults]
      BY <2>2
    <3> QED
      BY <2>2, <3>1 DEF PfCacheType
  <2> QED
    BY <2>1, <2>2 DEF PfSteady
<1>2. \A k \in todo' : fault_cache'[k] = fault_cache[k]
  BY DEF PfSteady
<1>3. PfPending'
  BY <1>1, <1>2, PfPendingKept DEF PfSteady
<1>4. setup \in PfSetup /\ va_space \in Spaces \union {NoSpace}
  BY DEF PfInv, PfSpaceType
<1> QED
  BY <1>1, <1>2, <1>3, <1>4, PfKept DEF PfSteady

\* The steps that fetch no entry and service no fault.
LEMMA PfLoop ==
    ASSUME PfInv,
           uvm8_isr_top_half \/ fetch_start \/ batch_flush_wait \/ service_fault_buffer_end
    PROVE  PfInv'
<1>0. PfControl /\ request \in [Requests -> PfStates] /\ todo = {} /\ pc # "flush"
      /\ cached_put' \in {cached_put, put}
  BY DEF PfInv, PfControl, uvm8_isr_top_half, fetch_start, batch_flush_wait,
     service_fault_buffer_end
<1>1. /\ UNCHANGED <<setup, request, ring, put, cached_get, num_pending_faults, todo, va_space,
                     flush>>
      /\ UNCHANGED <<channel, channel_gen, range_gen, gpu_va_space, needs_fault_buffer_flush>>
  BY DEF uvm8_isr_top_half, fetch_start, batch_flush_wait, service_fault_buffer_end, gpu_vars,
         cache_vars, utlb_vars, space_vars
<1>2. fault_cache' = fault_cache \/ fault_cache' = <<>>
  BY DEF uvm8_isr_top_half, fetch_start, batch_flush_wait, service_fault_buffer_end, cache_vars
<1>3. PfControl'
  <2>1. CASE uvm8_isr_top_half
    BY <1>0, <1>1, <2>1 DEF uvm8_isr_top_half, PfControl, PfPc
  <2>2. CASE fetch_start
    BY <1>0, <1>1, <2>2 DEF fetch_start, PfControl, PfPc
  <2>3. CASE batch_flush_wait
    BY <1>0, <1>1, <2>3 DEF batch_flush_wait, PfControl, PfPc
  <2>4. CASE service_fault_buffer_end
    BY <1>0, <1>1, <2>4 DEF service_fault_buffer_end, PfControl, PfPc
  <2> QED
    BY <2>1, <2>2, <2>3, <2>4
<1>4. \A r \in Requests : Live(r)' => Live(r)
  BY <1>1 DEF Live, Waiting
<1>5. PfSteady
  BY <1>0, <1>1, <1>2, <1>3, <1>4 DEF PfSteady
<1> QED
  BY <1>5, PfSteadyKept

LEMMA PfBatch ==
    ASSUME PfInv,
           preprocess_fault_batch \/ service_ignored \/ batch_done \/ batch_has_fatal_faults
    PROVE  PfInv'
<1>0. PfControl /\ request \in [Requests -> PfStates] /\ pc # "flush"
      /\ cached_put' \in {cached_put, put}
  BY DEF PfInv, preprocess_fault_batch, service_ignored, batch_done, batch_has_fatal_faults,
         fault_buffer_flush_locked, Servicing, BatchDone
<1>1. /\ UNCHANGED <<setup, request, ring, put, cached_get, fault_cache, num_pending_faults>>
      /\ UNCHANGED <<channel, channel_gen, range_gen, gpu_va_space, needs_fault_buffer_flush>>
      /\ todo' \subseteq todo
  BY DEF preprocess_fault_batch, service_ignored, batch_done, batch_has_fatal_faults, gpu_vars,
         cache_vars, utlb_vars, space_vars
<1>2. va_space' \in {va_space, NoSpace} \/ (va_space' \in Spaces /\ ~gpu_va_space[va_space'])
  <2>1. ASSUME service_ignored
        PROVE  va_space' \in Spaces /\ ~gpu_va_space[va_space']
    <3>1. First(todo) \in todo
      BY <2>1, PfFirst DEF service_ignored, Servicing, PfInv
    <3>2. Current.req \in Requests
      BY <3>1 DEF Current, PfInv, PfCacheType, Faults
    <3> QED
      BY <2>1, <3>2, PfBounds DEF service_ignored
  <2>2. CASE preprocess_fault_batch
    BY <2>2 DEF preprocess_fault_batch
  <2>3. CASE batch_done \/ batch_has_fatal_faults
    BY <2>3 DEF batch_done, batch_has_fatal_faults
  <2> QED
    BY <2>1, <2>2, <2>3
<1>3. PfControl'
  <2>1. CASE preprocess_fault_batch
    BY <1>0, <2>1 DEF preprocess_fault_batch, PfControl, PfPc, fault_buffer_flush_locked, Again
  <2>2. CASE service_ignored
    BY <1>0, <2>2 DEF service_ignored, Servicing, PfControl, PfPc
  <2>3. CASE batch_done
    BY <1>0, <2>3 DEF batch_done, BatchDone, PfControl, PfPc, fault_buffer_flush_locked
  <2>4. CASE batch_has_fatal_faults
    BY <1>0, <2>4 DEF batch_has_fatal_faults, BatchDone, PfControl, PfPc
  <2> QED
    BY <2>1, <2>2, <2>3, <2>4
<1>4. \A r \in Requests : Live(r)' => Live(r)
  BY <1>1 DEF Live, Waiting
<1>5. PfSteady
  BY <1>0, <1>1, <1>2, <1>3, <1>4 DEF PfSteady
<1> QED
  BY <1>5, PfSteadyKept

LEMMA PfCancel ==
    ASSUME PfInv,
           cancel_faults_precise \/ try_to_cancel_utlbs \/ cancel_done \/ cancel_fault_batch
    PROVE  PfInv'
<1>0. PfControl /\ request \in [Requests -> PfStates] /\ pc # "flush" /\ todo = {}
      /\ cached_put' \in {cached_put, put}
  BY DEF PfInv, PfControl, cancel_faults_precise, try_to_cancel_utlbs, cancel_done,
     cancel_fault_batch,
         fault_buffer_flush_locked, BatchDone
<1>1. /\ UNCHANGED <<setup, ring, put, cached_get, fault_cache, num_pending_faults, todo>>
      /\ UNCHANGED <<channel, channel_gen, range_gen, gpu_va_space, needs_fault_buffer_flush>>
      /\ va_space' \in {va_space, NoSpace}
  BY DEF cancel_faults_precise, try_to_cancel_utlbs, cancel_done, cancel_fault_batch, gpu_vars,
         cache_vars, utlb_vars, space_vars, bh_vars
<1>2. request' = request \/ \E u : Cancel(u)
  BY DEF cancel_faults_precise, try_to_cancel_utlbs, cancel_done, cancel_fault_batch, gpu_vars
<1>3. request' \in [Requests -> PfStates] /\ \A r \in Requests : Live(r)' => Live(r)
  <2>1. CASE request' = request
    BY <1>0, <2>1 DEF Live, Waiting
  <2>2. ASSUME NEW u, Cancel(u)
        PROVE  <1>3!:
    <3>1. request' =
            [r \in Requests |-> IF r.utlb = u /\ Live(r) THEN "cancelled" ELSE request[r]]
      BY <2>2 DEF Cancel
    <3> QED
      BY <1>0, <3>1 DEF PfStates, Live, Waiting
  <2> QED
    BY <1>2, <2>1, <2>2
<1>4. PfControl'
  <2>1. CASE cancel_faults_precise
    BY <1>0, <2>1 DEF cancel_faults_precise, PfControl, PfPc, fault_buffer_flush_locked
  <2>2. CASE try_to_cancel_utlbs
    BY <1>0, <2>2 DEF try_to_cancel_utlbs, bh_vars, PfControl, PfPc
  <2>3. CASE cancel_done
    BY <1>0, <2>3 DEF cancel_done, PfControl, PfPc
  <2>4. CASE cancel_fault_batch
    BY <1>0, <2>4 DEF cancel_fault_batch, bh_vars, PfControl, PfPc
  <2> QED
    BY <2>1, <2>2, <2>3, <2>4
<1>5. PfSteady
  BY <1>0, <1>1, <1>3, <1>4 DEF PfSteady
<1> QED
  BY <1>5, PfSteadyKept

\* The same fault, but for its fatal flag.
PfSame(g, f) == g \in Faults /\ g.req = f.req /\ g.channel = f.channel /\ g.range = f.range

\* The faults K of the batch are dealt with; the flags of some may change.
PfServed(K) ==
    /\ K \subseteq todo /\ Handled(K) /\ todo' \in {todo \ K, {}}
    /\ UNCHANGED <<request, ring, put, cached_get, cached_put>>
    /\ UNCHANGED <<channel, channel_gen, range_gen, gpu_va_space, needs_fault_buffer_flush>>
    /\ setup' \in PfSetup /\ setup'.reuse = setup.reuse
    /\ \E n \in Nat : DOMAIN fault_cache = 1..n /\ fault_cache' \in [1..n -> Faults]
    /\ \A k \in DOMAIN fault_cache : PfSame(fault_cache'[k], fault_cache[k])
    /\ va_space' \in Spaces \union {NoSpace} /\ pc # "flush" /\ PfControl'
    /\ \/ va_space' \in {va_space, NoSpace}
       \/ ~gpu_va_space[va_space'] \/ ~needs_fault_buffer_flush[va_space']

LEMMA PfServedKept ==
    ASSUME PfInv, NEW K, PfServed(K)
    PROVE  PfInv'
<1>1. todo \subseteq DOMAIN fault_cache /\ todo' \subseteq todo
  BY DEF PfInv, PfCacheType, PfServed
<1>2. PfCacheType'
  BY <1>1 DEF PfServed, PfCacheType
<1>3. \A k \in todo : /\ fault_cache'[k].req = fault_cache[k].req
                      /\ fault_cache'[k].channel = fault_cache[k].channel
                      /\ fault_cache'[k].range = fault_cache[k].range
  BY <1>1 DEF PfServed, PfSame
<1>4. PfPending'
  <2>1. /\ num_pending_faults' \in [Utlbs -> Nat]
        /\ \A u \in Utlbs : num_pending_faults'[u]
                              >= Cardinality({k \in todo \ K : fault_cache[k].req.utlb = u})
    BY PfHandled DEF PfServed, PfInv
  <2>2. CASE todo' = {}
    <3>1. \A u \in Utlbs : {k \in todo' : fault_cache'[k].req.utlb = u} = {}
      BY <2>2
    <3>2. \A u \in Utlbs : Cardinality({k \in todo' : fault_cache'[k].req.utlb = u}) = 0
      BY <3>1, FS_EmptySet
    <3>3. \A u \in Utlbs : num_pending_faults'[u] >= 0
      BY <2>1
    <3> QED
      BY <2>1, <3>2, <3>3 DEF PfPending
  <2>3. CASE todo' = todo \ K
    <3>1. ASSUME NEW u \in Utlbs
          PROVE  {k \in todo' : fault_cache'[k].req.utlb = u}
                   = {k \in todo \ K : fault_cache[k].req.utlb = u}
      BY <1>3, <2>3
    <3>2. ASSUME NEW u \in Utlbs
          PROVE  num_pending_faults'[u]
                   >= Cardinality({k \in todo' : fault_cache'[k].req.utlb = u})
      BY <2>1, <3>1
    <3> QED
      BY <2>1, <3>2 DEF PfPending
  <2> QED
    BY <2>2, <2>3 DEF PfServed
<1>5. \A r \in Requests : Live(r)' => Live(r)
  BY DEF PfServed, Live, Waiting
<1>6. request' \in [Requests -> PfStates]
  BY DEF PfServed, PfInv
<1>7. \A k \in todo' : /\ fault_cache'[k].req = fault_cache[k].req
                       /\ fault_cache'[k].channel = fault_cache[k].channel
                       /\ fault_cache'[k].range = fault_cache[k].range
  BY <1>1, <1>3
<1> QED
  BY <1>1, <1>2, <1>4, <1>5, <1>6, <1>7, PfKept DEF PfServed

LEMMA PfService ==
    ASSUME PfInv,
           service_already_fatal \/ service_block \/ service_block_fails \/ service_no_block
    PROVE  PfInv'
<1> DEFINE k0 == First(todo)
           s0 == Current.req.space
           b0 == Block(Current.req.page)
<1>0. PfControl /\ setup \in PfSetup /\ Servicing /\ pc = "service" /\ todo # {}
      /\ ~MustFlush(s0)
  BY DEF PfInv, service_already_fatal, service_block, service_block_fails, service_no_block,
     Servicing
<1>1. PICK n \in Nat : fault_cache \in [1..n -> Faults] /\ todo \subseteq 1..n
  BY DEF PfInv, PfCacheType
<1>2. k0 \in todo
  BY <1>0, PfFirst DEF PfInv
<1>3. s0 \in Spaces /\ s0 # NoSpace
  <2>1. Current.req \in Requests
    BY <1>1, <1>2 DEF Current, Faults
  <2> QED
    BY <2>1, PfBounds
<1>4. s0 = va_space \/ ~gpu_va_space[s0] \/ ~needs_fault_buffer_flush[s0]
  BY <1>0 DEF MustFlush
<1>5. /\ UNCHANGED <<request, ring, put, cached_get, cached_put, mode, flush>>
      /\ UNCHANGED <<channel, channel_gen, range_gen, gpu_va_space, needs_fault_buffer_flush>>
  BY DEF service_already_fatal, service_block, service_block_fails, service_no_block, gpu_vars,
     space_vars
<1>6. \A k \in 1..n : PfSame(fault_cache[k], fault_cache[k])
  BY <1>1 DEF PfSame
<1>7. ASSUME NEW k \in 1..n, NEW fatal \in BOOLEAN
      PROVE  PfSame([fault_cache[k] EXCEPT !.is_fatal = fatal], fault_cache[k])
  <2>1. PICK f \in Faults : f = fault_cache[k]
    BY <1>1
  <2>2. f = [req |-> f.req, channel |-> f.channel, range |-> f.range, is_fatal |-> f.is_fatal]
    BY DEF Faults
  <2>3. PICK g : g = [f EXCEPT !.is_fatal = fatal]
    OBVIOUS
  <2>4. g = [req |-> f.req, channel |-> f.channel, range |-> f.range, is_fatal |-> fatal]
    BY <2>2, <2>3
  <2>5. f.req \in Requests /\ f.channel \in {0, 1} /\ f.range \in {0, 1}
    BY DEF Faults
  <2>6. g \in Faults
    BY <2>4, <2>5 DEF Faults
  <2> QED
    BY <2>1, <2>3, <2>4, <2>6 DEF PfSame
<1>8. CASE service_already_fatal
  <2>1. /\ Handled({k0}) /\ va_space' = s0 /\ todo' = todo \ {k0} /\ pc' = pc
        /\ UNCHANGED <<setup, fault_cache>>
    BY <1>8 DEF service_already_fatal
  <2>2. PfControl'
    BY <1>0, <1>5, <2>1 DEF PfControl
  <2>3. {k0} \subseteq todo
    BY <1>2
  <2> HIDE DEF k0, s0, b0
  <2>4. PfServed({k0})
    BY <1>0, <1>1, <1>3, <1>4, <1>5, <1>6, <2>1, <2>2, <2>3 DEF PfServed
  <2> QED
    BY <2>4, PfServedKept, Zenon
<1>9. CASE service_no_block
  <2> DEFINE fatal == Current.req.access # "prefetch"
  <2>1. /\ Handled({k0}) /\ va_space' = s0 /\ todo' = todo \ {k0} /\ pc' = pc
        /\ UNCHANGED setup
        /\ fault_cache' =
             [fault_cache EXCEPT ![k0] = [fault_cache[k0] EXCEPT !.is_fatal = fatal]]
    BY <1>9 DEF service_no_block
  <2>2. PfControl'
    BY <1>0, <1>5, <2>1 DEF PfControl
  <2>3. {k0} \subseteq todo /\ k0 \in 1..n /\ fatal \in BOOLEAN
    BY <1>1, <1>2
  <2> HIDE DEF k0, s0, b0, fatal
  <2>4. \A k \in 1..n : PfSame(fault_cache'[k], fault_cache[k])
    <3>1. PfSame([fault_cache[k0] EXCEPT !.is_fatal = fatal], fault_cache[k0])
      BY <1>7, <2>3
    <3>2. PICK g : g = [fault_cache[k0] EXCEPT !.is_fatal = fatal]
      OBVIOUS
    <3>3. fault_cache'[k0] = g /\ \A k \in 1..n : k = k0 \/ fault_cache'[k] = fault_cache[k]
      BY <1>1, <2>1, <2>3, <3>2
    <3> QED
      BY <1>6, <3>1, <3>2, <3>3
  <2>5. fault_cache' \in [1..n -> Faults]
    <3>1. DOMAIN fault_cache' = 1..n /\ fault_cache' = [k \in 1..n |-> fault_cache'[k]]
      BY <1>1, <2>1
    <3>2. \A k \in 1..n : fault_cache'[k] \in Faults
      BY <2>4 DEF PfSame
    <3> QED
      BY <3>1, <3>2
  <2>6. PfServed({k0})
    BY <1>0, <1>1, <1>3, <1>4, <1>5, <2>1, <2>2, <2>3, <2>4, <2>5 DEF PfServed
  <2> QED
    BY <2>6, PfServedKept
<1> DEFINE K0 == BlockFaults(s0, b0)
<1>10. K0 \subseteq todo
  BY DEF BlockFaults
<1>11. ASSUME fault_cache' = Flagged(K0, b0)
       PROVE  /\ fault_cache' \in [1..n -> Faults]
              /\ \A k \in 1..n : PfSame(fault_cache'[k], fault_cache[k])
  <2>1. ASSUME NEW k \in 1..n
        PROVE  PfSame(fault_cache'[k], fault_cache[k])
    <3> HIDE DEF K0, b0
    <3>1. \/ fault_cache'[k] = [fault_cache[k] EXCEPT !.is_fatal = Denied(k)]
          \/ fault_cache'[k] = [fault_cache[k] EXCEPT !.is_fatal = FALSE]
          \/ fault_cache'[k] = fault_cache[k]
      BY <1>1, <1>11 DEF Flagged
    <3>2. Denied(k) \in BOOLEAN
      BY DEF Denied
    <3> QED
      BY <1>6, <1>7, <3>1, <3>2
  <2>2. DOMAIN fault_cache' = 1..n /\ fault_cache' = [k \in 1..n |-> fault_cache'[k]]
    <3> HIDE DEF K0, b0
    <3> QED
      BY <1>1, <1>11 DEF Flagged
  <2>3. \A k \in 1..n : fault_cache'[k] \in Faults
    BY <2>1 DEF PfSame
  <2> QED
    BY <2>1, <2>2, <2>3
<1>12. CASE service_block
  <2>1. /\ Handled(K0) /\ va_space' = s0 /\ todo' = todo \ K0 /\ pc' = pc
        /\ fault_cache' = Flagged(K0, b0)
    BY <1>12 DEF service_block
  <2>2. setup' \in PfSetup /\ setup'.reuse = setup.reuse
    <3>1. PICK throttled : /\ throttled # {} => setup.throttles > 0
                           /\ setup' = [setup EXCEPT !.throttles =
                                          IF throttled = {} THEN @ ELSE @ - 1]
      BY <1>12 DEF service_block
    <3>2. PICK x \in Nat : setup' = [setup EXCEPT !.throttles = x]
      <4>1. setup.throttles \in Nat
        BY <1>0 DEF PfSetup
      <4>2. PICK x : x = (IF throttled = {} THEN setup.throttles ELSE setup.throttles - 1)
        OBVIOUS
      <4>3. x \in Nat
        BY <3>1, <4>1, <4>2
      <4>4. setup' = [setup EXCEPT !.throttles = x]
        BY <3>1, <4>2
      <4> QED
        BY <4>3, <4>4
    <3>3. PICK q : q = [setup EXCEPT !.throttles = x]
      OBVIOUS
    <3>4. q \in PfSetup /\ q.reuse = setup.reuse
      BY <1>0, <3>3 DEF PfSetup
    <3>5. setup' = q
      BY <3>2, <3>3, Zenon
    <3> QED
      BY <3>4, <3>5, Zenon
  <2>3. PfControl'
    BY <1>0, <1>5, <2>1 DEF PfControl
  <2> HIDE DEF k0, s0, b0, K0
  <2>4. PfServed(K0)
    BY <1>0, <1>1, <1>3, <1>4, <1>5, <1>10, <1>11, <2>1, <2>2, <2>3 DEF PfServed
  <2> QED
    BY <2>4, PfServedKept, Zenon
<1>13. CASE service_block_fails
  <2>1. /\ Handled(K0) /\ va_space' = NoSpace /\ todo' = {} /\ pc' = Failed
        /\ fault_cache' = Flagged(K0, b0)
    BY <1>13 DEF service_block_fails
  <2>2. setup' \in PfSetup /\ setup'.reuse = setup.reuse
    <3>1. setup.oom > 0 /\ setup' = [setup EXCEPT !.oom = setup.oom - 1]
      BY <1>13 DEF service_block_fails
    <3>2. setup.oom - 1 \in Nat
      BY <1>0, <3>1 DEF PfSetup
    <3> QED
      BY <1>0, <3>1, <3>2 DEF PfSetup
  <2>3. PfControl'
    BY <1>0, <1>5, <2>1 DEF PfControl, PfPc, Failed
  <2> HIDE DEF k0, s0, b0, K0
  <2>4. PfServed(K0)
    BY <1>0, <1>1, <1>3, <1>4, <1>5, <1>10, <1>11, <2>1, <2>2, <2>3 DEF PfServed
  <2> QED
    BY <2>4, PfServedKept, Zenon
<1> QED
  BY <1>8, <1>9, <1>12, <1>13

\* A flush with UPDATE_PUT begins: it will discard every entry.
LEMMA PfFlushStarts ==
    ASSUME PfInv, pc' = "flush", cached_put' = put,
           UNCHANGED <<ring, put, cached_get, channel_gen>>
    PROVE  PfBufferType' /\ PfPointers' /\ PfEntries'
<1>1. PfBufferType /\ PfPointers /\ PfEntries
  BY DEF PfInv
<1>2. PfBufferType'
  BY <1>1 DEF PfBufferType
<1>3. PfPointers'
  <2>1. (put - cached_get) % MaxFaults <= (put - cached_get) % MaxFaults
    BY <1>1, PfDistance, PfBounds DEF PfBufferType
  <2> QED
    BY <1>1, <2>1 DEF PfPointers, InBuffer
<1>4. PfEntries'
  <2>1. InBuffer(cached_get, put)' = InBuffer(cached_get, put)
    BY DEF InBuffer
  <2>2. \A i \in InBuffer(cached_get, put) : Discarded(i)'
    BY DEF Discarded, InBuffer
  <2> QED
    BY <1>1, <2>1, <2>2 DEF PfEntries
<1> QED
  BY <1>2, <1>3, <1>4

\* Without a batch, nothing is claimed of its faults.
LEMMA PfNoBatch ==
    ASSUME PfCacheType, todo' = {}, fault_cache' = fault_cache,
           num_pending_faults' \in [Utlbs -> Nat]
    PROVE  PfCacheType' /\ PfFaults' /\ PfPending'
<1>1. PfCacheType'
  BY DEF PfCacheType
<1>2. PfFaults'
  BY DEF PfFaults
<1>3. \A u \in Utlbs : {k \in todo' : fault_cache'[k].req.utlb = u} = {}
  OBVIOUS
<1>4. \A u \in Utlbs : Cardinality({k \in todo' : fault_cache'[k].req.utlb = u}) = 0
  BY <1>3, FS_EmptySet
<1>5. \A u \in Utlbs : num_pending_faults'[u] >= 0
  OBVIOUS
<1> QED
  BY <1>1, <1>2, <1>4, <1>5 DEF PfPending

LEMMA PfServiceFlush ==
    ASSUME PfInv, service_flush
    PROVE  PfInv'
<1> DEFINE s0 == Current.req.space
<1>1. /\ UNCHANGED <<setup, request, ring, put, cached_get, fault_cache, num_pending_faults,
                     mode>>
      /\ UNCHANGED <<channel, channel_gen, range_gen, gpu_va_space>>
      /\ pc = "service" /\ todo # {} /\ todo' = {} /\ va_space' = s0
      /\ needs_fault_buffer_flush' = [needs_fault_buffer_flush EXCEPT ![s0] = FALSE]
      /\ cached_put' = put /\ pc' = "flush" /\ flush' = [type |-> "START", ret |-> Again]
  BY DEF service_flush, gpu_vars, cache_vars, utlb_vars, fault_buffer_flush_locked
<1>2. /\ setup \in PfSetup /\ request \in [Requests -> PfStates] /\ PfSpaceType /\ PfControl
      /\ PfCacheType /\ PfGenerations /\ num_pending_faults \in [Utlbs -> Nat]
  BY DEF PfInv, PfPending
<1>3. s0 \in Spaces
  <2>1. First(todo) \in todo
    BY <1>1, <1>2, PfFirst
  <2>2. Current.req \in Requests
    BY <1>2, <2>1 DEF Current, PfCacheType, Faults
  <2> QED
    BY <2>2, PfBounds
<1> HIDE DEF s0
<1>4. PfSpaceType'
  BY <1>1, <1>2, <1>3 DEF PfSpaceType
<1>5. PfControl'
  BY <1>1, <1>2 DEF PfControl, PfPc, Again
<1>6. PfBufferType' /\ PfPointers' /\ PfEntries'
  BY <1>1, PfFlushStarts
<1>7. PfCacheType' /\ PfFaults' /\ PfPending'
  BY <1>1, <1>2, PfNoBatch
<1>8. PfGenerations'
  BY <1>1, <1>2 DEF PfGenerations, Live, Waiting
<1>9. setup' \in PfSetup /\ request' \in [Requests -> PfStates]
  BY <1>1, <1>2
<1> QED
  BY <1>4, <1>5, <1>6, <1>7, <1>8, <1>9 DEF PfInv

\* GET moves on to get, and the entries it passes are cleared.
LEMMA PfCleared ==
    ASSUME PfInv, NEW get \in Slots,
           (get - cached_get) % MaxFaults <= (cached_put - cached_get) % MaxFaults,
           cached_get' = get,
           ring' = [i \in Slots |-> IF i \in InBuffer(cached_get, get) THEN Empty ELSE ring[i]],
           UNCHANGED <<put, cached_put, channel, channel_gen, range_gen, gpu_va_space,
                       needs_fault_buffer_flush>>,
           \A i \in InBuffer(cached_get, put) \ InBuffer(cached_get, get) : ~Discarded(i)
    PROVE  PfBufferType' /\ PfPointers' /\ PfEntries'
<1>1. PfBufferType /\ PfPointers /\ PfEntries
  BY DEF PfInv
<1>2. /\ (cached_put - get) % MaxFaults <= (put - get) % MaxFaults
      /\ \A i \in Slots : i \in InBuffer(get, put)
                           <=> i \in InBuffer(cached_get, put) \ InBuffer(cached_get, get)
  BY <1>1, PfMoved
<1>3. Empty \in PfEntry /\ Empty.valid = FALSE
  BY DEF Empty, PfEntry
<1>4. \A i \in Slots : ring'[i] = IF i \in InBuffer(cached_get, get) THEN Empty ELSE ring[i]
  OBVIOUS
<1>5. PfBufferType'
  <2>1. ring \in [Slots -> PfEntry]
    BY <1>1 DEF PfBufferType
  <2>2. ring' \in [Slots -> PfEntry]
    BY <1>3, <2>1
  <2> QED
    BY <1>1, <2>2 DEF PfBufferType
<1>6. InBuffer(cached_get, put)' = InBuffer(get, put)
  BY DEF InBuffer
<1>7. PfPointers'
  <2>1. \A i \in Slots : ring'[i].valid => i \in InBuffer(get, put)
    BY <1>1, <1>2, <1>3, <1>4 DEF PfPointers
  <2> QED
    BY <1>2, <1>6, <2>1 DEF PfPointers
<1>8. PfEntries'
  <2>1. ASSUME NEW i \in InBuffer(get, put), NEW f, f = ring'[i], NEW s, s = f.req.space
        PROVE  /\ f.req \in Requests /\ f.channel = channel_gen[s] /\ channel[s] # "released"
               /\ f.range # range_gen[<<s, Block(f.req.page)>>]
                    => ~gpu_va_space[s] \/ needs_fault_buffer_flush[s]
    <3>1. i \in Slots
      BY DEF InBuffer
    <3>2. i \in InBuffer(cached_get, put) \ InBuffer(cached_get, get)
      BY <1>2, <3>1
    <3>3. f = ring[i] /\ ~Discarded(i)
      BY <1>4, <2>1, <3>1, <3>2
    <3> QED
      BY <1>1, <2>1, <3>2, <3>3 DEF PfEntries, Stale
  <2> QED
    BY <1>6, <2>1 DEF PfEntries, Stale
<1> QED
  BY <1>5, <1>7, <1>8

LEMMA PfFlush ==
    ASSUME PfInv, flush_entries
    PROVE  PfInv'
<1>1. /\ UNCHANGED <<setup, request, put, cached_put, fault_cache, mode, todo>>
      /\ UNCHANGED <<channel, channel_gen, range_gen, gpu_va_space, needs_fault_buffer_flush>>
      /\ pc = "flush" /\ pc' = flush.ret /\ va_space' = NoSpace /\ cached_get' = cached_put
      /\ ring' =
           [i \in Slots |-> IF i \in InBuffer(cached_get, cached_put) THEN Empty ELSE ring[i]]
      /\ num_pending_faults' =
           [u \in Utlbs |-> IF u <= max_utlb_id THEN 0 ELSE num_pending_faults[u]]
  BY DEF flush_entries, FlushTo, space_vars
<1>2. /\ setup \in PfSetup /\ request \in [Requests -> PfStates] /\ PfSpaceType /\ PfControl
      /\ PfCacheType /\ PfGenerations /\ num_pending_faults \in [Utlbs -> Nat] /\ PfBufferType
  BY DEF PfInv, PfPending
<1>3. todo' = {} /\ num_pending_faults' \in [Utlbs -> Nat]
  BY <1>1, <1>2 DEF PfControl
<1>4. PfCacheType' /\ PfFaults' /\ PfPending'
  BY <1>1, <1>2, <1>3, PfNoBatch
<1>5. PfBufferType' /\ PfPointers' /\ PfEntries'
  <2>1. cached_put \in Slots /\ cached_get \in Slots
    BY <1>2 DEF PfBufferType
  <2>2. (cached_put - cached_get) % MaxFaults <= (cached_put - cached_get) % MaxFaults
    BY <2>1, PfDistance, PfBounds
  <2>3. \A i \in InBuffer(cached_get, put) \ InBuffer(cached_get, cached_put) : ~Discarded(i)
    BY DEF Discarded
  <2> QED
    BY <1>1, <2>1, <2>2, <2>3, PfCleared
<1>6. PfControl' /\ PfSpaceType'
  BY <1>1, <1>2, <1>3 DEF PfControl, PfPc, PfSpaceType
<1>7. PfGenerations'
  BY <1>1, <1>2 DEF PfGenerations, Live, Waiting
<1>8. setup' \in PfSetup /\ request' \in [Requests -> PfStates]
  BY <1>1, <1>2
<1> QED
  BY <1>4, <1>5, <1>6, <1>7, <1>8 DEF PfInv

LEMMA PfFetch ==
    ASSUME PfInv, fetch_fault_buffer_entries
    PROVE  PfInv'
<1>a. PICK n : n = FetchCount
  OBVIOUS
<1>b. PICK faults :
        faults = [k \in 1..n |-> [req |-> ring[Slot(k)].req,
                   channel |-> ring[Slot(k)].channel, range |-> ring[Slot(k)].range,
                   is_fatal |-> ring[Slot(k)].req.type = "fatal"]]
  OBVIOUS
<1>1. /\ fault_cache' = faults /\ todo' = 1..n
      /\ ring' = [i \in Slots |-> IF \E k \in 1..n : i = Slot(k) THEN Empty ELSE ring[i]]
      /\ cached_get' = (cached_get + n) % MaxFaults
      /\ num_pending_faults' = [u \in Utlbs |->
           num_pending_faults[u] + Cardinality({k \in 1..n : faults[k].req.utlb = u})]
  <2>1. fault_cache' = faults
    BY <1>a, <1>b, Zenon DEF fetch_fault_buffer_entries
  <2>2. todo' = 1..n
    BY <1>a, Zenon DEF fetch_fault_buffer_entries
  <2>3. ring' = [i \in Slots |-> IF \E k \in 1..n : i = Slot(k) THEN Empty ELSE ring[i]]
    BY <1>a, Zenon DEF fetch_fault_buffer_entries
  <2>4. cached_get' = (cached_get + n) % MaxFaults
    BY <1>a, Zenon DEF fetch_fault_buffer_entries
  <2>5. num_pending_faults' = [u \in Utlbs |->
          num_pending_faults[u] + Cardinality({k \in 1..n : faults[k].req.utlb = u})]
    BY <1>a, <1>b, Zenon DEF fetch_fault_buffer_entries
  <2> QED
    BY <2>1, <2>2, <2>3, <2>4, <2>5
<1>2. /\ UNCHANGED <<setup, request, put, cached_put, mode, va_space, flush>>
      /\ UNCHANGED <<channel, channel_gen, range_gen, gpu_va_space, needs_fault_buffer_flush>>
      /\ pc = "fetch" /\ pc' = "preprocess"
  BY DEF fetch_fault_buffer_entries, space_vars
<1>3. /\ setup \in PfSetup /\ request \in [Requests -> PfStates] /\ PfSpaceType /\ PfControl
      /\ PfGenerations /\ num_pending_faults \in [Utlbs -> Nat] /\ PfBufferType /\ PfPointers
      /\ PfEntries
  BY DEF PfInv, PfPending
<1>4. n \in Nat /\ n \in 0..Available
  <2>1. Available \in Nat
    BY <1>3, PfDistance, PfBounds DEF Available, PfBufferType
  <2> QED
    BY <1>a, <1>3, <2>1, PfCount
<1> DEFINE get == (cached_get + n) % MaxFaults
<1>5. /\ get \in Slots
      /\ (get - cached_get) % MaxFaults <= (cached_put - cached_get) % MaxFaults
      /\ \A k \in 1..n : Slot(k) \in InBuffer(cached_get, get)
      /\ \A i \in InBuffer(cached_get, get) : \E k \in 1..n : i = Slot(k)
  BY <1>3, <1>4, PfFetched
<1>6. cached_get' = get
  BY <1>1
<1> HIDE DEF get
<1>7. PfBufferType' /\ PfPointers' /\ PfEntries'
  <2>1. \A i \in Slots : (\E k \in 1..n : i = Slot(k)) <=> i \in InBuffer(cached_get, get)
    BY <1>5
  <2>2. ring' = [i \in Slots |-> IF i \in InBuffer(cached_get, get) THEN Empty ELSE ring[i]]
    BY <1>1, <2>1, Zenon
  <2>3. \A i : ~Discarded(i)
    BY <1>2 DEF Discarded
  <2> QED
    BY <1>2, <1>5, <1>6, <2>2, <2>3, PfCleared
<1>8. ASSUME NEW k \in 1..n, NEW f, f = faults[k], NEW s, s = f.req.space
      PROVE  /\ f \in Faults /\ f.channel = channel_gen[s] /\ channel[s] # "released"
             /\ f.range # range_gen[<<s, Block(f.req.page)>>]
                  => ~gpu_va_space[s] \/ needs_fault_buffer_flush[s]
  <2>1. PICK i : i = Slot(k)
    OBVIOUS
  <2>2. i \in InBuffer(cached_get, put) /\ i \in Slots
    <3>1. i \in InBuffer(cached_get, get)
      BY <1>5, <2>1
    <3>2. i \in Slots
      BY <3>1 DEF InBuffer
    <3>3. i \in InBuffer(cached_get, cached_put)
      BY <1>3, <1>5, <3>1, PfMoved
    <3>4. (i - cached_get) % MaxFaults < (cached_put - cached_get) % MaxFaults
      BY <3>3 DEF InBuffer
    <3>5. PICK x \in Int, y \in Int, z \in Int :
            /\ x = (i - cached_get) % MaxFaults /\ y = (cached_put - cached_get) % MaxFaults
            /\ z = (put - cached_get) % MaxFaults
      <4>1. i \in Int /\ cached_get \in Int /\ cached_put \in Int /\ put \in Int
        BY <1>3, <3>2, PfBounds DEF PfBufferType
      <4>2. /\ (i - cached_get) % MaxFaults \in Int
            /\ (cached_put - cached_get) % MaxFaults \in Int
            /\ (put - cached_get) % MaxFaults \in Int
        BY <1>3, <3>2, <4>1, PfDistance, PfBounds DEF PfBufferType
      <4> QED
        BY <4>2
    <3>6. y <= z
      BY <1>3, <3>5 DEF PfPointers
    <3>7. x < z
      BY <3>4, <3>5, <3>6
    <3> QED
      BY <3>2, <3>5, <3>7 DEF InBuffer
  <2>3. f = [req |-> ring[i].req, channel |-> ring[i].channel, range |-> ring[i].range,
             is_fatal |-> ring[i].req.type = "fatal"]
    BY <1>b, <1>8, <2>1
  <2>4. PICK e \in PfEntry : e = ring[i]
    BY <1>3, <2>2 DEF PfBufferType
  <2>5. /\ f.req = e.req /\ f.channel = e.channel /\ f.range = e.range
        /\ f = [req |-> e.req, channel |-> e.channel, range |-> e.range,
                is_fatal |-> e.req.type = "fatal"]
    BY <2>3, <2>4
  <2>6. e.req \in Requests /\ e.channel \in {0, 1} /\ e.range \in {0, 1}
    BY <1>3, <2>2, <2>4 DEF PfEntries, PfEntry
  <2>7. f \in Faults
    <3>1. (e.req.type = "fatal") \in BOOLEAN
      OBVIOUS
    <3> QED
      BY <2>5, <2>6, <3>1 DEF Faults
  <2>8. ~Discarded(i)
    BY <1>2 DEF Discarded
  <2> QED
    BY <1>3, <1>8, <2>2, <2>4, <2>5, <2>7, <2>8 DEF PfEntries, Stale
<1>9. PfCacheType'
  <2>1. \A k \in 1..n : faults[k] \in Faults
    BY <1>8
  <2>2. faults = [k \in 1..n |-> faults[k]]
    BY <1>b
  <2>3. faults \in [1..n -> Faults]
    BY <2>1, <2>2
  <2> QED
    BY <1>1, <1>4, <2>3 DEF PfCacheType
<1>10. va_space = NoSpace /\ va_space' = NoSpace
  BY <1>2, <1>3 DEF PfControl
<1>11. PfFaults'
  <2>1. ASSUME NEW k \in 1..n, NEW f, f = faults[k], NEW s, s = f.req.space
        PROVE  f.channel = channel_gen[s] /\ channel[s] # "released" /\
               (f.range # range_gen[<<s, Block(f.req.page)>>]
                  => ~gpu_va_space[s] \/ (needs_fault_buffer_flush[s] /\ va_space' # s))
    <3>1. s \in Spaces
      <4>0. f \in Faults
        BY <1>8, <2>1
      <4>1. f.req \in Requests
        BY <4>0 DEF Faults
      <4> QED
        BY <2>1, <4>1, PfBounds
    <3> QED
      BY <1>8, <1>10, <2>1, <3>1, PfBounds
  <2> QED
    BY <1>1, <1>2, <2>1 DEF PfFaults, Stale
<1>12. PfPending'
  <2>1. ASSUME NEW u \in Utlbs
        PROVE  /\ num_pending_faults'[u] \in Nat
               /\ num_pending_faults'[u]
                    >= Cardinality({k \in todo' : fault_cache'[k].req.utlb = u})
    <3> DEFINE mine == {k \in 1..n : faults[k].req.utlb = u}
    <3>1. mine = {k \in todo' : fault_cache'[k].req.utlb = u} /\ mine \subseteq 1..n
      BY <1>1
    <3>2. num_pending_faults'[u] = num_pending_faults[u] + Cardinality(mine)
      BY <1>1
    <3> HIDE DEF mine
    <3>3. Cardinality(mine) \in Nat
      <4>1. 1 \in Int /\ n \in Int
        BY <1>4
      <4>2. IsFiniteSet(mine)
        BY <3>1, <4>1, FS_Interval, FS_Subset
      <4> QED
        BY <4>2, FS_CardinalityType
    <3>4. num_pending_faults[u] \in Nat
      BY <1>3
    <3>5. num_pending_faults'[u] \in Nat /\ num_pending_faults'[u] >= Cardinality(mine)
      BY <3>2, <3>3, <3>4
    <3> QED
      BY <3>1, <3>5
  <2> QED
    BY <1>1, <2>1 DEF PfPending
<1>13. PfControl' /\ PfSpaceType'
  BY <1>2, <1>3, <1>10 DEF PfControl, PfPc, PfSpaceType
<1>14. PfGenerations'
  BY <1>2, <1>3 DEF PfGenerations, Live, Waiting
<1>15. setup' \in PfSetup /\ request' \in [Requests -> PfStates]
  BY <1>2, <1>3
<1> QED
  BY <1>7, <1>9, <1>11, <1>12, <1>13, <1>14, <1>15 DEF PfInv

\* The threads leave the buffer alone, and what they change of a VA space keeps its entries
\* and faults attributed.
LEMMA PfThread ==
    ASSUME PfInv,
           UNCHANGED <<ring, put, cached_get, cached_put, fault_cache, num_pending_faults, pc,
                       mode, todo, va_space, flush>>,
           setup' \in PfSetup, request' \in [Requests -> PfStates], PfSpaceType',
           PfGenerations',
           \A s \in Spaces : channel[s] # "released" \/ pc = "flush" =>
             /\ channel_gen'[s] = channel_gen[s]
             /\ channel'[s] = "released" => channel[s] = "released"
             /\ \/ ~gpu_va_space'[s]
                \/ needs_fault_buffer_flush'[s] /\ va_space # s
                \/ /\ \A b \in Blocks : range_gen'[<<s, b>>] = range_gen[<<s, b>>]
                   /\ ~gpu_va_space[s] => ~gpu_va_space'[s]
                   /\ needs_fault_buffer_flush[s] => needs_fault_buffer_flush'[s]
    PROVE  PfInv'
<1>1. PfBufferType /\ PfPointers /\ PfCacheType /\ PfControl /\ PfPending /\ PfEntries
        /\ PfFaults
  BY DEF PfInv
<1>2. PfBufferType' /\ PfPointers' /\ PfCacheType' /\ PfControl' /\ PfPending'
  BY <1>1 DEF PfBufferType, PfPointers, PfCacheType, PfControl, PfPending, InBuffer
<1>3. PfEntries'
  <2>1. InBuffer(cached_get, put)' = InBuffer(cached_get, put)
    BY DEF InBuffer
  <2>2. \A i : Discarded(i)' <=> Discarded(i)
    BY DEF Discarded, InBuffer
  <2>3. ASSUME NEW i \in InBuffer(cached_get, put), NEW f, f = ring[i], NEW s, s = f.req.space
        PROVE  /\ f.req \in Requests /\ f.channel = channel_gen'[s]
               /\ channel'[s] = "released" => Discarded(i)
               /\ f.range # range_gen'[<<s, Block(f.req.page)>>]
                    => ~gpu_va_space'[s] \/ needs_fault_buffer_flush'[s] \/ Discarded(i)
    <3>1. /\ f.req \in Requests /\ f.channel = channel_gen[s]
          /\ channel[s] = "released" => Discarded(i)
          /\ f.range # range_gen[<<s, Block(f.req.page)>>]
               => ~gpu_va_space[s] \/ needs_fault_buffer_flush[s] \/ Discarded(i)
      BY <1>1, <2>3 DEF PfEntries, Stale
    <3>2. s \in Spaces /\ Block(f.req.page) \in Blocks
      BY <2>3, <3>1, PfBounds
    <3>3. channel[s] # "released" \/ pc = "flush"
      BY <3>1 DEF Discarded
    <3> QED
      BY <3>1, <3>2, <3>3
  <2> QED
    BY <2>1, <2>2, <2>3 DEF PfEntries, Stale
<1>4. PfFaults'
  <2>1. ASSUME NEW k \in todo, NEW f, f = fault_cache[k], NEW s, s = f.req.space
        PROVE  /\ f.channel = channel_gen'[s] /\ channel'[s] # "released"
               /\ f.range # range_gen'[<<s, Block(f.req.page)>>]
                    => ~gpu_va_space'[s] \/ (needs_fault_buffer_flush'[s] /\ va_space # s)
    <3>1. /\ f.channel = channel_gen[s] /\ channel[s] # "released"
          /\ f.range # range_gen[<<s, Block(f.req.page)>>]
               => ~gpu_va_space[s] \/ (needs_fault_buffer_flush[s] /\ va_space # s)
      BY <1>1, <2>1 DEF PfFaults, Stale
    <3>2. s \in Spaces /\ Block(f.req.page) \in Blocks
      <4>1. f.req \in Requests
        BY <1>1, <2>1 DEF PfCacheType, Faults
      <4> QED
        BY <2>1, <4>1, PfBounds
    <3> QED
      BY <3>1, <3>2
  <2> QED
    BY <2>1 DEF PfFaults, Stale
<1> QED
  BY <1>2, <1>3, <1>4 DEF PfInv

LEMMA PfChannelStop ==
    ASSUME PfInv, NEW s \in Spaces, uvm_user_channel_stop(s)
    PROVE  PfInv'
<1>1. /\ UNCHANGED <<setup, ring, put, cached_get, cached_put, fault_cache, num_pending_faults,
                     pc, mode, todo, va_space, flush>>
      /\ UNCHANGED <<channel_gen, range_gen, gpu_va_space, needs_fault_buffer_flush>>
      /\ "channel" \in setup.reuse /\ channel[s] = "bound"
      /\ channel' = [channel EXCEPT ![s] = "stopped"]
      /\ request' =
           [r \in Requests |-> IF r.space = s /\ Live(r) THEN "stopped" ELSE request[r]]
  BY DEF uvm_user_channel_stop, cache_vars, utlb_vars, bh_vars
<1>2. setup \in PfSetup /\ request \in [Requests -> PfStates] /\ PfSpaceType /\ PfGenerations
  BY DEF PfInv
<1>3. setup' \in PfSetup /\ request' \in [Requests -> PfStates] /\ PfSpaceType'
  BY <1>1, <1>2 DEF PfStates, PfSpaceType
<1>4. channel'[s] = "stopped" /\ \A x \in Spaces : x = s \/ channel'[x] = channel[x]
  BY <1>1, <1>2 DEF PfSpaceType
<1>5. PfGenerations'
  <2>1. channel_gen[s] = 0
    BY <1>1, <1>2 DEF PfGenerations, PfSpaceType
  <2>2. ASSUME NEW r \in Requests, channel'[r.space] # "bound"
        PROVE  ~Live(r)'
    <3>1. r.space \in Spaces
      BY PfBounds
    <3>2. CASE r.space = s /\ Live(r)
      BY <1>1, <3>2 DEF Live, Waiting
    <3>3. CASE r.space = s /\ ~Live(r)
      BY <1>1, <3>3 DEF Live, Waiting
    <3>4. CASE r.space # s
      <4>1. ~Live(r)
        BY <1>2, <1>4, <2>2, <3>1, <3>4 DEF PfGenerations
      <4> QED
        BY <1>1, <3>4, <4>1 DEF Live, Waiting
    <3> QED
      BY <3>2, <3>3, <3>4
  <2> QED
    BY <1>1, <1>2, <1>4, <2>1, <2>2 DEF PfGenerations
<1> QED
  BY <1>1, <1>3, <1>4, <1>5, PfThread

LEMMA PfChannelDetach ==
    ASSUME PfInv, NEW s \in Spaces, uvm_user_channel_detach(s)
    PROVE  PfInv'
<1>1. /\ UNCHANGED <<setup, request, ring, put, cached_get, cached_put, fault_cache,
                     num_pending_faults, pc, mode, todo, va_space, flush, channel_gen,
                     range_gen>>
      /\ channel[s] = "stopped" /\ va_space # s
      /\ channel' = [channel EXCEPT ![s] = "detached"]
      /\ \/ UNCHANGED <<gpu_va_space, needs_fault_buffer_flush>>
         \/ /\ gpu_va_space' = [gpu_va_space EXCEPT ![s] = FALSE]
            /\ needs_fault_buffer_flush' = [needs_fault_buffer_flush EXCEPT ![s] = FALSE]
  BY DEF uvm_user_channel_detach, WriteLocked, gpu_vars, cache_vars, utlb_vars, bh_vars
<1>2. setup \in PfSetup /\ request \in [Requests -> PfStates] /\ PfSpaceType /\ PfGenerations
  BY DEF PfInv
<1>3. channel'[s] = "detached" /\ \A x \in Spaces : x = s \/ channel'[x] = channel[x]
  BY <1>1, <1>2 DEF PfSpaceType
<1>4. PfGenerations'
  <2>1. \A r \in Requests : channel'[r.space] # "bound" => channel[r.space] # "bound"
    BY <1>1, <1>3, PfBounds
  <2> QED
    BY <1>1, <1>2, <1>3, <2>1 DEF PfGenerations, Live, Waiting
<1>5. setup' \in PfSetup /\ request' \in [Requests -> PfStates] /\ PfSpaceType'
  BY <1>1, <1>2 DEF PfSpaceType
<1>6. ASSUME NEW x \in Spaces
      PROVE  \/ ~gpu_va_space'[x]
             \/ /\ ~gpu_va_space[x] => ~gpu_va_space'[x]
                /\ needs_fault_buffer_flush[x] => needs_fault_buffer_flush'[x]
  <2>1. CASE UNCHANGED <<gpu_va_space, needs_fault_buffer_flush>>
    BY <2>1
  <2>2. CASE /\ gpu_va_space' = [gpu_va_space EXCEPT ![s] = FALSE]
             /\ needs_fault_buffer_flush' = [needs_fault_buffer_flush EXCEPT ![s] = FALSE]
    BY <1>2, <2>2 DEF PfSpaceType
  <2> QED
    BY <1>1, <2>1, <2>2
<1> QED
  BY <1>1, <1>3, <1>4, <1>5, <1>6, PfThread

LEMMA PfChannelFree ==
    ASSUME PfInv, NEW s \in Spaces, uvm_deferred_free_object_channel(s)
    PROVE  PfInv'
<1>1. /\ UNCHANGED <<setup, request, ring, put, cached_get, fault_cache, num_pending_faults,
                     mode, todo, va_space>>
      /\ UNCHANGED <<channel_gen, range_gen, gpu_va_space, needs_fault_buffer_flush>>
      /\ channel[s] = "detached" /\ channel' = [channel EXCEPT ![s] = "released"]
      /\ pc = "idle" /\ pc' = "flush" /\ cached_put' = put
      /\ flush' = [type |-> "START", ret |-> "idle"]
  BY DEF uvm_deferred_free_object_channel, gpu_vars, cache_vars, utlb_vars,
     fault_buffer_flush_locked
<1>2. /\ setup \in PfSetup /\ request \in [Requests -> PfStates] /\ PfSpaceType /\ PfControl
      /\ PfCacheType /\ PfGenerations /\ num_pending_faults \in [Utlbs -> Nat]
  BY DEF PfInv, PfPending
<1>3. PfBufferType' /\ PfPointers' /\ PfEntries'
  BY <1>1, PfFlushStarts
<1>4. todo' = {} /\ mode' = "REGULAR" /\ va_space' = NoSpace
  BY <1>1, <1>2 DEF PfControl
<1>5. PfCacheType' /\ PfFaults' /\ PfPending'
  BY <1>1, <1>2, <1>4, PfNoBatch
<1>6. PfControl'
  BY <1>1, <1>4 DEF PfControl, PfPc
<1>7. channel'[s] = "released" /\ \A x \in Spaces : x = s \/ channel'[x] = channel[x]
  BY <1>1, <1>2 DEF PfSpaceType
<1>8. PfGenerations'
  <2>1. \A r \in Requests : channel'[r.space] # "bound" => channel[r.space] # "bound"
    BY <1>1, <1>7, PfBounds
  <2> QED
    BY <1>1, <1>2, <1>7, <2>1 DEF PfGenerations, Live, Waiting
<1>9. setup' \in PfSetup /\ request' \in [Requests -> PfStates] /\ PfSpaceType'
  BY <1>1, <1>2 DEF PfSpaceType
<1> QED
  BY <1>3, <1>5, <1>6, <1>8, <1>9 DEF PfInv

LEMMA PfChannelRegister ==
    ASSUME PfInv, NEW s \in Spaces, uvm_register_channel(s)
    PROVE  PfInv'
<1>1. /\ UNCHANGED <<request, ring, put, cached_get, cached_put, fault_cache,
                     num_pending_faults, pc, mode, todo, va_space, flush, range_gen,
                     needs_fault_buffer_flush>>
      /\ channel[s] = "released" /\ pc # "flush"
      /\ channel' = [channel EXCEPT ![s] = "bound"]
      /\ channel_gen' = [channel_gen EXCEPT ![s] = channel_gen[s] + 1]
      /\ gpu_va_space' = [gpu_va_space EXCEPT ![s] = TRUE]
      /\ setup' = [setup EXCEPT !.reuse = setup.reuse \ {"channel"}]
  BY DEF uvm_register_channel, gpu_vars, cache_vars, utlb_vars, bh_vars
<1>2. setup \in PfSetup /\ request \in [Requests -> PfStates] /\ PfSpaceType /\ PfGenerations
  BY DEF PfInv
<1>3. setup' \in PfSetup /\ setup'.reuse = setup.reuse \ {"channel"}
  <2>1. setup.reuse \ {"channel"} \in SUBSET {"channel", "range"}
    BY <1>2 DEF PfSetup
  <2>2. PICK q : q = [setup EXCEPT !.reuse = setup.reuse \ {"channel"}]
    OBVIOUS
  <2>3. q \in PfSetup /\ q.reuse = setup.reuse \ {"channel"}
    BY <1>2, <2>1, <2>2 DEF PfSetup
  <2> QED
    BY <1>1, <2>2, <2>3, Zenon
<1>4. channel_gen[s] = 0
  BY <1>1, <1>2 DEF PfGenerations
<1>5. /\ channel'[s] = "bound" /\ channel_gen'[s] = 1
      /\ \A x \in Spaces : \/ x = s
                           \/ /\ channel'[x] = channel[x] /\ channel_gen'[x] = channel_gen[x]
                              /\ gpu_va_space'[x] = gpu_va_space[x]
  <2>1. channel'[s] = "bound" /\ \A x \in Spaces : x = s \/ channel'[x] = channel[x]
    BY <1>1, <1>2 DEF PfSpaceType
  <2>2. channel_gen'[s] = 1 /\ \A x \in Spaces : x = s \/ channel_gen'[x] = channel_gen[x]
    <3>1. channel_gen' = [channel_gen EXCEPT ![s] = 1]
      BY <1>1, <1>4
    <3> QED
      BY <1>2, <3>1 DEF PfSpaceType
  <2>3. \A x \in Spaces : x = s \/ gpu_va_space'[x] = gpu_va_space[x]
    BY <1>1, <1>2 DEF PfSpaceType
  <2> QED
    BY <2>1, <2>2, <2>3
<1>6. request' \in [Requests -> PfStates] /\ PfSpaceType'
  <2>1. channel_gen' = [channel_gen EXCEPT ![s] = 1]
    BY <1>1, <1>4
  <2>2. channel_gen' \in [Spaces -> {0, 1}]
    BY <1>2, <2>1 DEF PfSpaceType
  <2>3. channel' \in [Spaces -> {"bound", "stopped", "detached", "released"}]
    BY <1>1, <1>2 DEF PfSpaceType
  <2>4. gpu_va_space' \in [Spaces -> BOOLEAN]
    BY <1>1, <1>2 DEF PfSpaceType
  <2> QED
    BY <1>1, <1>2, <2>2, <2>3, <2>4 DEF PfSpaceType
<1>7. PfGenerations'
  <2>1. \A r \in Requests : channel'[r.space] # "bound" => channel[r.space] # "bound"
    BY <1>1, <1>5, PfBounds
  <2> QED
    BY <1>1, <1>2, <1>3, <1>5, <2>1 DEF PfGenerations, Live, Waiting
<1>8. ASSUME NEW x \in Spaces, channel[x] # "released"
      PROVE  /\ channel_gen'[x] = channel_gen[x] /\ channel'[x] = channel[x]
             /\ gpu_va_space'[x] = gpu_va_space[x]
  BY <1>1, <1>5, <1>8
<1> QED
  BY <1>1, <1>3, <1>6, <1>7, <1>8, PfThread

LEMMA PfRangeClosed ==
    ASSUME PfInv, NEW s \in Spaces, NEW b \in Blocks, uvm_vm_close_managed(s, b)
    PROVE  PfInv'
<1>1. /\ UNCHANGED <<request, ring, put, cached_get, cached_put, fault_cache,
                     num_pending_faults, pc, mode, todo, va_space, flush, channel, channel_gen,
                     gpu_va_space>>
      /\ "range" \in setup.reuse /\ va_space # s
      /\ range_gen' = [range_gen EXCEPT ![<<s, b>>] = range_gen[<<s, b>>] + 1]
      /\ setup' = [setup EXCEPT !.reuse = setup.reuse \ {"range"}]
      /\ needs_fault_buffer_flush' = [needs_fault_buffer_flush EXCEPT ![s] =
            needs_fault_buffer_flush[s] \/ gpu_va_space[s]]
  BY DEF uvm_vm_close_managed, WriteLocked, gpu_vars, cache_vars, utlb_vars, bh_vars
<1>2. setup \in PfSetup /\ request \in [Requests -> PfStates] /\ PfSpaceType /\ PfGenerations
  BY DEF PfInv
<1>3. setup' \in PfSetup /\ setup'.reuse = setup.reuse \ {"range"}
  <2>1. setup.reuse \ {"range"} \in SUBSET {"channel", "range"}
    BY <1>2 DEF PfSetup
  <2>2. PICK q : q = [setup EXCEPT !.reuse = setup.reuse \ {"range"}]
    OBVIOUS
  <2>3. q \in PfSetup /\ q.reuse = setup.reuse \ {"range"}
    BY <1>2, <2>1, <2>2 DEF PfSetup
  <2> QED
    BY <1>1, <2>2, <2>3, Zenon
<1>4. PICK x : x = <<s, b>>
  OBVIOUS
<1>5. x \in Spaces \X Blocks /\ range_gen[x] = 0
  BY <1>1, <1>2, <1>4 DEF PfGenerations, PfSpaceType
<1>6. range_gen' = [range_gen EXCEPT ![x] = 1]
  BY <1>1, <1>4, <1>5
<1>7. range_gen' \in [Spaces \X Blocks -> {0, 1}]
      /\ \A y \in Spaces \X Blocks : y = x \/ range_gen'[y] = range_gen[y]
  BY <1>2, <1>5, <1>6 DEF PfSpaceType
<1>8. needs_fault_buffer_flush' \in [Spaces -> BOOLEAN]
      /\ (gpu_va_space[s] => needs_fault_buffer_flush'[s])
      /\ \A t \in Spaces : t = s \/ needs_fault_buffer_flush'[t] = needs_fault_buffer_flush[t]
  BY <1>1, <1>2 DEF PfSpaceType
<1>9. PfSpaceType' /\ request' \in [Requests -> PfStates]
  BY <1>1, <1>2, <1>7, <1>8 DEF PfSpaceType
<1>10. PfGenerations'
  BY <1>1, <1>2, <1>3 DEF PfGenerations, Live, Waiting
<1>11. ASSUME NEW t \in Spaces
       PROVE  \/ ~gpu_va_space'[t]
              \/ needs_fault_buffer_flush'[t] /\ va_space # t
              \/ /\ \A c \in Blocks : range_gen'[<<t, c>>] = range_gen[<<t, c>>]
                 /\ needs_fault_buffer_flush[t] => needs_fault_buffer_flush'[t]
  <2>1. CASE t = s
    BY <1>1, <1>8, <2>1
  <2>2. CASE t # s
    <3>1. \A c \in Blocks : <<t, c>> \in Spaces \X Blocks /\ <<t, c>> # x
      BY <1>4, <2>2
    <3> QED
      BY <1>7, <1>8, <2>2, <3>1
  <2> QED
    BY <2>1, <2>2
<1> QED
  BY <1>1, <1>3, <1>9, <1>10, <1>11, PfThread

LEMMA PfMapped ==
    ASSUME PfInv, NEW s \in Spaces, NEW b \in Blocks, uvm_mmap(s, b)
    PROVE  PfInv'
<1>1. /\ UNCHANGED <<setup, request, ring, put, cached_get, cached_put, fault_cache,
                     num_pending_faults, pc, mode, todo, va_space, flush>>
      /\ UNCHANGED <<channel, channel_gen, range_gen, gpu_va_space, needs_fault_buffer_flush>>
  BY DEF uvm_mmap, gpu_vars, cache_vars, utlb_vars, bh_vars
<1>2. setup \in PfSetup /\ request \in [Requests -> PfStates] /\ PfSpaceType /\ PfGenerations
  BY DEF PfInv
<1>3. setup' \in PfSetup /\ request' \in [Requests -> PfStates] /\ PfSpaceType'
        /\ PfGenerations'
  BY <1>1, <1>2 DEF PfSpaceType, PfGenerations, Live, Waiting
<1> QED
  BY <1>1, <1>3, PfThread

LEMMA PfStep ==
    ASSUME PfInv, PfNext
    PROVE  PfInv'
<1>1. CASE Gpu
  BY <1>1, PfGpuQuiet, PfRequests, PfEntryWritten DEF Gpu
<1>2. CASE uvm8_isr_top_half
  BY <1>2, PfLoop
<1>3. CASE BottomHalf
  BY <1>3, PfLoop, PfBatch, PfCancel, PfService, PfServiceFlush, PfFlush, PfFetch DEF BottomHalf
<1>4. CASE Threads
  BY <1>4, PfChannelStop, PfChannelDetach, PfChannelFree, PfChannelRegister, PfRangeClosed,
     PfMapped
     DEF Threads
<1> QED
  BY <1>1, <1>2, <1>3, <1>4 DEF PfNext

\* Nothing changes.
LEMMA PfStutter ==
    ASSUME PfInv, UNCHANGED pf_vars
    PROVE  PfInv'
<1>1. /\ UNCHANGED <<setup, request, ring, put, cached_get, cached_put, fault_cache,
                     num_pending_faults, pc, mode, todo, va_space, flush>>
      /\ UNCHANGED <<channel, channel_gen, range_gen, gpu_va_space, needs_fault_buffer_flush>>
  BY DEF pf_vars, gpu_vars, cache_vars, utlb_vars, bh_vars, space_vars
<1>2. setup \in PfSetup /\ request \in [Requests -> PfStates] /\ PfSpaceType /\ PfGenerations
  BY DEF PfInv
<1>3. setup' \in PfSetup /\ request' \in [Requests -> PfStates] /\ PfSpaceType'
        /\ PfGenerations'
  BY <1>1, <1>2 DEF PfSpaceType, PfGenerations, Live, Waiting
<1> QED
  BY <1>1, <1>3, PfThread

LEMMA PfExact ==
    ASSUME PfInv
    PROVE  BufferExact
<1>1. PfTypeOK
  <2>1. \A k \in DOMAIN fault_cache : fault_cache[k] \in Faults
    BY DEF PfInv, PfCacheType
  <2>2. mode = "CANCEL" => pc # "idle"
    BY DEF PfInv, PfControl
  <2> QED
    BY <2>1, <2>2 DEF PfInv, PfBufferType, PfCacheType, PfPending, PfTypeOK, PfStates
<1>2. BufferInStep
  BY <1>1 DEF PfInv, PfPointers, BufferInStep
<1>3. Attributed
  <2> SUFFICES ASSUME Servicing, gpu_va_space[Current.req.space], NEW k \in todo,
                      NEW f, f = fault_cache[k], NEW s, s = f.req.space, s = Current.req.space
               PROVE  f.channel = channel_gen[s]
                        /\ f.range = range_gen[<<s, Block(f.req.page)>>]
    BY DEF Attributed
  <2>1. f.channel = channel_gen[s]
        /\ (f.range # range_gen[<<s, Block(f.req.page)>>]
             => ~gpu_va_space[s] \/ (needs_fault_buffer_flush[s] /\ va_space # s))
    BY DEF PfInv, PfFaults, Stale
  <2>2. s = va_space \/ ~needs_fault_buffer_flush[s]
    BY DEF Servicing, MustFlush
  <2> QED
    BY <2>1, <2>2
<1> QED
  BY <1>2, <1>3 DEF BufferExact

(***************************************************************************)
(* GET, the cached PUT and the valid bits stay in step with the GPU's PUT: *)
(* no entry is skipped and none is read twice.  And what                   *)
(* service_fault_batch services belongs to the channel and to the range    *)
(* that are there: an instance pointer is released, and a range freed,     *)
(* only with a flush done or a flush owed (uvm8_va_space.c:1156,           *)
(* uvm8.c:300), and the owed one comes before the VA space's next fault.   *)
(***************************************************************************)
THEOREM FaultsAreAttributed == PfSpec => []BufferExact
<1>1. PfInv /\ [PfNext]_pf_vars => PfInv'
  BY PfStep, PfStutter
<1>2. PfInv => BufferExact
  BY PfExact
<1> QED
  BY <1>1, <1>2, PfInitInv, PTL DEF PfSpec
===============================================================================
