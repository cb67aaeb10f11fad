------------------------- MODULE PushPipeline_proofs -------------------------
(***************************************************************************)
(* Proofs about the push pipeline, for any number of threads, channels and *)
(* chunks, any sizes of rings, chunks and pushes, and any payload that can *)
(* tell a ring's entries apart.                                            *)
(***************************************************************************)
EXTENDS PushPipeline, FiniteSetTheorems, SequenceTheorems, WellFoundedInduction, TLAPS

(***************************************************************************)
(* The inductive invariant.                                                *)
(***************************************************************************)
PushType ==
    [channel : Channels, any : BOOLEAN, failed : BOOLEAN, chunk : Chunks,
     begin : 0 .. ChunkSize, info : Entries, entry : Entries]
EntryType ==
    [value : Nat, chunk : Chunks, start : 0 .. ChunkSize, size : 1 .. MaxPushSize, info : Entries]
UpdateType ==
    [todo : Seq(Channels \X Nat \X BOOLEAN), completed : Nat, count : Nat,
     return : {"idle", "claim", "chunk"}]

PipeTypes ==
    /\ TypeOK
    /\ gpfifo_entries \in [Channels -> [Entries -> EntryType]]
    /\ push \in [Threads -> PushType]
    /\ update \in [Threads -> UpdateType]
    /\ pending_gpfifos \in [Chunks -> Seq(Channels \X Entries)]
    /\ \A t \in Threads : pc[t] \in UpdatePCs => update[t].todo # <<>>

\* Published entries of a channel that have not been given back; how long ago
\* an entry was written, in pushes; whether it is one of them.
Kept(c) ==
    cpu_put[c] - gpu_get[c] + IF cpu_put[c] >= gpu_get[c] THEN 0 ELSE numGpFifoEntries
Age(c, i) == cpu_put[c] - i + IF i < cpu_put[c] THEN 0 ELSE numGpFifoEntries
InRing(c, i) == Age(c, i) <= Kept(c)

\* The ring has room for every reservation, an entry's value follows from its
\* place, and what was given back the driver knew to be complete.
RingShape(c) ==
    /\ Kept(c) + current_pushes_count[c] < numGpFifoEntries
    /\ Kept(c) <= queued_value[c]
    /\ queued_value[c] - Kept(c) <= completed_value[c]
    /\ completed_value[c] <= released[c]
    /\ released[c] <= queued_value[c]
    /\ \A i \in Entries :
          gpfifo_entries[c][i].value =
              IF Age(c, i) <= queued_value[c] THEN queued_value[c] - Age(c, i) + 1 ELSE 0

\* An update completes only what the driver has been told is complete.
UpdateShape(t) ==
    pc[t] \in {"lock", "mark"} =>
        update[t].completed <= completed_value[update[t].todo[1][1]]

\* Each reservation is counted by its channel.
Holders(c) == {t \in Threads : push[t].channel = c /\ Reserved(t)}
HoldersShape(c) ==
    IsFiniteSet(Holders(c)) /\ Cardinality(Holders(c)) <= current_pushes_count[c]

\* Each thread past the semaphore has one of its units.
Where(t) == IF pc[t] \in UpdatePCs THEN update[t].return ELSE pc[t]
Past == {"chunk_first", "chunk", "index", "push", "end", "up"}
Admitted == {t \in Threads : Where(t) \in Past}
AdmittedShape ==
    IsFiniteSet(Admitted) /\ concurrent_pushes_sema + Cardinality(Admitted) <= NumChunks

\* Extents of a chunk, in the order of its list: each within the chunk, no two
\* overlap, and one follows the other around the ring.
Apart(d, e) == d.start + d.size <= e.start \/ e.start + e.size <= d.start
Around(a, b, c) == (a < b /\ b < c) \/ (b < c /\ c < a) \/ (c < a /\ a < b)
Laid(list) ==
    /\ \A n \in 1 .. Len(list) : list[n].start + list[n].size <= ChunkSize
    /\ \A m, n \in 1 .. Len(list) : m < n => Apart(list[m], list[n])
    /\ \A l, m, n \in 1 .. Len(list) :
          l < m /\ m < n => Around(list[l].start, list[m].start, list[n].start)

\* A push of the largest size can start at s, and comes last around the ring.
Clear(e, s) == e.start + e.size <= s \/ s + MaxPushSize <= e.start
Fits(list, s) ==
    /\ s + MaxPushSize <= ChunkSize
    /\ \A n \in 1 .. Len(list) : Clear(list[n], s)
    /\ \A m, n \in 1 .. Len(list) : m < n => Around(list[m].start, list[n].start, s)

Extents(k) == [n \in DOMAIN pending_gpfifos[k] |-> EntryAt(pending_gpfifos[k][n])]

\* An available chunk has room where next_push_start says.
MapShape(k) ==
    /\ k \in available_chunks =>
          current_push[k] = NoThread /\ Fits(Extents(k), next_push_start[k])
    /\ k \in idle_chunks => k \in available_chunks
    /\ k \in idle_chunks <=> pending_gpfifos[k] = <<>> /\ current_push[k] = NoThread

\* A chunk's list holds pending entries of that chunk, laid around it.
ListShape(k) ==
    /\ Laid(Extents(k))
    /\ \A n \in 1 .. Len(pending_gpfifos[k]) :
          LET e == pending_gpfifos[k][n] IN EntryAt(e).chunk = k /\ InRing(e[1], e[2])

\* A thread with a chunk has it alone, and room in it; its entry, once
\* published, is pending but not listed yet.
Writing(t) == pc[t] \in {"index", "push", "end"}
PushShape(t) ==
    /\ Writing(t) => /\ current_push[push[t].chunk] = t
                     /\ Fits(Extents(push[t].chunk), push[t].begin)
    /\ pc[t] = "end" =>
          LET c == push[t].channel  i == push[t].entry IN
          /\ InRing(c, i)
          /\ gpfifo_entries[c][i].chunk = push[t].chunk
          /\ gpfifo_entries[c][i].start = push[t].begin
          /\ \A n \in 1 .. Len(pending_gpfifos[push[t].chunk]) :
                pending_gpfifos[push[t].chunk][n] # <<c, i>>

\* A pending entry is listed, or about to be.
Listed(c, i) ==
    LET list == pending_gpfifos[gpfifo_entries[c][i].chunk] IN
    \E n \in 1 .. Len(list) : list[n] = <<c, i>>
Ending(c, i) == \E t \in Threads : pc[t] = "end" /\ push[t].channel = c /\ push[t].entry = i
Traced == \A c \in Channels, i \in Entries : InRing(c, i) => Listed(c, i) \/ Ending(c, i)

PipeInv ==
    /\ PipeTypes
    /\ \A c \in Channels : RingShape(c) /\ HoldersShape(c)
    /\ \A t \in Threads : UpdateShape(t) /\ PushShape(t)
    /\ AdmittedShape
    /\ \A k \in Chunks : MapShape(k) /\ ListShape(k)
    /\ Traced
-----------------------------------------------------------------------------
(***************************************************************************)
(* Facts about numbers, sets and sequences.                                *)
(***************************************************************************)
\* Stated for the finite initial segments, which inclusion orders.
LEMMA LeastElement ==
  ASSUME NEW S \in SUBSET Nat, S # {}
  PROVE  Lowest(S) \in S /\ \A j \in S : Lowest(S) <= j
<1> DEFINE T == {0 .. k : k \in S}
<1>1. T \subseteq FiniteSubsetsOf(Nat) /\ T # {}
  <2>1. \A k \in S : IsFiniteSet(0 .. k) /\ 0 .. k \subseteq Nat
    BY FS_Interval
  <2>2. QED BY <2>1 DEF FiniteSubsetsOf
<1>2. PICK x \in T : \A y \in T : ~(<<y, x>> \in StrictSubsetOrdering(Nat))
  BY <1>1, FS_StrictSubsetOrderingWellFounded, WFMin
<1>3. PICK k \in S : x = 0 .. k
  OBVIOUS
<1>4. ASSUME NEW j \in S
      PROVE  k <= j
  <2>1. SUFFICES ASSUME ~(k <= j)
                 PROVE  FALSE
    OBVIOUS
  <2>2. j \in Nat /\ k \in Nat /\ j < k
    BY <2>1
  <2>3. 0 .. j \subseteq 0 .. k /\ k \in 0 .. k /\ k \notin 0 .. j
    BY <2>2
  <2>4. 0 .. j \in T /\ 0 .. j \in SUBSET Nat /\ 0 .. k \in SUBSET Nat
    BY <2>2
  <2>5. <<0 .. j, 0 .. k>> \in StrictSubsetOrdering(Nat)
    <3>1. 0 .. j # 0 .. k
      BY <2>3
    <3> HIDE DEF T
    <3>2. QED BY <2>3, <2>4, <3>1 DEF StrictSubsetOrdering
  <2>6. QED BY <1>2, <1>3, <2>4, <2>5
<1>5. QED BY <1>4 DEF Lowest

\* The remainders the ring indices take.
LEMMA RingModulo ==
  ASSUME NEW x \in Nat
  PROVE  /\ x < numGpFifoEntries => x % numGpFifoEntries = x
         /\ x >= numGpFifoEntries /\ x < 2 * numGpFifoEntries
                => x % numGpFifoEntries = x - numGpFifoEntries
         /\ x % numGpFifoEntries \in Entries
<1> DEFINE N == numGpFifoEntries
           q == x \div N
           r == x % N
<1>1. N \in Nat /\ N > 0
  BY PushPipelineAssumption
<1>2. q \in Int /\ r \in 0 .. (N - 1) /\ x = N * q + r
  BY <1>1
<1> HIDE DEF q, r, N
<1>3. q >= 0
  <2>1. CASE q <= -1
    <3>1. N * q <= N * (-1) BY <1>1, <1>2, <2>1
    <3>2. N * (-1) = -N BY <1>1
    <3>3. N * q \in Int BY <1>1, <1>2
    <3>4. QED BY <1>1, <1>2, <3>1, <3>2, <3>3
  <2>2. QED BY <1>2, <2>1
<1>4. x < N => q = 0
  <2>1. CASE q >= 1
    <3>1. N * q >= N * 1 BY <1>1, <1>2, <2>1
    <3>2. N * q \in Int BY <1>1, <1>2
    <3>3. QED BY <1>1, <1>2, <3>1, <3>2
  <2>2. QED BY <1>2, <1>3, <2>1
<1>5. x >= N /\ x < 2 * N => q = 1
  <2>1. CASE q >= 2
    <3>1. N * q >= N * 2 BY <1>1, <1>2, <2>1
    <3>2. N * q \in Int BY <1>1, <1>2
    <3>3. QED BY <1>1, <1>2, <3>1, <3>2
  <2>2. CASE q = 0
    <3>1. N * q = 0 BY <1>1, <2>2
    <3>2. QED BY <1>1, <1>2, <3>1
  <2>3. QED BY <1>2, <1>3, <2>1, <2>2
<1>6. N * 0 = 0 /\ N * 1 = N
  BY <1>1
<1>7. (x < N => r = x) /\ (x >= N /\ x < 2 * N => r = x - N)
  BY <1>1, <1>2, <1>4, <1>5, <1>6
<1>8. QED BY <1>2, <1>7 DEF r, N, Entries

\* One member more, one less, or the same.
LEMMA OneMoves ==
  ASSUME NEW S, IsFiniteSet(S), NEW T, NEW t, \A u : u # t => (u \in T <=> u \in S)
  PROVE  /\ IsFiniteSet(T) /\ Cardinality(S) \in Nat /\ Cardinality(T) \in Nat
         /\ t \in S /\ t \in T => Cardinality(T) = Cardinality(S)
         /\ t \notin S /\ t \notin T => Cardinality(T) = Cardinality(S)
         /\ t \notin S /\ t \in T => Cardinality(T) = Cardinality(S) + 1
         /\ t \in S /\ t \notin T => Cardinality(T) = Cardinality(S) - 1
<1>1. CASE t \in S <=> t \in T
  <2>1. S = T BY <1>1
  <2>2. QED BY <1>1, <2>1, FS_CardinalityType
<1>2. CASE t \notin S /\ t \in T
  <2>1. T = S \cup {t} BY <1>2
  <2>2. QED BY <1>2, <2>1, FS_CardinalityType, FS_AddElement
<1>3. CASE t \in S /\ t \notin T
  <2>1. T = S \ {t} BY <1>3
  <2>2. QED BY <1>3, <2>1, FS_CardinalityType, FS_RemoveElement
<1>4. QED BY <1>1, <1>2, <1>3

\* What removing the element at a place leaves.
LEMMA RemoveAtIs ==
  ASSUME NEW S, NEW s \in Seq(S), NEW i \in 1 .. Len(s), NEW r, r = RemoveAt(s, i)
  PROVE  /\ r \in Seq(S) /\ Len(r) = Len(s) - 1
         /\ \A j \in 1 .. Len(r) : r[j] = IF j < i THEN s[j] ELSE s[j + 1]
<1>1. /\ SubSeq(s, 1, i - 1) \in Seq(S) /\ Len(SubSeq(s, 1, i - 1)) = i - 1
      /\ \A j \in 1 .. (i - 1) : SubSeq(s, 1, i - 1)[j] = s[j]
  BY SubSeqProperties
<1>2. /\ SubSeq(s, i + 1, Len(s)) \in Seq(S) /\ Len(SubSeq(s, i + 1, Len(s))) = Len(s) - i
      /\ \A j \in 1 .. (Len(s) - i) : SubSeq(s, i + 1, Len(s))[j] = s[i + j]
  BY SubSeqProperties
<1>3. ASSUME NEW a \in Seq(S), NEW b \in Seq(S), Len(a) = i - 1, Len(b) = Len(s) - i,
             \A j \in 1 .. (i - 1) : a[j] = s[j],
             \A j \in 1 .. (Len(s) - i) : b[j] = s[i + j], r = a \o b
      PROVE  /\ r \in Seq(S) /\ Len(r) = Len(s) - 1
             /\ \A j \in 1 .. Len(r) : r[j] = IF j < i THEN s[j] ELSE s[j + 1]
  <2>0. /\ a \o b \in Seq(S) /\ Len(a \o b) = Len(a) + Len(b)
        /\ \A j \in 1 .. Len(a) + Len(b) :
              (a \o b)[j] = IF j <= Len(a) THEN a[j] ELSE b[j - Len(a)]
    BY ConcatProperties
  <2>1. /\ r \in Seq(S) /\ Len(r) = Len(a) + Len(b)
        /\ \A j \in 1 .. Len(a) + Len(b) : r[j] = IF j <= Len(a) THEN a[j] ELSE b[j - Len(a)]
    BY <1>3, <2>0, Zenon
  <2>2. Len(s) \in Nat /\ i \in Nat /\ i >= 1 /\ Len(r) = Len(s) - 1
    BY <1>3, <2>1
  <2>3. ASSUME NEW j \in 1 .. Len(r)
        PROVE  r[j] = IF j < i THEN s[j] ELSE s[j + 1]
    <3>1. CASE j < i
      BY <1>3, <2>1, <2>2, <3>1
    <3>2. CASE ~(j < i)
      <4>1. j - (i - 1) \in 1 .. (Len(s) - i) /\ i + (j - (i - 1)) = j + 1
        BY <2>2, <3>2
      <4>2. b[j - (i - 1)] = s[j + 1]
        BY <1>3, <4>1
      <4>3. QED BY <1>3, <2>1, <2>2, <3>2, <4>2
    <3>3. QED BY <3>1, <3>2
  <2>4. QED BY <2>1, <2>2, <2>3
<1>4. QED BY <1>1, <1>2, <1>3 DEF RemoveAt

-----------------------------------------------------------------------------
(***************************************************************************)
(* The chunk's ring.                                                       *)
(***************************************************************************)
\* Where update_chunk finds space, a push fits, after all those of the list.
LEMMA SpaceFits ==
  ASSUME NEW X \in Seq(EntryType), Laid(X), SpaceFor(X) # NoSpace
  PROVE  SpaceFor(X) \in 0 .. ChunkSize /\ Fits(X, SpaceFor(X))
<1> DEFINE L == Len(X)
           start(n) == X[n].start
           end(n) == X[n].start + X[n].size
<1>1. L \in Nat /\ (X # <<>> => L >= 1) /\ (X = <<>> => L = 0)
  BY EmptySeq, LenProperties
<1>2. /\ MaxPushSize \in Nat /\ MaxPushSize > 0 /\ ChunkSize \in Nat /\ MaxPushSize <= ChunkSize
  BY ChunkRingAssumption
<1>3. \A n \in 1 .. L : X[n] \in EntryType
  BY ElementOfSeq
<1>4. \A n \in 1 .. L : /\ start(n) \in Int /\ end(n) \in Int /\ 0 <= start(n)
                        /\ start(n) < end(n) /\ end(n) <= ChunkSize
  <2> SUFFICES ASSUME NEW n \in 1 .. L
               PROVE  /\ start(n) \in Int /\ end(n) \in Int /\ 0 <= start(n)
                      /\ start(n) < end(n) /\ end(n) <= ChunkSize
    OBVIOUS
  <2>1. X[n].start + X[n].size <= ChunkSize
    BY DEF Laid
  <2>2. X[n].start \in 0 .. ChunkSize /\ X[n].size \in 1 .. MaxPushSize
    BY <1>3 DEF EntryType
  <2>3. QED BY <1>2, <2>1, <2>2
<1>5. \A m, n \in 1 .. L : m < n => end(m) <= start(n) \/ end(n) <= start(m)
  BY DEF Laid, Apart
<1>6. \A l, m, n \in 1 .. L : l < m /\ m < n => Around(start(l), start(m), start(n))
  BY DEF Laid
<1>7. SpaceFor(X) = IF X = <<>> THEN 0
                    ELSE IF start(1) = end(L) THEN NoSpace
                    ELSE IF start(1) > end(L)
                         THEN IF start(1) - end(L) >= MaxPushSize THEN end(L) ELSE NoSpace
                    ELSE IF ChunkSize >= end(L) + MaxPushSize THEN end(L)
                    ELSE IF start(1) >= MaxPushSize THEN 0
                    ELSE NoSpace
  BY DEF SpaceFor, chunk_get_gpu_get, chunk_get_cpu_put
<1>s. SUFFICES ASSUME NEW s, s = SpaceFor(X), s # NoSpace
               PROVE  /\ s \in 0 .. ChunkSize /\ s + MaxPushSize <= ChunkSize
                      /\ \A n \in 1 .. L : end(n) <= s \/ s + MaxPushSize <= start(n)
                      /\ \A m, n \in 1 .. L : m < n => Around(start(m), start(n), s)
  BY DEF Fits, Clear
<1> HIDE DEF L, start, end
<1>8. CASE X = <<>>
  BY <1>s, <1>1, <1>2, <1>7, <1>8
<1>9. CASE X # <<>>
  <2>1. 1 \in 1 .. L /\ L \in 1 .. L
    BY <1>1, <1>9
  <2>2. CASE start(1) > end(L)
    <3>1. s = end(L) /\ start(1) - end(L) >= MaxPushSize
      BY <1>s, <1>7, <1>9, <2>1, <2>2, <1>4
    <3>2. L > 1
      BY <1>1, <1>4, <1>9, <2>1, <2>2
    <3>3. ASSUME NEW n \in 1 .. L
          PROVE  /\ end(n) <= s \/ s + MaxPushSize <= start(n)
                 /\ n > 1 => (start(n) > start(1) \/ start(n) <= start(L))
                 /\ n = L \/ end(n) <= start(L) \/ start(n) >= start(1)
      <4>1. CASE n = 1 \/ n = L
        BY <1>2, <1>4, <2>1, <3>1, <4>1
      <4>2. CASE 1 < n /\ n < L
        <5>1. Around(start(1), start(n), start(L))
          BY <1>6, <2>1, <4>2
        <5>2. end(n) <= start(L) \/ end(L) <= start(n)
          BY <1>5, <2>1, <4>2
        <5>3. QED BY <1>2, <1>4, <2>1, <2>2, <3>1, <4>2, <5>1, <5>2, SMTT(30) DEF Around
      <4>3. QED BY <1>1, <4>1, <4>2
    <3>4. ASSUME NEW m \in 1 .. L, NEW n \in 1 .. L, m < n
          PROVE  Around(start(m), start(n), s)
      <4>1. start(n) # start(m)
        BY <1>4, <1>5, <3>4
      <4>2. CASE m = 1 /\ n = L
        BY <1>4, <2>1, <2>2, <3>1, <4>2 DEF Around
      <4>3. CASE m = 1 /\ n < L
        <5>1. Around(start(1), start(n), start(L))
          BY <1>6, <2>1, <3>4, <4>3
        <5>2. QED BY <1>4, <2>1, <2>2, <3>1, <4>3, <5>1 DEF Around
      <4>4. CASE m > 1 /\ n = L
        <5>1. Around(start(1), start(m), start(L))
          BY <1>6, <2>1, <3>4, <4>4
        <5>2. QED BY <1>4, <2>1, <2>2, <3>1, <4>4, <5>1 DEF Around
      <4>5. CASE m > 1 /\ n < L
        <5>1. /\ Around(start(1), start(m), start(L)) /\ Around(start(1), start(n), start(L))
              /\ Around(start(1), start(m), start(n)) /\ Around(start(m), start(n), start(L))
          BY <1>1, <1>6, <2>1, <3>4, <4>5
        <5>2. start(1) \in Int /\ start(L) \in Int /\ start(m) \in Int /\ start(n) \in Int
          BY <1>4, <2>1
        <5>3. end(L) \in Int /\ start(L) < end(L) /\ start(m) # start(n)
          BY <1>4, <2>1, <4>1
        <5>4. QED BY <2>2, <3>1, <5>1, <5>2, <5>3 DEF Around
      <4>6. QED BY <1>1, <3>4, <4>2, <4>3, <4>4, <4>5
    <3>5. QED BY <1>2, <1>4, <2>1, <3>1, <3>3, <3>4
  <2>3. CASE start(1) < end(L)
    <3>1. \/ s = end(L) /\ end(L) + MaxPushSize <= ChunkSize
          \/ s = 0 /\ start(1) >= MaxPushSize
      <4>1. start(1) \in Int /\ end(L) \in Int
        BY <1>4, <2>1
      <4>2. ~(start(1) = end(L)) /\ ~(start(1) > end(L))
        BY <2>3, <4>1
      <4>3. s = IF ChunkSize >= end(L) + MaxPushSize THEN end(L)
                ELSE IF start(1) >= MaxPushSize THEN 0 ELSE NoSpace
        BY <1>s, <1>7, <1>9, <4>2
      <4>4. QED BY <1>2, <1>s, <4>1, <4>3
    <3>2. \A n \in 1 .. L : start(1) <= start(n) /\ end(n) <= end(L)
      <4>1. SUFFICES ASSUME NEW n \in 1 .. L
                     PROVE  start(1) <= start(n) /\ end(n) <= end(L)
        OBVIOUS
      <4>2. CASE L = 1
        BY <1>4, <2>1, <4>2
      <4>3. CASE L > 1
        <5>1. end(1) <= start(L)
          BY <1>4, <1>5, <2>1, <2>3, <4>3
        <5>2. CASE n = 1 \/ n = L
          BY <1>4, <2>1, <5>1, <5>2
        <5>3. CASE 1 < n /\ n < L
          <6>1. Around(start(1), start(n), start(L))
            BY <1>6, <2>1, <5>3
          <6>2. end(n) <= start(L) \/ end(L) <= start(n)
            BY <1>5, <2>1, <5>3
          <6>3. QED BY <1>4, <2>1, <5>1, <6>1, <6>2 DEF Around
        <5>4. QED BY <1>1, <5>2, <5>3
      <4>4. QED BY <1>1, <2>1, <4>2, <4>3
    <3>3. ASSUME NEW m \in 1 .. L, NEW n \in 1 .. L, m < n
          PROVE  start(m) < start(n)
      <4>1. end(m) <= start(n) \/ end(n) <= start(m)
        BY <1>5, <3>3
      <4>2. CASE m = 1
        BY <1>4, <3>2, <4>1, <4>2
      <4>3. CASE m > 1
        <5>1. Around(start(1), start(m), start(n))
          BY <1>6, <2>1, <3>3, <4>3
        <5>2. start(1) <= start(m) /\ start(1) <= start(n)
          BY <3>2
        <5>3. QED BY <1>4, <2>1, <5>1, <5>2 DEF Around
      <4>4. QED BY <1>1, <3>3, <4>2, <4>3
    <3>4. \A m, n \in 1 .. L : m < n => Around(start(m), start(n), s)
      <4> SUFFICES ASSUME NEW m \in 1 .. L, NEW n \in 1 .. L, m < n
                   PROVE  Around(start(m), start(n), s)
        OBVIOUS
      <4>1. /\ {start(1), start(m), start(n), end(m), end(n), end(L)} \subseteq Int
            /\ start(m) < end(m) /\ start(n) < end(n) /\ 0 <= start(1)
        BY <1>4, <2>1
      <4>2. /\ start(m) < start(n) /\ end(m) <= end(L) /\ end(n) <= end(L)
            /\ start(1) <= start(m) /\ start(1) <= start(n)
        BY <3>2, <3>3
      <4>3. QED BY <1>2, <3>1, <4>1, <4>2 DEF Around
    <3>5. /\ start(1) \in Int /\ 0 <= start(1)
          /\ end(L) \in Int /\ 0 <= end(L) /\ end(L) <= ChunkSize
      BY <1>4, <2>1
    <3>6. s \in 0 .. ChunkSize /\ s + MaxPushSize <= ChunkSize
      <4>1. start(1) <= ChunkSize
        BY <1>2, <1>4, <2>1
      <4>2. QED BY <1>2, <3>1, <3>5, <4>1
    <3>7. \A n \in 1 .. L : end(n) <= s \/ s + MaxPushSize <= start(n)
      BY <1>2, <1>4, <3>1, <3>2, <3>5
    <3>8. QED BY <3>4, <3>6, <3>7
  <2>4. CASE start(1) = end(L)
    BY <1>7, <1>9, <2>4
  <2>5. QED BY <1>4, <2>1, <2>2, <2>3, <2>4
<1>10. QED BY <1>8, <1>9

\* A push that fits is apart from every entry of the list.
LEMMA FitsApart ==
  ASSUME NEW X \in Seq(EntryType), NEW e \in EntryType, Fits(X, e.start),
         NEW n \in 1 .. Len(X)
  PROVE  Apart(X[n], e)
<1>1. X[n] \in EntryType
  BY ElementOfSeq
<1>2. Clear(X[n], e.start)
  BY DEF Fits
<1>3. MaxPushSize \in Int /\ ChunkSize \in Int
  BY ChunkRingAssumption
<1> SUFFICES ASSUME NEW d \in EntryType, Clear(d, e.start)
             PROVE  Apart(d, e)
  BY <1>1, <1>2
<1>4. d.start \in 0 .. ChunkSize /\ d.size \in 1 .. MaxPushSize
  BY DEF EntryType
<1>5. e.start \in 0 .. ChunkSize /\ e.size \in 1 .. MaxPushSize
  BY DEF EntryType
<1>6. QED BY <1>3, <1>4, <1>5, SMTT(30) DEF Clear, Apart

\* A push that fits is laid where it was to start.
LEMMA LaidAppend ==
  ASSUME NEW X \in Seq(EntryType), Laid(X), NEW e \in EntryType, Fits(X, e.start),
         NEW Y, Len(Y) = Len(X) + 1, \A n \in 1 .. Len(X) : Y[n] = X[n], Y[Len(X) + 1] = e
  PROVE  Laid(Y)
<1>1. Len(X) \in Nat
  BY LenProperties
<1>2. /\ e.start \in Int /\ e.size \in Int /\ e.size <= MaxPushSize
      /\ MaxPushSize \in Int /\ ChunkSize \in Int
  BY ChunkRingAssumption DEF EntryType
<1>4. \A n \in 1 .. Len(X) : Apart(X[n], e)
  BY FitsApart
<1>5. \A n \in 1 .. Len(Y) : Y[n].start + Y[n].size <= ChunkSize
  <2>1. \A n \in 1 .. Len(X) : X[n].start + X[n].size <= ChunkSize
    BY DEF Laid
  <2>2. e.start + MaxPushSize <= ChunkSize
    BY DEF Fits
  <2>3. e.start + e.size <= ChunkSize
    BY <1>2, <2>2
  <2>4. QED BY <1>1, <2>1, <2>3
<1>6. \A m, n \in 1 .. Len(Y) : m < n => Apart(Y[m], Y[n])
  BY <1>1, <1>4 DEF Laid
<1>7. \A l, m, n \in 1 .. Len(Y) : l < m /\ m < n => Around(Y[l].start, Y[m].start, Y[n].start)
  BY <1>1 DEF Laid, Fits
<1>8. QED BY <1>5, <1>6, <1>7 DEF Laid

\* What is left of a list is laid as before, and what fitted still fits.
LEMMA LaidRemove ==
  ASSUME NEW X \in Seq(EntryType), NEW i \in 1 .. Len(X), NEW Y, Len(Y) = Len(X) - 1,
         \A n \in 1 .. Len(Y) : Y[n] = IF n < i THEN X[n] ELSE X[n + 1]
  PROVE  /\ Laid(X) => Laid(Y)
         /\ \A s : Fits(X, s) => Fits(Y, s)
<1> DEFINE at(n) == IF n < i THEN n ELSE n + 1
<1>1. Len(X) \in Nat /\ \A n \in 1 .. Len(Y) : Y[n] = X[at(n)]
  BY LenProperties
<1>2. /\ \A n \in 1 .. Len(Y) : at(n) \in 1 .. Len(X)
      /\ \A m, n \in 1 .. Len(Y) : m < n => at(m) < at(n)
  BY <1>1
<1> HIDE DEF at
<1>3. Laid(X) => Laid(Y)
  BY <1>1, <1>2 DEF Laid
<1>4. \A s : Fits(X, s) => Fits(Y, s)
  BY <1>1, <1>2 DEF Fits
<1>5. QED BY <1>3, <1>4
-----------------------------------------------------------------------------
(***************************************************************************)
(* Types.                                                                  *)
(***************************************************************************)
Todo == Channels \X Nat \X BOOLEAN

LEMMA ConstantsOK ==
  /\ numGpFifoEntries \in Nat /\ numGpFifoEntries > 0
  /\ MaxPushSize \in Nat /\ MaxPushSize > 0 /\ ChunkSize \in Nat /\ MaxPushSize <= ChunkSize
  /\ PayloadRange \in Nat /\ numGpFifoEntries <= PayloadRange
  /\ 0 \in Entries /\ 0 \in Chunks /\ NumChunks \in Nat
  /\ ChannelList \in Seq(Channels) /\ ChannelList # <<>> /\ Len(ChannelList) \in Nat
  /\ Len(ChannelList) >= 1 /\ DOMAIN ChannelList = 1 .. Len(ChannelList)
BY PushPipelineAssumption, ChunkRingAssumption, EmptySeq, LenProperties DEF Entries, Chunks

LEMMA Listing == \A n \in 1 .. Len(ChannelList) : ChannelList[n] \in Channels
BY ConstantsOK, ElementOfSeq

LEMMA NothingTypes == NoPush \in PushType /\ NoUpdate \in UpdateType /\ NoEntry \in EntryType
<1>1. ChannelList[1] \in Channels
  BY ConstantsOK, Listing
<1>2. NoPush \in PushType
  BY <1>1, ConstantsOK DEF NoPush, PushType
<1>3. NoUpdate \in UpdateType
  BY DEF NoUpdate, UpdateType
<1>4. NoEntry \in EntryType
  BY ConstantsOK DEF NoEntry, EntryType
<1>5. QED BY <1>2, <1>3, <1>4

LEMMA TodoTypes ==
  /\ \A c \in Channels : Some(c) \in Todo /\ All(c) \in Todo
  /\ ManagerProgress \in Seq(Todo) /\ ManagerProgress # <<>>
<1>1. \A c \in Channels : Some(c) \in Todo /\ All(c) \in Todo
  BY PushPipelineAssumption DEF Some, All, Todo
<1>2. /\ ManagerProgress = [n \in 1 .. Len(ChannelList) |-> Some(ChannelList[n])]
      /\ \A n \in 1 .. Len(ChannelList) : Some(ChannelList[n]) \in Todo
  BY <1>1, ConstantsOK, Listing DEF ManagerProgress
<1>3. ManagerProgress \in Seq(Todo) /\ Len(ManagerProgress) = Len(ChannelList)
  BY <1>2, ConstantsOK, IsASeq, LenProperties
<1>4. QED BY <1>1, <1>3, ConstantsOK, EmptySeq

LEMMA NextChannelIs == ASSUME NEW c \in Channels PROVE NextChannel(c) \in Channels
<1>1. \E n \in DOMAIN ChannelList : ChannelList[n] = c
  BY DEF Channels, Range
<1> DEFINE m == CHOOSE n \in DOMAIN ChannelList : ChannelList[n] = c
<1>2. m \in 1 .. Len(ChannelList)
  BY <1>1, ConstantsOK
<1>3. NextChannel(c) = ChannelList[(m % Len(ChannelList)) + 1]
  BY DEF NextChannel
<1> HIDE DEF m
<1>4. (m % Len(ChannelList)) + 1 \in 1 .. Len(ChannelList)
  BY <1>2, ConstantsOK
<1>5. QED BY <1>3, <1>4, Listing

\* A member counts.
LEMMA MemberCounts ==
  ASSUME NEW S, IsFiniteSet(S), NEW t \in S
  PROVE  Cardinality(S) \in Nat /\ Cardinality(S) >= 1
BY FS_CardinalityType, FS_EmptySet

LEMMA ReservedCounts ==
  ASSUME PipeInv, NEW t \in Threads, Reserved(t)
  PROVE  current_pushes_count[push[t].channel] >= 1
<1>1. push[t].channel \in Channels /\ t \in Holders(push[t].channel)
  BY DEF PipeInv, PipeTypes, PushType, Holders
<1>2. HoldersShape(push[t].channel) /\ current_pushes_count[push[t].channel] \in Nat
  BY <1>1 DEF PipeInv, PipeTypes, TypeOK
<1>3. QED BY <1>1, <1>2, MemberCounts DEF HoldersShape

LEMMA AdmittedCounts ==
  ASSUME PipeInv, NEW t \in Threads, t \in Admitted
  PROVE  concurrent_pushes_sema + 1 \in 0 .. NumChunks
<1>1. concurrent_pushes_sema \in 0 .. NumChunks /\ AdmittedShape
  BY DEF PipeInv, PipeTypes, TypeOK
<1>2. QED BY <1>1, MemberCounts, ConstantsOK DEF AdmittedShape

\* The chunk a claim takes.
LEMMA PickIs ==
  ASSUME PipeTypes, idle_chunks \cup available_chunks # {}
  PROVE  /\ pick_chunk \in Chunks
         /\ pick_chunk \in idle_chunks \cup available_chunks
<1>1. /\ idle_chunks \subseteq Chunks /\ available_chunks \subseteq Chunks
      /\ Chunks \in SUBSET Nat
  BY DEF PipeTypes, TypeOK, Chunks
<1>2. QED BY <1>1, LeastElement DEF pick_chunk

\* Extending the payload of g from c gives g itself.
LEMMA Quotients ==
  ASSUME NEW R \in Nat, NEW a \in Int, NEW b \in Int, NEW i \in Int, NEW j \in Int,
         0 <= i, i < R, 0 <= j, j < R, R * a + i <= R * b + j,
         R * b + j < R * a + i + R
  PROVE  b = a \/ b = a + 1
<1>1. CASE b <= a - 1
  <2>1. R * b <= R * (a - 1) BY <1>1
  <2>2. R * (a - 1) = R * a - R OBVIOUS
  <2>3. QED BY <2>1, <2>2
<1>2. CASE b >= a + 2
  <2>1. R * b >= R * (a + 2) BY <1>2
  <2>2. R * (a + 2) = R * a + 2 * R OBVIOUS
  <2>3. QED BY <2>1, <2>2
<1>3. QED BY <1>1, <1>2

LEMMA ExtendIs ==
  ASSUME NEW c \in Nat, NEW g \in Nat, c <= g, g - c < PayloadRange
  PROVE  Extend(c, g % PayloadRange) = g
<1> DEFINE R == PayloadRange
           a == c \div R
           b == g \div R
           i == c % R
           j == g % R
<1>0. R \in Nat /\ R > 0
  BY ConstantsOK
<1>1. a \in Int /\ i \in 0 .. (R - 1) /\ c = R * a + i
  BY <1>0
<1>2. b \in Int /\ j \in 0 .. (R - 1) /\ g = R * b + j
  BY <1>0
<1> HIDE DEF R, a, b, i, j
<1>3. b = a \/ b = a + 1
  BY <1>0, <1>1, <1>2, Quotients DEF R
<1>4. R * (a + 1) = R * a + R
  BY <1>0, <1>1
<1>5. R * a \in Int
  BY <1>0, <1>1
<1>6. (c - i) + j + (IF j < i THEN R ELSE 0) = g
  <2>1. CASE b = a
    BY <1>0, <1>1, <1>2, <1>5, <2>1
  <2>2. CASE b = a + 1
    <3>1. g = R * a + R + j BY <1>2, <1>4, <2>2
    <3>2. j < i BY <1>0, <1>1, <1>2, <1>5, <3>1 DEF R
    <3>3. QED BY <1>0, <1>1, <1>2, <1>5, <3>1, <3>2
  <2>3. QED BY <1>3, <2>1, <2>2
<1>7. QED BY <1>6 DEF Extend, R, i, j

\* What is known of a channel's numbers.
LEMMA RingTypes ==
  ASSUME PipeInv, NEW c \in Channels
  PROVE  /\ cpu_put[c] \in 0 .. (numGpFifoEntries - 1)
         /\ gpu_get[c] \in 0 .. (numGpFifoEntries - 1)
         /\ current_pushes_count[c] \in Nat /\ queued_value[c] \in Nat
         /\ completed_value[c] \in Nat /\ released[c] \in Nat
         /\ Kept(c) \in 0 .. (numGpFifoEntries - 1)
         /\ \A i \in Entries : Age(c, i) \in 1 .. numGpFifoEntries
         /\ RingShape(c)
<1>1. /\ cpu_put[c] \in 0 .. (numGpFifoEntries - 1)
      /\ gpu_get[c] \in 0 .. (numGpFifoEntries - 1)
      /\ current_pushes_count[c] \in Nat /\ queued_value[c] \in Nat
      /\ completed_value[c] \in Nat /\ released[c] \in Nat
  BY DEF PipeInv, PipeTypes, TypeOK, Entries
<1>2. RingShape(c)
  BY DEF PipeInv
<1>3. numGpFifoEntries \in Nat /\ numGpFifoEntries > 0
  BY ConstantsOK
<1>4. Kept(c) \in 0 .. (numGpFifoEntries - 1)
  BY <1>1, <1>3 DEF Kept
<1>5. \A i \in Entries : Age(c, i) \in 1 .. numGpFifoEntries
  BY <1>1, <1>3 DEF Age, Entries
<1>6. QED BY <1>1, <1>2, <1>4, <1>5

\* What an update reads is what the GPU has released.
LEMMA UpdateReads ==
  ASSUME PipeInv, NEW c \in Channels
  PROVE  Extend(completed_value[c], released[c] % PayloadRange) = released[c]
<1>1. released[c] - completed_value[c] < PayloadRange /\ completed_value[c] <= released[c]
  <2>1. RingShape(c) /\ Kept(c) \in 0 .. (numGpFifoEntries - 1) /\ queued_value[c] \in Nat
        /\ current_pushes_count[c] \in Nat /\ completed_value[c] \in Nat /\ released[c] \in Nat
    BY RingTypes
  <2>2. QED BY <2>1, ConstantsOK, SMTT(30) DEF RingShape
<1>2. completed_value[c] \in Nat /\ released[c] \in Nat
  BY RingTypes
<1>3. QED BY <1>1, <1>2, ExtendIs


-----------------------------------------------------------------------------
(***************************************************************************)
(* What the steps of a thread do to its own records.                       *)
(***************************************************************************)
Labels == {"idle"} \cup BeginPCs \cup UpdatePCs \cup PushPCs
ThreadTypes ==
    /\ pc \in [Threads -> Labels]
    /\ push \in [Threads -> PushType]
    /\ update \in [Threads -> UpdateType]
    /\ \A t \in Threads : pc[t] \in UpdatePCs => update[t].todo # <<>>
Others(t) ==
    \A u \in Threads \ {t} : pc'[u] = pc[u] /\ push'[u] = push[u] /\ update'[u] = update[u]

LEMMA ThreadTypesNow == PipeInv => ThreadTypes
BY DEF PipeInv, PipeTypes, TypeOK, ThreadTypes, Labels

LEMMA EndCallIs ==
  ASSUME ThreadTypes, NEW t \in Threads, EndCall(t), UNCHANGED update
  PROVE  ThreadTypes' /\ Others(t) /\ pc'[t] = "idle"
BY NothingTypes DEF EndCall, Goto, ThreadTypes, Others, Labels, UpdatePCs

LEMMA GotoIs ==
  ASSUME ThreadTypes, NEW t \in Threads, NEW l \in Labels \ UpdatePCs, Goto(t, l),
         UNCHANGED <<push, update>>
  PROVE  ThreadTypes' /\ Others(t) /\ pc'[t] = l
BY DEF Goto, ThreadTypes, Others

LEMMA StartIs ==
  ASSUME ThreadTypes, NEW t \in Threads, NEW todo \in Seq(Todo), todo # <<>>,
         NEW l \in {"idle", "claim", "chunk"}, StartUpdate(t, todo, l),
         push' \in [Threads -> PushType], \A u \in Threads \ {t} : push'[u] = push[u]
  PROVE  ThreadTypes' /\ Others(t) /\ pc'[t] = "progress" /\ update'[t].return = l
<1> DEFINE r == [NoUpdate EXCEPT !.todo = todo, !.return = l]
<1>1. r \in UpdateType /\ r.todo = todo /\ r.return = l
  BY DEF NoUpdate, UpdateType, Todo
<1>2. update' = [update EXCEPT ![t] = r] /\ pc' = [pc EXCEPT ![t] = "progress"]
  BY DEF StartUpdate, Goto
<1> HIDE DEF r
<1>3. QED BY <1>1, <1>2 DEF ThreadTypes, Others, Labels, UpdatePCs

\* Assignments to the fields of a push.
LEMMA SetChannel ==
  ASSUME push \in [Threads -> PushType], NEW t \in Threads, NEW c \in Channels,
         push' = [push EXCEPT ![t].channel = c]
  PROVE  /\ push' \in [Threads -> PushType] /\ \A u \in Threads \ {t} : push'[u] = push[u]
         /\ push'[t].channel = c
BY DEF PushType

LEMMA SetFailed ==
  ASSUME push \in [Threads -> PushType], NEW t \in Threads,
         push' = [push EXCEPT ![t].failed = TRUE]
  PROVE  /\ push' \in [Threads -> PushType] /\ \A u \in Threads \ {t} : push'[u] = push[u]
         /\ push'[t].channel = push[t].channel
BY DEF PushType

LEMMA SetPush ==
  ASSUME push \in [Threads -> PushType], NEW t \in Threads, NEW r \in PushType,
         push' = [push EXCEPT ![t] = r]
  PROVE  /\ push' \in [Threads -> PushType] /\ \A u \in Threads \ {t} : push'[u] = push[u]
         /\ push'[t] = r
OBVIOUS

\* A step that takes no reservation, unit of the semaphore or chunk.
Quiet(t) ==
    /\ ThreadTypes' /\ Others(t)
    /\ ~Writing(t) /\ ~Writing(t)'
    /\ Reserved(t)' => Reserved(t) /\ push'[t].channel = push[t].channel
    /\ Where(t)' \in Past => Where(t) \in Past

LEMMA QuietSteps ==
  ASSUME PipeInv, NEW t \in Threads,
         \/ \E c \in Channels : uvm_push_begin_on_channel(t, c)
         \/ uvm_push_begin_acquire(t)
         \/ ClaimFirstFails(t)
         \/ ClaimFails(t)
         \/ ClaimChunkFails(t)
         \/ uvm_channel_manager_update_progress(t)
         \/ uvm_channel_update_completed_value(t)
         \/ AcquirePoolLock(t)
         \/ FinishUpdate(t)
  PROVE  Quiet(t)
<1>0. ThreadTypes
  BY ThreadTypesNow
<1>1. /\ pc[t] \in Labels /\ push[t] \in PushType /\ update[t] \in UpdateType
      /\ push \in [Threads -> PushType] /\ push[t].channel \in Channels
      /\ update[t].return \in {"idle", "claim", "chunk"}
  BY <1>0 DEF ThreadTypes, PushType, UpdateType
<1>2. ASSUME ThreadTypes', Others(t),
             pc[t] = "idle" \/ pc[t] = "claim_first" \/ pc[t] = "claim",
             \/ pc'[t] \in {"idle", "claim_first", "claim"}
             \/ pc'[t] = "progress" /\ update'[t].return \in {"idle", "claim"}
      PROVE  Quiet(t)
  BY <1>2 DEF Quiet, Writing, Reserved, Where, Past, UpdatePCs
<1> DEFINE c == push[t].channel
           next == IF push[t].any THEN NextChannel(c) ELSE c
<1>3. next \in Channels
  BY <1>1, NextChannelIs
<1>4. CASE \E d \in Channels : uvm_push_begin_on_channel(t, d)
  <2>1. PICK d \in Channels : uvm_push_begin_on_channel(t, d)
    BY <1>4
  <2>2. [NoPush EXCEPT !.channel = d] \in PushType
    BY NothingTypes DEF PushType
  <2>3. push' = [push EXCEPT ![t] = [NoPush EXCEPT !.channel = d]]
    BY <2>1 DEF uvm_push_begin_on_channel
  <2>4. push' \in [Threads -> PushType] /\ \A u \in Threads \ {t} : push'[u] = push[u]
    BY <1>1, <2>2, <2>3, SetPush
  <2>5. /\ pc[t] = "idle" /\ pc' = [pc EXCEPT ![t] = "claim_first"] /\ update' = update
    BY <2>1 DEF uvm_push_begin_on_channel, At, Goto
  <2>6. ThreadTypes' /\ Others(t) /\ pc'[t] = "claim_first"
    BY <1>0, <2>4, <2>5 DEF ThreadTypes, Others, Labels, BeginPCs, UpdatePCs
  <2>7. QED BY <1>2, <2>5, <2>6
<1>5. CASE uvm_push_begin_acquire(t)
  <2>2. [NoPush EXCEPT !.any = TRUE] \in PushType
    BY NothingTypes DEF PushType
  <2>3. push' = [push EXCEPT ![t] = [NoPush EXCEPT !.any = TRUE]]
    BY <1>5 DEF uvm_push_begin_acquire
  <2>4. push' \in [Threads -> PushType] /\ \A u \in Threads \ {t} : push'[u] = push[u]
    BY <1>1, <2>2, <2>3, SetPush
  <2>5. /\ pc[t] = "idle" /\ pc' = [pc EXCEPT ![t] = "claim_first"] /\ update' = update
    BY <1>5 DEF uvm_push_begin_acquire, At, Goto
  <2>6. ThreadTypes' /\ Others(t) /\ pc'[t] = "claim_first"
    BY <1>0, <2>4, <2>5 DEF ThreadTypes, Others, Labels, BeginPCs, UpdatePCs
  <2>7. QED BY <1>2, <2>5, <2>6
<1>6. CASE ClaimFirstFails(t)
  <2>1. /\ pc[t] = "claim_first" /\ push' = [push EXCEPT ![t].channel = next]
        /\ UNCHANGED <<pc, update>> \/ StartUpdate(t, <<Some(next)>>, "claim")
    BY <1>6 DEF ClaimFirstFails, At
  <2> HIDE DEF next
  <2>2. push' \in [Threads -> PushType] /\ \A u \in Threads \ {t} : push'[u] = push[u]
    BY <1>1, <1>3, <2>1, SetChannel
  <2>3. CASE UNCHANGED <<pc, update>>
    <3>1. ThreadTypes' /\ Others(t) /\ pc'[t] = "claim_first"
      BY <1>0, <2>1, <2>2, <2>3 DEF ThreadTypes, Others
    <3>2. QED BY <1>2, <2>1, <3>1
  <2>4. CASE StartUpdate(t, <<Some(next)>>, "claim")
    <3>1. <<Some(next)>> \in Seq(Todo) /\ <<Some(next)>> # <<>>
      BY <1>3, TodoTypes
    <3>2. ThreadTypes' /\ Others(t) /\ pc'[t] = "progress" /\ update'[t].return = "claim"
      BY <1>0, <2>2, <2>4, <3>1, StartIs
    <3>3. QED BY <1>2, <2>1, <3>2
  <2>5. QED BY <2>1, <2>3, <2>4
<1>7. CASE ClaimFails(t)
  <2>1. /\ pc[t] = "claim"
        /\ \/ EndCall(t) /\ UNCHANGED update
           \/ push' = [push EXCEPT ![t].channel = next]
             /\ StartUpdate(t, <<Some(next)>>, "claim")
           \/ push' = [push EXCEPT ![t] = NoPush] /\ StartUpdate(t, <<All(c)>>, "idle")
           \/ /\ push' = [push EXCEPT ![t].failed = TRUE]
              /\ StartUpdate(t, <<All(c), Some(c)>>, "claim")
    BY <1>7 DEF ClaimFails, At
  <2> HIDE DEF next, c
  <2>0. c \in Channels
    BY <1>1 DEF c
  <2>2. CASE EndCall(t) /\ UNCHANGED update
    <3>1. ThreadTypes' /\ Others(t) /\ pc'[t] = "idle"
      BY <1>0, <2>2, EndCallIs
    <3>2. QED BY <1>2, <2>1, <3>1
  <2>3. CASE push' = [push EXCEPT ![t].channel = next]
               /\ StartUpdate(t, <<Some(next)>>, "claim")
    <3>1. <<Some(next)>> \in Seq(Todo) /\ <<Some(next)>> # <<>>
      BY <1>3, TodoTypes
    <3>2. push' \in [Threads -> PushType] /\ \A u \in Threads \ {t} : push'[u] = push[u]
      BY <1>1, <1>3, <2>3, SetChannel
    <3>3. ThreadTypes' /\ Others(t) /\ pc'[t] = "progress" /\ update'[t].return = "claim"
      BY <1>0, <2>3, <3>1, <3>2, StartIs
    <3>4. QED BY <1>2, <2>1, <3>3
  <2>4. CASE push' = [push EXCEPT ![t] = NoPush] /\ StartUpdate(t, <<All(c)>>, "idle")
    <3>1. <<All(c)>> \in Seq(Todo) /\ <<All(c)>> # <<>>
      BY <2>0, TodoTypes
    <3>2. push' \in [Threads -> PushType] /\ \A u \in Threads \ {t} : push'[u] = push[u]
      BY <1>1, <2>4, NothingTypes, SetPush
    <3>3. ThreadTypes' /\ Others(t) /\ pc'[t] = "progress" /\ update'[t].return = "idle"
      BY <1>0, <2>4, <3>1, <3>2, StartIs
    <3>4. QED BY <1>2, <2>1, <3>3
  <2>5. CASE /\ push' = [push EXCEPT ![t].failed = TRUE]
             /\ StartUpdate(t, <<All(c), Some(c)>>, "claim")
    <3>1. <<All(c), Some(c)>> \in Seq(Todo) /\ <<All(c), Some(c)>> # <<>>
      BY <2>0, TodoTypes
    <3>2. push' \in [Threads -> PushType] /\ \A u \in Threads \ {t} : push'[u] = push[u]
      BY <1>1, <2>5, SetFailed
    <3>3. ThreadTypes' /\ Others(t) /\ pc'[t] = "progress" /\ update'[t].return = "claim"
      BY <1>0, <2>5, <3>1, <3>2, StartIs
    <3>4. QED BY <1>2, <2>1, <3>3
  <2>6. QED BY <2>1, <2>2, <2>3, <2>4, <2>5
<1>8. CASE ClaimChunkFails(t)
  <2> DEFINE failing == {n \in DOMAIN ChannelList : rc_error[ChannelList[n]]}
             first == ChannelList[Lowest(failing)]
             todo == (IF fatal_error THEN <<>> ELSE <<All(first)>>) \o ManagerProgress
  <2>1. /\ pc[t] = "chunk_first" \/ pc[t] = "chunk"
        /\ \/ Goto(t, "up") /\ UNCHANGED <<push, update>>
           \/ /\ push' = [push EXCEPT ![t].failed = TRUE]
              /\ StartUpdate(t, todo, "chunk")
              /\ fatal_error \/ failing # {}
           \/ StartUpdate(t, ManagerProgress, "chunk") /\ UNCHANGED push
    BY <1>8 DEF ClaimChunkFails, At
  <2>2. CASE Goto(t, "up") /\ UNCHANGED <<push, update>>
    <3>1. ThreadTypes' /\ Others(t) /\ pc'[t] = "up"
      BY <1>0, <2>2, GotoIs DEF Labels, PushPCs, UpdatePCs
    <3>2. QED BY <2>1, <3>1 DEF Quiet, Writing, Reserved, Where, Past, UpdatePCs
  <2>a. ASSUME ThreadTypes', Others(t), pc'[t] = "progress", update'[t].return = "chunk",
               push'[t].channel = push[t].channel
        PROVE  Quiet(t)
    BY <2>1, <2>a DEF Quiet, Writing, Reserved, Where, Past, UpdatePCs
  <2>3. CASE /\ push' = [push EXCEPT ![t].failed = TRUE]
             /\ StartUpdate(t, todo, "chunk")
             /\ fatal_error \/ failing # {}
    <3>1. todo \in Seq(Todo) /\ todo # <<>>
      <4>1. CASE fatal_error
        <5>1. todo = ManagerProgress
          BY <4>1, TodoTypes, ConcatEmptySeq
        <5>2. QED BY <5>1, TodoTypes
      <4>2. CASE ~fatal_error
        <5>1. failing \in SUBSET Nat /\ failing # {} /\ failing \subseteq 1 .. Len(ChannelList)
          BY <2>3, <4>2, ConstantsOK
        <5> HIDE DEF failing
        <5>2. first \in Channels
          BY <5>1, LeastElement, Listing
        <5>3. <<All(first)>> \in Seq(Todo) /\ Len(<<All(first)>>) = 1
          BY <5>2, TodoTypes
        <5> HIDE DEF first
        <5>4. /\ <<All(first)>> \o ManagerProgress \in Seq(Todo)
              /\ Len(<<All(first)>> \o ManagerProgress) = 1 + Len(ManagerProgress)
          BY <5>3, TodoTypes, ConcatProperties
        <5>5. Len(ManagerProgress) \in Nat
          BY TodoTypes, LenProperties
        <5>6. todo = <<All(first)>> \o ManagerProgress
          BY <4>2
        <5>7. <<All(first)>> \o ManagerProgress # <<>>
          BY <5>4, <5>5, EmptySeq
        <5>8. QED BY <5>4, <5>6, <5>7
      <4>3. QED BY <4>1, <4>2
    <3> HIDE DEF todo
    <3>2. /\ push' \in [Threads -> PushType] /\ \A u \in Threads \ {t} : push'[u] = push[u]
          /\ push'[t].channel = push[t].channel
      BY <1>1, <2>3, SetFailed
    <3>3. ThreadTypes' /\ Others(t) /\ pc'[t] = "progress" /\ update'[t].return = "chunk"
      BY <1>0, <2>3, <3>1, <3>2, StartIs
    <3>4. QED BY <2>a, <3>2, <3>3
  <2>4. CASE StartUpdate(t, ManagerProgress, "chunk") /\ UNCHANGED push
    <3>1. ThreadTypes' /\ Others(t) /\ pc'[t] = "progress" /\ update'[t].return = "chunk"
      BY <1>0, <1>1, <2>4, TodoTypes, StartIs
    <3>2. QED BY <2>4, <2>a, <3>1
  <2>5. QED BY <2>1, <2>2, <2>3, <2>4
<1>9. CASE uvm_channel_manager_update_progress(t)
  <2>1. pc[t] = "idle" /\ StartUpdate(t, ManagerProgress, "idle") /\ UNCHANGED push
    BY <1>9 DEF uvm_channel_manager_update_progress, At
  <2>2. ThreadTypes' /\ Others(t) /\ pc'[t] = "progress" /\ update'[t].return = "idle"
    BY <1>0, <1>1, <2>1, TodoTypes, StartIs
  <2>3. QED BY <1>2, <2>1, <2>2
<1>10. ASSUME pc[t] \in UpdatePCs, ThreadTypes', Others(t), UNCHANGED push,
              \/ pc'[t] \in UpdatePCs /\ update'[t].return = update[t].return
              \/ pc'[t] = update[t].return
       PROVE  Quiet(t)
  BY <1>1, <1>10 DEF Quiet, Writing, Reserved, Where, Past, UpdatePCs
<1>11. CASE uvm_channel_update_completed_value(t)
  <2> DEFINE d == update[t].todo[1][1]
             new == Extend(completed_value[d], released[d] % PayloadRange)
  <2>1. /\ pc[t] = "progress" /\ pc' = [pc EXCEPT ![t] = "lock"] /\ UNCHANGED push
        /\ update' = [update EXCEPT ![t].completed = new, ![t].count = 0]
    BY <1>11 DEF uvm_channel_update_completed_value, At, Goto
  <2>2. new \in Nat
    <3>1. d \in Channels
      BY <1>0, <2>1, ElementOfSeq, EmptySeq, LenProperties DEF ThreadTypes, UpdateType,
         UpdatePCs
    <3>2. QED BY <3>1, UpdateReads, RingTypes
  <2> HIDE DEF new
  <2>3. /\ update' \in [Threads -> UpdateType]
             /\ \A u \in Threads \ {t} : update'[u] = update[u]
        /\ update'[t].return = update[t].return /\ update'[t].todo = update[t].todo
    BY <1>0, <2>1, <2>2 DEF ThreadTypes, UpdateType
  <2>4. ThreadTypes' /\ Others(t) /\ pc'[t] = "lock"
    BY <1>0, <2>1, <2>3 DEF ThreadTypes, Others, Labels, UpdatePCs
  <2>5. QED BY <1>10, <2>1, <2>3, <2>4 DEF UpdatePCs
<1>12. CASE AcquirePoolLock(t)
  <2>1. /\ pc[t] = "lock" /\ pc' = [pc EXCEPT ![t] = "mark"] /\ UNCHANGED <<push, update>>
    BY <1>12 DEF AcquirePoolLock, At, Goto
  <2>2. ThreadTypes' /\ Others(t) /\ pc'[t] = "mark"
    BY <1>0, <2>1 DEF ThreadTypes, Others, Labels, UpdatePCs
  <2>3. QED BY <1>10, <2>1, <2>2 DEF UpdatePCs
<1>13. CASE FinishUpdate(t)
  <2> DEFINE rest == Tail(update[t].todo)
  <2>1. /\ pc[t] = "mark" /\ UNCHANGED push
        /\ pc' = [pc EXCEPT ![t] = IF rest = <<>> THEN update[t].return ELSE "progress"]
        /\ update' = [update EXCEPT ![t] = IF rest = <<>> THEN NoUpdate
                                           ELSE [update[t] EXCEPT !.todo = rest]]
    BY <1>13 DEF FinishUpdate, At, Goto
  <2>2. update[t].todo \in Seq(Todo) /\ update[t].todo # <<>>
    BY <1>0, <1>1, <2>1 DEF ThreadTypes, UpdateType, UpdatePCs, Todo
  <2>3. rest \in Seq(Todo)
    BY <2>2, HeadTailProperties
  <2> HIDE DEF rest
  <2>4. CASE rest = <<>>
    <3>1. ThreadTypes' /\ Others(t) /\ pc'[t] = update[t].return
      BY <1>0, <1>1, <2>1, <2>4, NothingTypes DEF ThreadTypes, Others, Labels, UpdatePCs,
         BeginPCs, PushPCs
    <3>2. QED BY <1>10, <2>1, <3>1 DEF UpdatePCs
  <2>5. CASE rest # <<>>
    <3> DEFINE r == [update[t] EXCEPT !.todo = rest]
    <3>1. r \in UpdateType /\ r.todo = rest /\ r.return = update[t].return
      BY <1>1, <2>3 DEF UpdateType, Todo
    <3>2. update' = [update EXCEPT ![t] = r] /\ pc' = [pc EXCEPT ![t] = "progress"]
      BY <2>1, <2>5
    <3> HIDE DEF r
    <3>3. /\ ThreadTypes' /\ Others(t) /\ pc'[t] = "progress"
          /\ update'[t].return = update[t].return
      BY <1>0, <2>1, <2>5, <3>1, <3>2 DEF ThreadTypes, Others, Labels, UpdatePCs
    <3>4. QED BY <1>10, <2>1, <3>3 DEF UpdatePCs
  <2>6. QED BY <2>4, <2>5
<1>14. QED BY <1>4, <1>5, <1>6, <1>7, <1>8, <1>9, <1>11, <1>12, <1>13

LEMMA ClaimChannelIs ==
  ASSUME PipeInv, NEW t \in Threads, ClaimChannel(t)
  PROVE  /\ ThreadTypes' /\ Others(t)
         /\ pc[t] \in {"claim_first", "claim"} /\ pc'[t] \in {"idle", "down"}
         /\ pc'[t] = "down" => push'[t] = push[t]
<1>0. ThreadTypes
  BY ThreadTypesNow
<1>1. /\ pc[t] \in {"claim_first", "claim"} /\ UNCHANGED update
      /\ EndCall(t) \/ (Goto(t, "down") /\ UNCHANGED push)
  <2>1. pc[t] \in {"claim_first", "claim"} /\ UNCHANGED update
    BY DEF ClaimChannel, At
  <2>2. IF push[t].failed THEN EndCall(t) ELSE Goto(t, "down") /\ UNCHANGED push
    BY Zenon DEF ClaimChannel
  <2>3. QED BY <2>1, <2>2
<1>2. CASE EndCall(t)
  BY <1>0, <1>1, <1>2, EndCallIs
<1>3. CASE Goto(t, "down") /\ UNCHANGED push
  BY <1>0, <1>1, <1>3, GotoIs DEF Labels, BeginPCs, UpdatePCs
<1>4. QED BY <1>1, <1>2, <1>3

LEMMA DownIs ==
  ASSUME PipeInv, NEW t \in Threads, uvm_down(t)
  PROVE  /\ ThreadTypes' /\ Others(t) /\ push' = push
         /\ pc[t] = "down" /\ pc'[t] = "chunk_first"
BY ThreadTypesNow, GotoIs DEF uvm_down, At, Labels, BeginPCs, UpdatePCs

LEMMA UpIs ==
  ASSUME PipeInv, NEW t \in Threads, uvm_up(t)
  PROVE  ThreadTypes' /\ Others(t) /\ pc[t] = "up" /\ pc'[t] = "idle"
BY ThreadTypesNow, EndCallIs DEF uvm_up, At

\* What a thread knows of its push stays.
SamePush(t) ==
    /\ push'[t].channel = push[t].channel /\ push'[t].chunk = push[t].chunk
    /\ push'[t].begin = push[t].begin /\ push'[t].entry = push[t].entry

LEMMA ClaimChunkIs ==
  ASSUME PipeInv, NEW t \in Threads, ClaimChunk(t)
  PROVE  /\ ThreadTypes' /\ Others(t)
         /\ pc[t] \in {"chunk_first", "chunk"} /\ pc'[t] \in {"up", "index"}
         /\ push'[t].channel = push[t].channel /\ push'[t].chunk = pick_chunk
         /\ push'[t].begin = next_push_start[pick_chunk]
         /\ pick_chunk \in Chunks /\ pick_chunk \in idle_chunks \cup available_chunks
<1>0. ThreadTypes
  BY ThreadTypesNow
<1>1. pick_chunk \in Chunks /\ pick_chunk \in idle_chunks \cup available_chunks
  BY PickIs DEF ClaimChunk, PipeInv
<1>2. next_push_start[pick_chunk] \in 0 .. ChunkSize
  BY <1>1 DEF PipeInv, PipeTypes, TypeOK
<1> DEFINE k == pick_chunk
           b == next_push_start[pick_chunk]
           r == [push[t] EXCEPT !.chunk = k, !.begin = b]
<1>3. push' = [push EXCEPT ![t] = r]
  BY DEF ClaimChunk
<1>4. push[t] \in PushType /\ push \in [Threads -> PushType]
  BY <1>0 DEF ThreadTypes
<1>5. r \in PushType /\ r.chunk = k /\ r.begin = b /\ r.channel = push[t].channel
  <2> HIDE DEF k, b
  <2>1. k \in Chunks /\ b \in 0 .. ChunkSize
    BY <1>1, <1>2 DEF k, b
  <2>2. QED BY <1>4, <2>1 DEF PushType
<1>6. /\ pc[t] \in {"chunk_first", "chunk"} /\ UNCHANGED update
      /\ Goto(t, "up") \/ Goto(t, "index")
  BY DEF ClaimChunk, At
<1> HIDE DEF k, b, r
<1>7. /\ push' \in [Threads -> PushType] /\ push'[t] = r
      /\ \A u \in Threads \ {t} : push'[u] = push[u]
  BY <1>3, <1>4, <1>5, SetPush
<1>8. ThreadTypes' /\ Others(t) /\ pc'[t] \in {"up", "index"}
  BY <1>0, <1>6, <1>7 DEF Goto, ThreadTypes, Others, Labels, BeginPCs, PushPCs, UpdatePCs
<1>9. QED BY <1>1, <1>5, <1>6, <1>7, <1>8 DEF k, b

LEMMA IndexIs ==
  ASSUME PipeInv, NEW t \in Threads, channel_get_next_push_info_index(t)
  PROVE  /\ ThreadTypes' /\ Others(t) /\ SamePush(t)
         /\ pc[t] = "index" /\ pc'[t] = "push"
<1>0. ThreadTypes
  BY ThreadTypesNow
<1> DEFINE i == next_push_info_index[push[t].channel]
           r == [push[t] EXCEPT !.info = i]
<1>1. push[t] \in PushType /\ push \in [Threads -> PushType] /\ push[t].channel \in Channels
  BY <1>0 DEF ThreadTypes, PushType
<1>2. i \in Entries
  BY <1>1 DEF PipeInv, PipeTypes, TypeOK
<1>3. push' = [push EXCEPT ![t] = r]
  BY DEF channel_get_next_push_info_index
<1> HIDE DEF i
<1>4. /\ r \in PushType /\ r.channel = push[t].channel /\ r.chunk = push[t].chunk
      /\ r.begin = push[t].begin /\ r.entry = push[t].entry
  BY <1>1, <1>2 DEF PushType
<1>5. pc[t] = "index" /\ UNCHANGED update /\ pc' = [pc EXCEPT ![t] = "push"]
  BY DEF channel_get_next_push_info_index, At, Goto
<1> HIDE DEF r
<1>6. /\ push' \in [Threads -> PushType] /\ push'[t] = r
      /\ \A u \in Threads \ {t} : push'[u] = push[u]
  BY <1>1, <1>3, <1>4, SetPush
<1>7. QED BY <1>0, <1>4, <1>5, <1>6 DEF ThreadTypes, Others, SamePush, Labels, PushPCs,
        UpdatePCs

LEMMA EndPushIs ==
  ASSUME PipeInv, NEW t \in Threads, NEW size \in PushSizes, uvm_channel_end_push(t, size)
  PROVE  /\ ThreadTypes' /\ Others(t)
         /\ pc[t] = "push" /\ pc'[t] = "end"
         /\ push'[t].channel = push[t].channel /\ push'[t].chunk = push[t].chunk
         /\ push'[t].begin = push[t].begin /\ push'[t].entry = cpu_put[push[t].channel]
<1>0. ThreadTypes
  BY ThreadTypesNow
<1> DEFINE i == cpu_put[push[t].channel]
           r == [push[t] EXCEPT !.entry = i]
<1>1. push[t] \in PushType /\ push \in [Threads -> PushType] /\ push[t].channel \in Channels
  BY <1>0 DEF ThreadTypes, PushType
<1>2. i \in Entries
  BY <1>1 DEF PipeInv, PipeTypes, TypeOK
<1>3. push' = [push EXCEPT ![t] = r]
  BY DEF uvm_channel_end_push
<1>5. pc[t] = "push" /\ UNCHANGED update /\ pc' = [pc EXCEPT ![t] = "end"]
  BY DEF uvm_channel_end_push, At, Goto
<1>8. i = cpu_put[push[t].channel]
  OBVIOUS
<1> HIDE DEF i
<1>4. /\ r \in PushType /\ r.channel = push[t].channel /\ r.chunk = push[t].chunk
      /\ r.begin = push[t].begin /\ r.entry = i
  BY <1>1, <1>2 DEF PushType
<1> HIDE DEF r
<1>6. /\ push' \in [Threads -> PushType] /\ push'[t] = r
      /\ \A u \in Threads \ {t} : push'[u] = push[u]
  BY <1>1, <1>3, <1>4, SetPush
<1>7. ThreadTypes' /\ Others(t) /\ pc'[t] = "end"
  BY <1>0, <1>5, <1>6 DEF ThreadTypes, Others, Labels, PushPCs, UpdatePCs
<1>9. QED BY <1>4, <1>5, <1>6, <1>7, <1>8

LEMMA ChunkEndPushIs ==
  ASSUME PipeInv, NEW t \in Threads, uvm_pushbuffer_end_push(t)
  PROVE  ThreadTypes' /\ Others(t) /\ push' = push /\ pc[t] = "end" /\ pc'[t] = "up"
BY ThreadTypesNow, GotoIs DEF uvm_pushbuffer_end_push, At, Labels, PushPCs, UpdatePCs

\* An entry a progress update gives back.
LEMMA MarkIs ==
  ASSUME PipeInv, NEW t \in Threads, uvm_pushbuffer_mark_completed(t)
  PROVE  /\ ThreadTypes' /\ push' = push /\ pc' = pc
         /\ \A u \in Threads : /\ update'[u].todo = update[u].todo
                               /\ update'[u].return = update[u].return
                               /\ update'[u].completed = update[u].completed
         /\ pc[t] = "mark" /\ update[t].todo[1][1] \in Channels
<1>0. ThreadTypes
  BY ThreadTypesNow
<1>1. /\ pc[t] = "mark" /\ UNCHANGED <<pc, push>>
      /\ update' = [update EXCEPT ![t].count = @ + 1]
  BY Zenon DEF uvm_pushbuffer_mark_completed, At
<1>2. update[t] \in UpdateType /\ update[t].count + 1 \in Nat /\ update[t].todo # <<>>
  BY <1>0, <1>1 DEF ThreadTypes, UpdateType, UpdatePCs
<1> DEFINE r == [update[t] EXCEPT !.count = update[t].count + 1]
<1>3. /\ r \in UpdateType /\ r.todo = update[t].todo /\ r.return = update[t].return
      /\ r.completed = update[t].completed
  BY <1>2 DEF UpdateType
<1>4. update' = [update EXCEPT ![t] = r]
  BY <1>1
<1> HIDE DEF r
<1>5. ThreadTypes' /\ \A u \in Threads : /\ update'[u].todo = update[u].todo
                                         /\ update'[u].return = update[u].return
                                         /\ update'[u].completed = update[u].completed
  BY <1>0, <1>1, <1>3, <1>4 DEF ThreadTypes
<1>6. update[t].todo[1][1] \in Channels
  BY <1>2, ElementOfSeq, EmptySeq, LenProperties DEF UpdateType
<1>7. QED BY <1>1, <1>5, <1>6

-----------------------------------------------------------------------------
(***************************************************************************)
(* The parts of the invariant, and what leaves them true.                  *)
(***************************************************************************)
ChannelTypes ==
    /\ cpu_put \in [Channels -> Entries] /\ gpu_get \in [Channels -> Entries]
    /\ current_pushes_count \in [Channels -> Nat]
    /\ next_push_info_index \in [Channels -> Entries]
    /\ queued_value \in [Channels -> Nat] /\ completed_value \in [Channels -> Nat]
    /\ on_complete \in [Channels -> [Entries -> Threads \cup {NoThread}]]
    /\ released \in [Channels -> Nat]
    /\ gpfifo_entries \in [Channels -> [Entries -> EntryType]]
ChunkTypes ==
    /\ next_push_start \in [Chunks -> 0 .. ChunkSize]
    /\ current_push \in [Chunks -> Threads \cup {NoThread, OtherPool}]
    /\ idle_chunks \subseteq Chunks /\ available_chunks \subseteq Chunks
    /\ concurrent_pushes_sema \in 0 .. NumChunks
    /\ pool_lock \in Threads \cup {NoThread}
    /\ pending_gpfifos \in [Chunks -> Seq(Channels \X Entries)]
Rings == \A c \in Channels : RingShape(c)
Updates == \A t \in Threads : UpdateShape(t)
AllHolders == \A c \in Channels : HoldersShape(c)
ChunkShape ==
    /\ \A k \in Chunks : MapShape(k) /\ ListShape(k)
    /\ \A t \in Threads : PushShape(t)
    /\ Traced

LEMMA PipeParts ==
  PipeInv <=> /\ ThreadTypes /\ ChannelTypes /\ ChunkTypes
              /\ Rings /\ Updates /\ AllHolders /\ AdmittedShape /\ ChunkShape
<1>1. PipeTypes <=> ThreadTypes /\ ChannelTypes /\ ChunkTypes
  BY DEF PipeTypes, TypeOK, ThreadTypes, ChannelTypes, ChunkTypes, Labels
<1>2. QED BY <1>1 DEF PipeInv, Rings, Updates, AllHolders, ChunkShape

LEMMA PipePartsNext ==
  ASSUME ThreadTypes', ChannelTypes', ChunkTypes',
         Rings', Updates', AllHolders', AdmittedShape', ChunkShape'
  PROVE  PipeInv'
BY PipeParts, PTL

LEMMA RingsKept ==
  ASSUME PipeInv, UNCHANGED <<cpu_put, gpu_get, current_pushes_count, queued_value,
                              completed_value, released, gpfifo_entries>>
  PROVE  Rings'
BY DEF PipeInv, Rings, RingShape, Kept, Age

LEMMA UpdatesKept ==
  ASSUME PipeInv, NEW t \in Threads, Others(t), UNCHANGED completed_value,
         pc'[t] \in {"lock", "mark"} =>
             /\ pc[t] \in {"lock", "mark"} /\ update'[t].todo = update[t].todo
             /\ update'[t].completed = update[t].completed
  PROVE  Updates'
BY DEF PipeInv, Updates, UpdateShape, Others

LEMMA HoldersKept ==
  ASSUME PipeInv, NEW t \in Threads, Others(t), UNCHANGED current_pushes_count,
         Reserved(t)' => Reserved(t) /\ push'[t].channel = push[t].channel
  PROVE  AllHolders'
<1> SUFFICES ASSUME NEW c \in Channels
             PROVE  HoldersShape(c)'
  BY DEF AllHolders
<1>1. HoldersShape(c) /\ current_pushes_count[c] \in Nat
  BY DEF PipeInv, PipeTypes, TypeOK
<1>2. \A u : u # t => (u \in Holders(c)' <=> u \in Holders(c))
  BY DEF Holders, Others, Reserved
<1>3. t \in Holders(c)' => t \in Holders(c)
  BY DEF Holders
<1>4. /\ IsFiniteSet(Holders(c)') /\ Cardinality(Holders(c)) \in Nat
      /\ Cardinality(Holders(c)') \in Nat /\ Cardinality(Holders(c)') <= Cardinality(Holders(c))
  <2> DEFINE S == Holders(c)
             T == Holders(c)'
  <2>1. IsFiniteSet(S) /\ \A u : u # t => (u \in T <=> u \in S)
    BY <1>1, <1>2 DEF HoldersShape
  <2>2. t \in T => t \in S
    BY <1>3
  <2> HIDE DEF S, T
  <2>3. /\ IsFiniteSet(T) /\ Cardinality(S) \in Nat
        /\ Cardinality(T) \in Nat /\ Cardinality(T) <= Cardinality(S)
    BY <2>1, <2>2, OneMoves
  <2>4. QED BY <2>3 DEF S, T
<1>5. QED BY <1>1, <1>4 DEF HoldersShape

LEMMA AdmittedKept ==
  ASSUME PipeInv, NEW t \in Threads, Others(t), UNCHANGED concurrent_pushes_sema,
         Where(t)' \in Past => Where(t) \in Past
  PROVE  AdmittedShape'
<1>1. AdmittedShape /\ concurrent_pushes_sema \in Nat /\ NumChunks \in Nat
  BY ConstantsOK DEF PipeInv, PipeTypes, TypeOK
<1>2. \A u : u # t => (u \in Admitted' <=> u \in Admitted)
  BY DEF Admitted, Others, Where
<1>3. t \in Admitted' => t \in Admitted
  BY DEF Admitted
<1> DEFINE S == Admitted
           T == Admitted'
<1>4. IsFiniteSet(S) /\ (\A u : u # t => (u \in T <=> u \in S)) /\ (t \in T => t \in S)
  BY <1>1, <1>2, <1>3 DEF AdmittedShape
<1> HIDE DEF S, T
<1>5. /\ IsFiniteSet(T) /\ Cardinality(S) \in Nat
      /\ Cardinality(T) \in Nat /\ Cardinality(T) <= Cardinality(S)
  BY <1>4, OneMoves
<1>6. QED BY <1>1, <1>5 DEF AdmittedShape, S, T

LEMMA ChunksKept ==
  ASSUME PipeInv, NEW t \in Threads, Others(t), ~Writing(t), ~Writing(t)',
         UNCHANGED <<chunk_vars, cpu_put, gpu_get, gpfifo_entries>>
  PROVE  ChunkShape'
<1>0. UNCHANGED <<next_push_start, pending_gpfifos, current_push, idle_chunks,
                  available_chunks>>
  BY DEF chunk_vars
<1>1. /\ \A k : Extents(k)' = Extents(k)
      /\ \A c, i : InRing(c, i)' <=> InRing(c, i)
  BY <1>0 DEF Extents, EntryAt, InRing, Age, Kept
<1>2. \A k \in Chunks : MapShape(k)'
  BY <1>0, <1>1 DEF PipeInv, MapShape
<1>3. \A k \in Chunks : ListShape(k)'
  BY <1>0, <1>1 DEF PipeInv, ListShape, EntryAt
<1>4. \A u \in Threads : PushShape(u)'
  BY <1>0, <1>1 DEF PipeInv, PushShape, Writing, Others
<1>5. Traced'
  <2>1. ASSUME NEW c \in Channels, NEW i \in Entries, InRing(c, i)'
        PROVE  Listed(c, i)' \/ Ending(c, i)'
    <3>1. Listed(c, i) \/ Ending(c, i)
      BY <1>1, <2>1 DEF PipeInv, Traced
    <3>2. Listed(c, i) => Listed(c, i)'
      BY <1>0 DEF Listed
    <3>3. \A u \in Threads : pc[u] = "end" => pc'[u] = "end" /\ push'[u] = push[u]
      BY DEF Others, Writing
    <3>4. Ending(c, i) => Ending(c, i)'
      BY <3>3 DEF Ending
    <3>5. QED BY <3>1, <3>2, <3>4
  <2>2. QED BY <2>1 DEF Traced
<1>6. QED BY <1>2, <1>3, <1>4, <1>5 DEF ChunkShape

-----------------------------------------------------------------------------
(***************************************************************************)
(* Each step preserves the invariant.                                      *)
(***************************************************************************)
\* Steps that change nothing but the thread and the pool's lock.
Plain(t) ==
    \/ \E c \in Channels : uvm_push_begin_on_channel(t, c)
    \/ uvm_push_begin_acquire(t)
    \/ ClaimFirstFails(t)
    \/ ClaimFails(t)
    \/ ClaimChunkFails(t)
    \/ uvm_channel_manager_update_progress(t)
    \/ AcquirePoolLock(t)
    \/ FinishUpdate(t)

LEMMA PlainLeaves ==
  ASSUME NEW t \in Threads, Plain(t)
  PROVE  /\ UNCHANGED <<chan_vars, gpu_vars, chunk_vars, concurrent_pushes_sema>>
         /\ pool_lock' \in {pool_lock, t, NoThread}
<1>1. CASE \E c \in Channels : uvm_push_begin_on_channel(t, c)
  BY <1>1 DEF uvm_push_begin_on_channel
<1>2. CASE uvm_push_begin_acquire(t)
  BY <1>2 DEF uvm_push_begin_acquire
<1>3. CASE ClaimFirstFails(t)
  BY <1>3 DEF ClaimFirstFails
<1>4. CASE ClaimFails(t)
  BY <1>4 DEF ClaimFails
<1>5. CASE ClaimChunkFails(t)
  BY <1>5 DEF ClaimChunkFails
<1>6. CASE uvm_channel_manager_update_progress(t)
  BY <1>6 DEF uvm_channel_manager_update_progress
<1>7. CASE AcquirePoolLock(t)
  BY <1>7 DEF AcquirePoolLock
<1>8. CASE FinishUpdate(t)
  BY <1>8 DEF FinishUpdate
<1>9. QED BY <1>1, <1>2, <1>3, <1>4, <1>5, <1>6, <1>7, <1>8 DEF Plain

LEMMA PlainLocks ==
  ASSUME PipeInv, NEW t \in Threads, Plain(t), pc'[t] \in {"lock", "mark"}
  PROVE  pc[t] = "lock" /\ update' = update
<1>1. /\ pc \in [Threads -> Labels] /\ update[t].return \in {"idle", "claim", "chunk"}
  BY ThreadTypesNow DEF ThreadTypes, UpdateType
<1>2. CASE \E c \in Channels : uvm_push_begin_on_channel(t, c)
  BY <1>1, <1>2 DEF uvm_push_begin_on_channel, Goto
<1>3. CASE uvm_push_begin_acquire(t)
  BY <1>1, <1>3 DEF uvm_push_begin_acquire, Goto
<1>4. CASE ClaimFirstFails(t)
  BY <1>1, <1>4 DEF ClaimFirstFails, Goto, StartUpdate, At
<1>5. CASE ClaimFails(t)
  BY <1>1, <1>5 DEF ClaimFails, EndCall, Goto, StartUpdate
<1>6. CASE ClaimChunkFails(t)
  BY <1>1, <1>6 DEF ClaimChunkFails, Goto, StartUpdate
<1>7. CASE uvm_channel_manager_update_progress(t)
  BY <1>1, <1>7 DEF uvm_channel_manager_update_progress, Goto, StartUpdate
<1>8. CASE AcquirePoolLock(t)
  BY <1>8 DEF AcquirePoolLock, At
<1>9. CASE FinishUpdate(t)
  BY <1>1, <1>9 DEF FinishUpdate, Goto
<1>10. QED BY <1>2, <1>3, <1>4, <1>5, <1>6, <1>7, <1>8, <1>9 DEF Plain

LEMMA PlainStep ==
  ASSUME PipeInv, NEW t \in Threads, Plain(t)
  PROVE  PipeInv'
<1>0. Quiet(t)
  BY QuietSteps DEF Plain
<1>1. /\ UNCHANGED <<cpu_put, gpu_get, current_pushes_count, next_push_info_index,
                     queued_value, completed_value, gpfifo_entries, on_complete>>
      /\ UNCHANGED <<released, chunk_vars, concurrent_pushes_sema>>
      /\ UNCHANGED <<next_push_start, pending_gpfifos, current_push, idle_chunks,
                     available_chunks>>
      /\ pool_lock' \in {pool_lock, t, NoThread}
  BY PlainLeaves DEF chan_vars, gpu_vars, chunk_vars
<1>2. ThreadTypes' /\ Others(t) /\ ~Writing(t) /\ ~Writing(t)'
  BY <1>0 DEF Quiet
<1>3. ChannelTypes'
  BY <1>1, PipeParts DEF ChannelTypes
<1>4. ChunkTypes'
  BY <1>1, PipeParts DEF ChunkTypes
<1>5. Rings'
  BY <1>1, RingsKept
<1>6. Updates'
  BY <1>1, <1>2, PlainLocks, UpdatesKept
<1>7. AllHolders'
  BY <1>0, <1>1, <1>2, HoldersKept DEF Quiet
<1>8. AdmittedShape'
  BY <1>0, <1>1, <1>2, AdmittedKept DEF Quiet
<1>9. ChunkShape'
  BY <1>1, <1>2, ChunksKept
<1>10. QED BY <1>2, <1>3, <1>4, <1>5, <1>6, <1>7, <1>8, <1>9, PipePartsNext

LEMMA CompletedValueStep ==
  ASSUME PipeInv, NEW t \in Threads, uvm_channel_update_completed_value(t)
  PROVE  PipeInv'
<1>0. Quiet(t)
  BY QuietSteps
<1> DEFINE d == update[t].todo[1][1]
           new == Extend(completed_value[d], released[d] % PayloadRange)
<1>1. /\ UNCHANGED <<cpu_put, gpu_get, current_pushes_count, next_push_info_index,
                     queued_value, gpfifo_entries, on_complete>>
      /\ UNCHANGED <<released, chunk_vars, concurrent_pushes_sema, pool_lock>>
      /\ UNCHANGED <<next_push_start, pending_gpfifos, current_push, idle_chunks,
                     available_chunks>>
      /\ pc[t] = "progress"
      /\ completed_value' = [completed_value EXCEPT ![d] = new]
      /\ update' = [update EXCEPT ![t].completed = new, ![t].count = 0]
  BY DEF uvm_channel_update_completed_value, At, chan_vars, gpu_vars, chunk_vars
<1>2. ThreadTypes' /\ Others(t) /\ ~Writing(t) /\ ~Writing(t)'
  BY <1>0 DEF Quiet
<1>3. d \in Channels /\ update \in [Threads -> UpdateType]
  BY <1>1, ThreadTypesNow, ElementOfSeq, EmptySeq, LenProperties
     DEF ThreadTypes, UpdateType, UpdatePCs
<1>4. new = released[d]
  BY <1>3, UpdateReads
<1>5. update'[t].todo = update[t].todo /\ update'[t].completed = released[d]
  <2> HIDE DEF new, d
  <2>1. QED BY <1>1, <1>3, <1>4 DEF UpdateType
<1> HIDE DEF new
<1>6. /\ completed_value \in [Channels -> Nat] /\ released[d] \in Nat
      /\ completed_value[d] <= released[d]
  BY <1>3, RingTypes DEF PipeInv, PipeTypes, TypeOK, RingShape
<1>x. d = update[t].todo[1][1]
  OBVIOUS
<1> HIDE DEF d
<1>7. /\ completed_value' \in [Channels -> Nat] /\ completed_value'[d] = released[d]
      /\ \A c \in Channels \ {d} : completed_value'[c] = completed_value[c]
  BY <1>1, <1>3, <1>4, <1>6
<1>8. ChannelTypes'
  BY <1>1, <1>7, PipeParts DEF ChannelTypes
<1>9. ChunkTypes'
  BY <1>1, PipeParts DEF ChunkTypes
<1>10. Rings'
  <2> SUFFICES ASSUME NEW c \in Channels
               PROVE  RingShape(c)'
    BY DEF Rings
  <2>1. RingShape(c) /\ queued_value[c] \in Nat /\ released[c] \in Nat
          /\ completed_value[c] \in Nat
        /\ Kept(c) \in Nat
    BY RingTypes
  <2>2. Kept(c)' = Kept(c) /\ \A i : Age(c, i)' = Age(c, i)
    BY <1>1 DEF Kept, Age
  <2>3. QED BY <1>1, <1>6, <1>7, <2>1, <2>2 DEF RingShape
<1>11. Updates'
  <2> SUFFICES ASSUME NEW u \in Threads, pc'[u] \in {"lock", "mark"}
               PROVE  update'[u].completed <= completed_value'[update'[u].todo[1][1]]
    BY DEF Updates, UpdateShape
  <2>1. CASE u = t
    BY <1>5, <1>6, <1>7, <1>x, <2>1
  <2>2. CASE u # t
    <3> DEFINE e == update[u].todo[1][1]
    <3>1. /\ pc[u] \in {"lock", "mark"} /\ update'[u] = update[u] /\ UpdateShape(u)
          /\ update[u].completed \in Nat
      BY <1>2, <2>2, ThreadTypesNow DEF Others, PipeInv, ThreadTypes, UpdateType
    <3>2. e \in Channels
      BY <3>1, ThreadTypesNow, ElementOfSeq, EmptySeq, LenProperties
         DEF ThreadTypes, UpdateType, UpdatePCs
    <3>3. update[u].completed <= completed_value[e]
      BY <3>1 DEF UpdateShape
    <3> HIDE DEF e
    <3>4. completed_value[e] <= completed_value'[e] /\ completed_value[e] \in Nat
          /\ completed_value'[e] \in Nat
      BY <1>6, <1>7, <3>2
    <3>5. update[u].completed <= completed_value'[e]
      BY <3>1, <3>3, <3>4
    <3>6. QED BY <3>1, <3>5 DEF e
  <2>3. QED BY <2>1, <2>2
<1>12. AllHolders'
  BY <1>0, <1>1, <1>2, HoldersKept DEF Quiet
<1>13. AdmittedShape'
  BY <1>0, <1>1, <1>2, AdmittedKept DEF Quiet
<1>14. ChunkShape'
  BY <1>1, <1>2, ChunksKept
<1>15. QED BY <1>2, <1>8, <1>9, <1>10, <1>11, <1>12, <1>13, <1>14, PipePartsNext

\* Steps that leave the threads and the chunks alone.
LEMMA ThreadsKept ==
  ASSUME PipeInv,
         UNCHANGED <<pc, push, update, current_pushes_count, completed_value,
                     concurrent_pushes_sema, next_push_start, pending_gpfifos,
                     current_push, idle_chunks, available_chunks, cpu_put, gpu_get,
                     gpfifo_entries>>
  PROVE  ThreadTypes' /\ Updates' /\ AllHolders' /\ AdmittedShape' /\ ChunkShape'
<1>1. /\ \A t : Reserved(t)' = Reserved(t)
      /\ \A t : Where(t)' = Where(t)
      /\ \A t : Writing(t)' = Writing(t)
      /\ \A k : Extents(k)' = Extents(k)
      /\ \A c, i : InRing(c, i)' = InRing(c, i)
      /\ \A c, i : Listed(c, i)' = Listed(c, i)
      /\ \A c, i : Ending(c, i)' = Ending(c, i)
      /\ \A e : EntryAt(e)' = EntryAt(e)
  BY DEF Reserved, Where, Writing, Extents, EntryAt, InRing, Age, Kept, Listed, Ending
<1>2. ThreadTypes' /\ Updates'
  BY PipeParts DEF ThreadTypes, Updates, UpdateShape
<1>3. AllHolders'
  <2>1. \A c : Holders(c)' = Holders(c)
    BY <1>1 DEF Holders
  <2>2. QED BY <2>1, PipeParts DEF AllHolders, HoldersShape
<1>4. AdmittedShape'
  <2>1. Admitted' = Admitted
    BY <1>1 DEF Admitted
  <2>2. QED BY <2>1, PipeParts DEF AdmittedShape
<1>5. (\A k \in Chunks : MapShape(k))'
  BY <1>1 DEF PipeInv, MapShape
<1>6. (\A k \in Chunks : ListShape(k))'
  BY <1>1 DEF PipeInv, ListShape
<1>7. (\A t \in Threads : PushShape(t))'
  BY <1>1 DEF PipeInv, PushShape
<1>8. Traced'
  BY <1>1 DEF PipeInv, Traced
<1>9. QED BY <1>2, <1>3, <1>4, <1>5, <1>6, <1>7, <1>8 DEF ChunkShape

LEMMA GpuStep ==
  ASSUME PipeInv, NEW c \in Channels, GpuExecutes(c) \/ GpuFails(c)
  PROVE  PipeInv'
<1>1. /\ UNCHANGED <<pc, push, update, current_pushes_count, completed_value,
                     concurrent_pushes_sema, next_push_start, pending_gpfifos,
                     current_push, idle_chunks, available_chunks, cpu_put, gpu_get,
                     gpfifo_entries>>
      /\ UNCHANGED <<next_push_info_index, queued_value, on_complete, pool_lock>>
      /\ \/ released' = released
         \/ released[c] < queued_value[c] /\ released' = [released EXCEPT ![c] = @ + 1]
  BY DEF GpuExecutes, GpuFails, chan_vars, chunk_vars
<1>2. ThreadTypes' /\ Updates' /\ AllHolders' /\ AdmittedShape' /\ ChunkShape'
  BY <1>1, ThreadsKept
<1>3. released \in [Channels -> Nat]
  BY DEF PipeInv, PipeTypes, TypeOK
<1>4. released' \in [Channels -> Nat]
  BY <1>1, <1>3
<1>5. ChannelTypes' /\ ChunkTypes'
  BY <1>1, <1>4, PipeParts DEF ChannelTypes, ChunkTypes
<1>6. Rings'
  <2> SUFFICES ASSUME NEW d \in Channels
               PROVE  RingShape(d)'
    BY DEF Rings
  <2>1. /\ RingShape(d) /\ queued_value[d] \in Nat /\ released[d] \in Nat
        /\ completed_value[d] \in Nat
    BY RingTypes
  <2>2. Kept(d)' = Kept(d) /\ \A i : Age(d, i)' = Age(d, i)
    BY <1>1 DEF Kept, Age
  <2>3. released[d] <= released'[d] /\ released'[d] <= queued_value[d] /\ released'[d] \in Nat
    BY <1>1, <1>3, <2>1 DEF RingShape
  <2>4. QED BY <1>1, <2>1, <2>2, <2>3 DEF RingShape
<1>7. QED BY <1>2, <1>5, <1>6, PipePartsNext

LEMMA OnCompleteStep ==
  ASSUME PipeInv, NEW t \in Threads, SetOnComplete(t)
  PROVE  PipeInv'
<1>1. /\ UNCHANGED <<pc, push, update, current_pushes_count, completed_value,
                     concurrent_pushes_sema, next_push_start, pending_gpfifos,
                     current_push, idle_chunks, available_chunks, cpu_put, gpu_get,
                     gpfifo_entries>>
      /\ UNCHANGED <<next_push_info_index, queued_value, released, pool_lock>>
      /\ on_complete' = [on_complete EXCEPT ![push[t].channel][push[t].info] = t]
  BY DEF SetOnComplete, gpu_vars, chunk_vars
<1>2. ThreadTypes' /\ Updates' /\ AllHolders' /\ AdmittedShape' /\ ChunkShape'
  BY <1>1, ThreadsKept
<1>3. push[t].channel \in Channels /\ push[t].info \in Entries
  BY DEF PipeInv, PipeTypes, PushType
<1>4. on_complete' \in [Channels -> [Entries -> Threads \cup {NoThread}]]
  BY <1>1, <1>3 DEF PipeInv, PipeTypes, TypeOK
<1>5. ChannelTypes' /\ ChunkTypes'
  BY <1>1, <1>4, PipeParts DEF ChannelTypes, ChunkTypes
<1>6. Rings'
  BY <1>1, RingsKept
<1>7. QED BY <1>2, <1>5, <1>6, PipePartsNext

\* An oops, the machine being down, and a stutter.
LEMMA StoppedStep ==
  ASSUME PipeInv, (\E t \in Threads : MarkUnlinkedEntry(t)) \/ Down \/ UNCHANGED vars
  PROVE  PipeInv'
<1>1. /\ UNCHANGED <<pc, push, update, current_pushes_count, completed_value,
                     concurrent_pushes_sema, next_push_start, pending_gpfifos,
                     current_push, idle_chunks, available_chunks, cpu_put, gpu_get,
                     gpfifo_entries>>
      /\ UNCHANGED <<next_push_info_index, queued_value, on_complete, released, pool_lock>>
  BY Zenon DEF MarkUnlinkedEntry, Down, vars, chan_vars, gpu_vars, chunk_vars
<1>2. ThreadTypes' /\ Updates' /\ AllHolders' /\ AdmittedShape' /\ ChunkShape'
  BY <1>1, ThreadsKept
<1>3. ChannelTypes' /\ ChunkTypes'
  BY <1>1, PipeParts DEF ChannelTypes, ChunkTypes
<1>4. Rings'
  BY <1>1, RingsKept
<1>5. QED BY <1>2, <1>3, <1>4, PipePartsNext

LEMMA ClaimChannelStep ==
  ASSUME PipeInv, NEW t \in Threads, ClaimChannel(t)
  PROVE  PipeInv'
<1> DEFINE d == push[t].channel
<1>0. /\ ThreadTypes' /\ Others(t)
      /\ pc[t] \in {"claim_first", "claim"} /\ pc'[t] \in {"idle", "down"}
      /\ pc'[t] = "down" => push'[t] = push[t]
  BY ClaimChannelIs
<1>1. /\ UNCHANGED <<cpu_put, gpu_get, next_push_info_index, completed_value,
                     queued_value, gpfifo_entries, on_complete>>
      /\ UNCHANGED <<released, chunk_vars, concurrent_pushes_sema, pool_lock>>
      /\ UNCHANGED <<next_push_start, pending_gpfifos, current_push, idle_chunks,
                     available_chunks>>
      /\ is_channel_available(d)
      /\ current_pushes_count' = [current_pushes_count EXCEPT ![d] = @ + 1]
  BY DEF ClaimChannel, chan_vars, gpu_vars, chunk_vars
<1>2. d \in Channels /\ current_pushes_count \in [Channels -> Nat]
  BY DEF PipeInv, PipeTypes, PushType, TypeOK
<1>3. ~Writing(t) /\ ~Writing(t)' /\ ~Reserved(t) /\ Where(t)' \notin Past
  BY <1>0 DEF Writing, Reserved, Where, Past, UpdatePCs
<1>x. d = push[t].channel
  OBVIOUS
<1> HIDE DEF d
<1>4. /\ current_pushes_count' \in [Channels -> Nat]
      /\ current_pushes_count'[d] = current_pushes_count[d] + 1
      /\ \A c \in Channels \ {d} : current_pushes_count'[c] = current_pushes_count[c]
  BY <1>1, <1>2
<1>5. ChannelTypes' /\ ChunkTypes'
  BY <1>1, <1>4, PipeParts DEF ChannelTypes, ChunkTypes
<1>6. Kept(d) + current_pushes_count[d] + 1 < numGpFifoEntries
  <2> DEFINE x == cpu_put[d] + current_pushes_count[d] + 1
  <2>1. /\ cpu_put[d] \in Nat /\ current_pushes_count[d] \in Nat /\ gpu_get[d] \in Nat
        /\ gpu_get[d] < numGpFifoEntries /\ cpu_put[d] < numGpFifoEntries
        /\ numGpFifoEntries \in Nat /\ RingShape(d)
    <3>1. /\ cpu_put[d] \in 0 .. (numGpFifoEntries - 1)
          /\ gpu_get[d] \in 0 .. (numGpFifoEntries - 1)
          /\ current_pushes_count[d] \in Nat /\ RingShape(d)
      BY <1>2, RingTypes
    <3>2. QED BY <3>1, ConstantsOK
  <2>2. x % numGpFifoEntries # gpu_get[d] /\ x \in Nat
    BY <1>1, <2>1 DEF is_channel_available
  <2>3. Kept(d) + current_pushes_count[d] < numGpFifoEntries
    BY <2>1 DEF RingShape
  <2>4. CASE Kept(d) + current_pushes_count[d] + 1 = numGpFifoEntries
    <3>1. x = gpu_get[d] \/ x = gpu_get[d] + numGpFifoEntries
      BY <2>1, <2>4 DEF Kept
    <3> HIDE DEF x
    <3>2. x % numGpFifoEntries = gpu_get[d]
      BY <2>1, <2>2, <3>1, RingModulo
    <3>3. QED BY <2>2, <3>2
  <2>5. Kept(d) \in Nat
    BY <1>2, RingTypes, ConstantsOK
  <2> HIDE DEF x
  <2>6. QED BY <2>1, <2>3, <2>4, <2>5
<1>7. Rings'
  <2> SUFFICES ASSUME NEW c \in Channels
               PROVE  RingShape(c)'
    BY DEF Rings
  <2>1. RingShape(c)
    BY RingTypes
  <2>2. Kept(c)' = Kept(c) /\ \A i : Age(c, i)' = Age(c, i)
    BY <1>1 DEF Kept, Age
  <2>3. Kept(c) + current_pushes_count'[c] < numGpFifoEntries
    <3>1. CASE c = d
      BY <1>2, <1>4, <1>6, <3>1, RingTypes
    <3>2. CASE c # d
      BY <1>4, <2>1, <3>2 DEF RingShape
    <3>3. QED BY <3>1, <3>2
  <2>4. QED BY <1>1, <2>1, <2>2, <2>3 DEF RingShape
<1>8. Updates'
  BY <1>0, <1>1, UpdatesKept
<1>9. AllHolders'
  <2> SUFFICES ASSUME NEW c \in Channels
               PROVE  HoldersShape(c)'
    BY DEF AllHolders
  <2> DEFINE S == Holders(c)
             T == Holders(c)'
  <2>1. /\ IsFiniteSet(S) /\ Cardinality(S) <= current_pushes_count[c]
        /\ current_pushes_count[c] \in Nat
    BY <1>2 DEF PipeInv, HoldersShape
  <2>2. (\A u : u # t => (u \in T <=> u \in S)) /\ t \notin S
    BY <1>0, <1>3 DEF Holders, Others, Reserved
  <2>3. t \in T => c = d
    BY <1>0, <1>x DEF Holders, Reserved, UpdatePCs
  <2> HIDE DEF S, T
  <2>4. /\ IsFiniteSet(T) /\ Cardinality(S) \in Nat /\ Cardinality(T) \in Nat
        /\ (t \in T => Cardinality(T) = Cardinality(S) + 1)
        /\ (t \notin T => Cardinality(T) = Cardinality(S))
    BY <2>1, <2>2, OneMoves
  <2>5. Cardinality(T) <= current_pushes_count'[c]
    BY <1>2, <1>4, <2>1, <2>3, <2>4
  <2>6. QED BY <2>4, <2>5 DEF HoldersShape, T
<1>10. AdmittedShape'
  BY <1>0, <1>1, <1>3, AdmittedKept
<1>11. ChunkShape'
  BY <1>0, <1>1, <1>3, ChunksKept
<1>12. QED BY <1>0, <1>5, <1>7, <1>8, <1>9, <1>10, <1>11, PipePartsNext

\* The steps of the semaphore.
LEMMA DownStep ==
  ASSUME PipeInv, NEW t \in Threads, uvm_down(t)
  PROVE  PipeInv'
<1>0. ThreadTypes' /\ Others(t) /\ push' = push /\ pc[t] = "down" /\ pc'[t] = "chunk_first"
  BY DownIs
<1>1. /\ UNCHANGED <<cpu_put, gpu_get, current_pushes_count, next_push_info_index,
                     queued_value, completed_value, gpfifo_entries, on_complete>>
      /\ UNCHANGED <<released, chunk_vars, pool_lock>>
      /\ UNCHANGED <<next_push_start, pending_gpfifos, current_push, idle_chunks,
                     available_chunks>>
      /\ concurrent_pushes_sema > 0
      /\ concurrent_pushes_sema' = concurrent_pushes_sema - 1
  BY DEF uvm_down, chan_vars, gpu_vars, chunk_vars
<1>2. concurrent_pushes_sema \in 0 .. NumChunks /\ NumChunks \in Nat
  BY ConstantsOK DEF PipeInv, PipeTypes, TypeOK
<1>3. ChannelTypes'
  BY <1>1, PipeParts DEF ChannelTypes
<1>4. ChunkTypes'
  <2>1. concurrent_pushes_sema' \in 0 .. NumChunks
    BY <1>1, <1>2
  <2>2. QED BY <1>1, <2>1, PipeParts DEF ChunkTypes
<1>5. Rings'
  BY <1>1, RingsKept
<1>6. Updates'
  BY <1>0, <1>1, UpdatesKept
<1>7. AllHolders'
  BY <1>0, <1>1, HoldersKept DEF Reserved, UpdatePCs
<1>8. AdmittedShape'
  <2> DEFINE S == Admitted
             T == Admitted'
  <2>1. /\ IsFiniteSet(S) /\ concurrent_pushes_sema + Cardinality(S) <= NumChunks
    BY DEF PipeInv, AdmittedShape
  <2>2. /\ \A u : u # t => (u \in T <=> u \in S)
        /\ t \notin S /\ t \in T
    BY <1>0 DEF Admitted, Others, Where, Past, UpdatePCs
  <2> HIDE DEF S, T
  <2>3. /\ IsFiniteSet(T) /\ Cardinality(S) \in Nat /\ Cardinality(T) = Cardinality(S) + 1
    BY <2>1, <2>2, OneMoves
  <2>4. concurrent_pushes_sema' + Cardinality(T) <= NumChunks
    BY <1>1, <1>2, <2>1, <2>3
  <2>5. QED BY <2>3, <2>4 DEF AdmittedShape, T
<1>9. ChunkShape'
  BY <1>0, <1>1, ChunksKept DEF Writing
<1>10. QED BY <1>0, <1>3, <1>4, <1>5, <1>6, <1>7, <1>8, <1>9, PipePartsNext

LEMMA UpStep ==
  ASSUME PipeInv, NEW t \in Threads, uvm_up(t)
  PROVE  PipeInv'
<1>0. ThreadTypes' /\ Others(t) /\ pc[t] = "up" /\ pc'[t] = "idle"
  BY UpIs
<1>1. /\ UNCHANGED <<cpu_put, gpu_get, current_pushes_count, next_push_info_index,
                     queued_value, completed_value, gpfifo_entries, on_complete>>
      /\ UNCHANGED <<released, chunk_vars, pool_lock>>
      /\ UNCHANGED <<next_push_start, pending_gpfifos, current_push, idle_chunks,
                     available_chunks>>
      /\ concurrent_pushes_sema' = concurrent_pushes_sema + 1
  BY DEF uvm_up, chan_vars, gpu_vars, chunk_vars
<1>2. /\ concurrent_pushes_sema + 1 \in 0 .. NumChunks /\ NumChunks \in Nat
      /\ concurrent_pushes_sema \in Nat
  <2>1. t \in Admitted
    BY <1>0 DEF Admitted, Where, Past, UpdatePCs
  <2>2. concurrent_pushes_sema \in 0 .. NumChunks
    BY DEF PipeInv, PipeTypes, TypeOK
  <2>3. QED BY <2>1, <2>2, AdmittedCounts, ConstantsOK
<1>3. ChannelTypes'
  BY <1>1, PipeParts DEF ChannelTypes
<1>4. ChunkTypes'
  BY <1>1, <1>2, PipeParts DEF ChunkTypes
<1>5. Rings'
  BY <1>1, RingsKept
<1>6. Updates'
  BY <1>0, <1>1, UpdatesKept
<1>7. AllHolders'
  BY <1>0, <1>1, HoldersKept DEF Reserved, UpdatePCs
<1>8. AdmittedShape'
  <2> DEFINE S == Admitted
             T == Admitted'
  <2>1. /\ IsFiniteSet(S) /\ concurrent_pushes_sema + Cardinality(S) <= NumChunks
    BY DEF PipeInv, AdmittedShape
  <2>2. /\ \A u : u # t => (u \in T <=> u \in S)
        /\ t \in S /\ t \notin T
    BY <1>0 DEF Admitted, Others, Where, Past, UpdatePCs
  <2> HIDE DEF S, T
  <2>3. /\ IsFiniteSet(T) /\ Cardinality(S) \in Nat /\ Cardinality(T) = Cardinality(S) - 1
        /\ Cardinality(T) \in Nat
    BY <2>1, <2>2, OneMoves
  <2>4. concurrent_pushes_sema' + Cardinality(T) <= NumChunks
    BY <1>1, <1>2, <2>1, <2>3
  <2>5. QED BY <2>3, <2>4 DEF AdmittedShape, T
<1>9. ChunkShape'
  BY <1>0, <1>1, ChunksKept DEF Writing
<1>10. QED BY <1>0, <1>3, <1>4, <1>5, <1>6, <1>7, <1>8, <1>9, PipePartsNext

LEMMA IndexStep ==
  ASSUME PipeInv, NEW t \in Threads, channel_get_next_push_info_index(t)
  PROVE  PipeInv'
<1>0. ThreadTypes' /\ Others(t) /\ SamePush(t) /\ pc[t] = "index" /\ pc'[t] = "push"
  BY IndexIs
<1> DEFINE d == push[t].channel
<1>1. /\ UNCHANGED <<cpu_put, gpu_get, current_pushes_count,
                     queued_value, completed_value, gpfifo_entries, on_complete>>
      /\ UNCHANGED <<released, concurrent_pushes_sema, pool_lock>>
      /\ UNCHANGED <<next_push_start, pending_gpfifos, current_push, idle_chunks,
                     available_chunks>>
      /\ next_push_info_index' =
           [next_push_info_index EXCEPT ![d] = (next_push_info_index[d] + 1) % numGpFifoEntries]
  BY DEF channel_get_next_push_info_index, gpu_vars, chunk_vars
<1>2. next_push_info_index' \in [Channels -> Entries]
  <2>1. d \in Channels /\ next_push_info_index \in [Channels -> Entries]
    BY DEF PipeInv, PipeTypes, PushType, TypeOK
  <2>2. next_push_info_index[d] + 1 \in Nat
    BY <2>1 DEF Entries
  <2>3. (next_push_info_index[d] + 1) % numGpFifoEntries \in Entries
    BY <2>2, RingModulo
  <2>4. QED BY <1>1, <2>1, <2>3
<1>3. ChannelTypes'
  BY <1>1, <1>2, PipeParts DEF ChannelTypes
<1>4. ChunkTypes'
  BY <1>1, PipeParts DEF ChunkTypes
<1>5. Rings'
  BY <1>1, RingsKept
<1>6. Updates'
  BY <1>0, <1>1, UpdatesKept
<1>7. AllHolders'
  BY <1>0, <1>1, HoldersKept DEF Reserved, UpdatePCs, SamePush
<1>8. AdmittedShape'
  BY <1>0, <1>1, AdmittedKept DEF Where, UpdatePCs, Past
<1>9. ChunkShape'
  <2>1. /\ \A k : Extents(k)' = Extents(k)
        /\ \A c, i : InRing(c, i)' = InRing(c, i)
        /\ \A c, i : Listed(c, i)' = Listed(c, i)
        /\ \A e : EntryAt(e)' = EntryAt(e)
    BY <1>1 DEF Extents, EntryAt, InRing, Age, Kept, Listed
  <2>2. \A c, i : Ending(c, i) => Ending(c, i)'
    BY <1>0 DEF Ending, Others
  <2>3. (\A k \in Chunks : MapShape(k) /\ ListShape(k))'
    BY <1>1, <2>1 DEF PipeInv, MapShape, ListShape
  <2>4. (\A u \in Threads : PushShape(u))'
    <3> SUFFICES ASSUME NEW u \in Threads
                 PROVE  PushShape(u)'
      OBVIOUS
    <3>1. PushShape(u)
      BY DEF PipeInv
    <3>2. CASE u = t
      BY <1>0, <1>1, <2>1, <3>1, <3>2 DEF PushShape, SamePush, Writing
    <3>3. CASE u # t
      BY <1>0, <1>1, <2>1, <3>1, <3>3 DEF PushShape, Others, Writing
    <3>4. QED BY <3>2, <3>3
  <2>5. Traced'
    BY <2>1, <2>2 DEF PipeInv, Traced
  <2>6. QED BY <2>3, <2>4, <2>5 DEF ChunkShape
<1>10. QED BY <1>0, <1>3, <1>4, <1>5, <1>6, <1>7, <1>8, <1>9, PipePartsNext

\* A claimed chunk had nobody writing in it, and has room where the push begins.
LEMMA ClaimChunkStep ==
  ASSUME PipeInv, NEW t \in Threads, ClaimChunk(t)
  PROVE  PipeInv'
<1> DEFINE j == pick_chunk
<1>0. /\ ThreadTypes' /\ Others(t)
      /\ pc[t] \in {"chunk_first", "chunk"} /\ pc'[t] \in {"up", "index"}
      /\ push'[t].channel = push[t].channel /\ push'[t].chunk = j
      /\ push'[t].begin = next_push_start[j]
      /\ j \in Chunks /\ j \in idle_chunks \cup available_chunks
  BY ClaimChunkIs
<1>1. /\ UNCHANGED <<cpu_put, gpu_get, current_pushes_count, next_push_info_index,
                     queued_value, completed_value, gpfifo_entries, on_complete>>
      /\ UNCHANGED <<released, concurrent_pushes_sema, pool_lock>>
      /\ UNCHANGED <<next_push_start, pending_gpfifos>>
      /\ current_push' = [current_push EXCEPT ![j] = t]
      /\ idle_chunks' = idle_chunks \ {j} /\ available_chunks' = available_chunks \ {j}
  BY DEF ClaimChunk, chan_vars, gpu_vars
<1> HIDE DEF j
<1>2. current_push \in [Chunks -> Threads \cup {NoThread, OtherPool}]
  BY DEF PipeInv, PipeTypes, TypeOK
<1>3. /\ current_push' \in [Chunks -> Threads \cup {NoThread, OtherPool}]
      /\ current_push'[j] = t
      /\ \A k \in Chunks \ {j} : current_push'[k] = current_push[k]
  BY <1>0, <1>1, <1>2
<1>4. ChannelTypes' /\ ChunkTypes'
  BY <1>1, <1>3, PipeParts DEF ChannelTypes, ChunkTypes
<1>5. Rings'
  BY <1>1, RingsKept
<1>6. Updates'
  BY <1>0, <1>1, UpdatesKept
<1>7. AllHolders'
  BY <1>0, <1>1, HoldersKept DEF Reserved, UpdatePCs
<1>8. AdmittedShape'
  BY <1>0, <1>1, AdmittedKept DEF Where, UpdatePCs, Past
<1>9. current_push[j] = NoThread /\ Fits(Extents(j), next_push_start[j])
  BY <1>0 DEF PipeInv, MapShape
<1>10. ChunkShape'
  <2>1. /\ \A k : Extents(k)' = Extents(k)
        /\ \A c, i : InRing(c, i)' = InRing(c, i)
        /\ \A c, i : Listed(c, i)' = Listed(c, i)
        /\ \A e : EntryAt(e)' = EntryAt(e)
    BY <1>1 DEF Extents, EntryAt, InRing, Age, Kept, Listed
  <2>2. \A c, i : Ending(c, i) => Ending(c, i)'
    BY <1>0 DEF Ending, Others
  <2>3. (\A k \in Chunks : MapShape(k))'
    <3> SUFFICES ASSUME NEW k \in Chunks
                 PROVE  MapShape(k)'
      OBVIOUS
    <3>1. MapShape(k) /\ t # NoThread
      BY PushPipelineAssumption DEF PipeInv
    <3>2. QED BY <1>1, <1>3, <2>1, <3>1 DEF MapShape
  <2>4. (\A k \in Chunks : ListShape(k))'
    BY <1>1, <2>1 DEF PipeInv, ListShape
  <2>5. (\A u \in Threads : PushShape(u))'
    <3> SUFFICES ASSUME NEW u \in Threads
                 PROVE  PushShape(u)'
      OBVIOUS
    <3>1. PushShape(u) /\ push[u].chunk \in Chunks
      BY DEF PipeInv, PipeTypes, PushType
    <3>2. CASE u = t
      BY <1>0, <1>1, <1>3, <1>9, <2>1, <3>2 DEF PushShape, Writing
    <3>3. CASE u # t
      <4>1. Writing(u) => push[u].chunk # j
        BY <1>9, <3>1, PushPipelineAssumption DEF PushShape
      <4>2. pc[u] = "end" => Writing(u)
        BY DEF Writing
      <4>3. QED BY <1>0, <1>1, <1>3, <2>1, <3>1, <3>3, <4>1, <4>2 DEF PushShape, Others, Writing
    <3>4. QED BY <3>2, <3>3
  <2>6. Traced'
    BY <2>1, <2>2 DEF PipeInv, Traced
  <2>7. QED BY <2>3, <2>4, <2>5, <2>6 DEF ChunkShape
<1>11. QED BY <1>0, <1>4, <1>5, <1>6, <1>7, <1>8, <1>10, PipePartsNext

\* The list of a chunk, and its extents.
LEMMA ListIs ==
  ASSUME PipeInv, NEW k \in Chunks
  PROVE  /\ pending_gpfifos[k] \in Seq(Channels \X Entries)
         /\ Extents(k) \in Seq(EntryType) /\ Len(Extents(k)) = Len(pending_gpfifos[k])
         /\ Len(pending_gpfifos[k]) \in Nat
         /\ \A n \in 1 .. Len(pending_gpfifos[k]) :
               /\ pending_gpfifos[k][n] \in Channels \X Entries
               /\ Extents(k)[n] = EntryAt(pending_gpfifos[k][n])
         /\ Laid(Extents(k))
         /\ \A n \in 1 .. Len(pending_gpfifos[k]) :
               /\ EntryAt(pending_gpfifos[k][n]).chunk = k
               /\ InRing(pending_gpfifos[k][n][1], pending_gpfifos[k][n][2])
<1> DEFINE list == pending_gpfifos[k]
<1>1. list \in Seq(Channels \X Entries)
  BY DEF PipeInv, PipeTypes
<1>2. Len(list) \in Nat /\ \A n \in 1 .. Len(list) : list[n] \in Channels \X Entries
  BY <1>1, ElementOfSeq, LenProperties
<1>3. \A e \in Channels \X Entries : EntryAt(e) \in EntryType
  BY DEF PipeInv, PipeTypes, EntryAt
<1>4. Extents(k) = [n \in 1 .. Len(list) |-> EntryAt(list[n])]
  BY <1>1, LenProperties DEF Extents
<1>5. Extents(k) \in Seq(EntryType) /\ Len(Extents(k)) = Len(list)
  BY <1>2, <1>3, <1>4, IsASeq, LenProperties
<1>6. ListShape(k)
  BY DEF PipeInv
<1>7. QED BY <1>1, <1>2, <1>4, <1>5, <1>6 DEF ListShape

\* The push is published in a slot that no list refers to.
LEMMA EndPushRing ==
  ASSUME PipeInv, NEW t \in Threads, NEW size \in PushSizes, uvm_channel_end_push(t, size),
         NEW d, d = push[t].channel, NEW p, p = cpu_put[d]
  PROVE  /\ d \in Channels /\ p \in Entries /\ push[t].chunk \in Chunks
         /\ ChannelTypes' /\ Rings'
         /\ gpfifo_entries'[d][p].chunk = push[t].chunk
         /\ gpfifo_entries'[d][p].start = push[t].begin
         /\ ~InRing(d, p) /\ InRing(d, p)'
         /\ \A c \in Channels, i \in Entries :
               <<c, i>> # <<d, p>> =>
                  (InRing(c, i)' <=> InRing(c, i))
                    /\ gpfifo_entries'[c][i] = gpfifo_entries[c][i]
<1> DEFINE N == numGpFifoEntries
           entry == [value |-> queued_value[d] + 1, chunk |-> push[t].chunk,
                     start |-> push[t].begin, size |-> size, info |-> push[t].info]
<1>1. /\ push[t] \in PushType /\ d \in Channels /\ push[t].chunk \in Chunks
      /\ push[t].begin \in 0 .. ChunkSize /\ push[t].info \in Entries
  BY DEF PipeInv, PipeTypes, PushType
<1>2. /\ p \in 0 .. (N - 1) /\ gpu_get[d] \in 0 .. (N - 1) /\ Kept(d) \in 0 .. (N - 1)
      /\ current_pushes_count[d] \in Nat /\ queued_value[d] \in Nat
      /\ completed_value[d] \in Nat /\ released[d] \in Nat
      /\ RingShape(d) /\ N \in Nat /\ N > 0
  BY <1>1, RingTypes, ConstantsOK
<1>3. Reserved(t)
  BY DEF uvm_channel_end_push, At, Reserved, UpdatePCs
<1>4. current_pushes_count[d] >= 1
  BY <1>3, ReservedCounts
<1>5. entry \in EntryType
  <2>1. size \in 1 .. MaxPushSize
    BY PushPipelineAssumption
  <2>2. QED BY <1>1, <1>2, <2>1 DEF EntryType
<1>6. /\ queued_value' = [queued_value EXCEPT ![d] = queued_value[d] + 1]
      /\ gpfifo_entries' = [gpfifo_entries EXCEPT ![d][p] = entry]
      /\ current_pushes_count' = [current_pushes_count EXCEPT ![d] = current_pushes_count[d] - 1]
      /\ cpu_put' = [cpu_put EXCEPT ![d] = (p + 1) % N]
      /\ UNCHANGED <<gpu_get, next_push_info_index, completed_value, on_complete, released>>
  BY DEF uvm_channel_end_push, gpu_vars
<1>7. entry.value = queued_value[d] + 1 /\ entry.chunk = push[t].chunk
        /\ entry.start = push[t].begin
  OBVIOUS
<1>8. p \in Entries /\ p = cpu_put[d]
  BY <1>2 DEF Entries
<1> HIDE DEF entry
<1>9. ChannelTypes
  BY PipeParts
<1>10. /\ (p + 1) % N \in Entries
       /\ (p + 1 < N => (p + 1) % N = p + 1) /\ (p + 1 = N => (p + 1) % N = 0)
  BY <1>2, RingModulo
<1>11. /\ ChannelTypes'
       /\ cpu_put'[d] = (p + 1) % N /\ queued_value'[d] = queued_value[d] + 1
       /\ current_pushes_count'[d] = current_pushes_count[d] - 1
       /\ gpfifo_entries'[d][p] = entry
       /\ \A i \in Entries \ {p} : gpfifo_entries'[d][i] = gpfifo_entries[d][i]
       /\ \A c \in Channels \ {d} :
             /\ cpu_put'[c] = cpu_put[c] /\ queued_value'[c] = queued_value[c]
             /\ current_pushes_count'[c] = current_pushes_count[c]
             /\ gpfifo_entries'[c] = gpfifo_entries[c]
  <2>1. current_pushes_count[d] - 1 \in Nat /\ queued_value[d] + 1 \in Nat
    BY <1>2, <1>4
  <2>2. QED BY <1>1, <1>5, <1>6, <1>8, <1>9, <1>10, <2>1 DEF ChannelTypes
<1>12. Kept(d)' = Kept(d) + 1
  <2>1. Kept(d) + 1 < N
    BY <1>2, <1>4 DEF RingShape
  <2>2. gpu_get'[d] = gpu_get[d]
    BY <1>6
  <2>3. /\ Kept(d) = p - gpu_get[d] + IF p >= gpu_get[d] THEN 0 ELSE N
        /\ Kept(d)' = cpu_put'[d] - gpu_get[d]
                        + IF cpu_put'[d] >= gpu_get[d] THEN 0 ELSE N
    BY <1>8, <2>2 DEF Kept
  <2>4. CASE p + 1 < N
    <3>1. (p + 1) % N = p + 1
      BY <1>10, <2>4, Zenon
    <3>2. cpu_put'[d] = p + 1
      BY <1>11, <3>1, Zenon
    <3>3. QED BY <1>2, <2>1, <2>3, <2>4, <3>2
  <2>5. CASE p + 1 = N
    <3>1. (p + 1) % N = 0
      BY <1>10, <2>5, Zenon
    <3>2. cpu_put'[d] = 0
      BY <1>11, <3>1, Zenon
    <3>3. QED BY <1>2, <2>1, <2>3, <2>5, <3>2
  <2>6. p + 1 < N \/ p + 1 = N
    BY <1>2
  <2>7. QED BY <2>4, <2>5, <2>6
<1>13. Age(d, p) = N /\ Age(d, p)' = 1
  <2>1. CASE p + 1 < N
    BY <1>2, <1>8, <1>10, <1>11, <2>1 DEF Age
  <2>2. CASE p + 1 = N
    BY <1>2, <1>8, <1>10, <1>11, <2>2 DEF Age
  <2>3. p + 1 < N \/ p + 1 = N
    BY <1>2
  <2>4. QED BY <2>1, <2>2, <2>3
<1>14. ASSUME NEW i \in Entries \ {p}
       PROVE  Age(d, i)' = Age(d, i) + 1
  <2>1. i \in 0 .. (N - 1)
    BY DEF Entries
  <2>2. CASE p + 1 < N
    <3>1. cpu_put'[d] = p + 1
      BY <1>10, <1>11, <2>2
    <3>2. Age(d, i) = p - i + IF i < p THEN 0 ELSE N
      BY <1>8 DEF Age
    <3>3. Age(d, i)' = p + 1 - i + IF i < p + 1 THEN 0 ELSE N
      BY <1>2, <2>1, <3>1 DEF Age
    <3>4. i # p
      OBVIOUS
    <3>5. QED BY <1>2, <2>1, <3>2, <3>3, <3>4
  <2>3. CASE p + 1 = N
    <3>1. cpu_put'[d] = 0
      BY <1>10, <1>11, <2>3
    <3>2. i < p
      BY <1>2, <2>1, <2>3
    <3>3. Age(d, i)' = N - i
      BY <1>2, <2>1, <3>1 DEF Age
    <3>4. Age(d, i) = p - i
      BY <1>2, <1>8, <2>1, <3>2 DEF Age
    <3>5. QED BY <1>2, <2>1, <2>3, <3>3, <3>4
  <2>4. p + 1 < N \/ p + 1 = N
    BY <1>2
  <2>5. QED BY <2>2, <2>3, <2>4
<1>15. \A c \in Channels \ {d} : Kept(c)' = Kept(c) /\ \A i : Age(c, i)' = Age(c, i)
  BY <1>6, <1>11 DEF Kept, Age
<1>16. Rings'
  <2> SUFFICES ASSUME NEW c \in Channels
               PROVE  RingShape(c)'
    BY DEF Rings
  <2>1. CASE c # d
    <3>1. RingShape(c)
      BY RingTypes
    <3>2. QED BY <1>6, <1>11, <1>15, <2>1, <3>1 DEF RingShape
  <2>2. CASE c = d
    <3>1. /\ completed_value'[d] = completed_value[d] /\ released'[d] = released[d]
          /\ \A i \in Entries : Age(d, i) \in 1 .. N
      BY <1>1, <1>6, RingTypes
    <3>2. /\ Kept(d)' + current_pushes_count'[d] < N
          /\ Kept(d)' <= queued_value'[d]
          /\ queued_value'[d] - Kept(d)' <= completed_value'[d]
          /\ completed_value'[d] <= released'[d]
          /\ released'[d] <= queued_value'[d]
      BY <1>2, <1>11, <1>12, <3>1 DEF RingShape
    <3>3. ASSUME NEW i \in Entries
          PROVE  gpfifo_entries'[d][i].value =
                    IF Age(d, i)' <= queued_value'[d] THEN queued_value'[d] - Age(d, i)' + 1 ELSE 0
      <4>1. CASE i = p
        BY <1>2, <1>7, <1>11, <1>13, <4>1
      <4>2. CASE i # p
        <5>1. gpfifo_entries[d][i].value =
                 IF Age(d, i) <= queued_value[d] THEN queued_value[d] - Age(d, i) + 1 ELSE 0
          BY <1>2 DEF RingShape
        <5>2. Age(d, i)' = Age(d, i) + 1 /\ Age(d, i) \in Nat
          BY <1>14, <3>1, <4>2
        <5>3. QED BY <1>2, <1>11, <4>2, <5>1, <5>2
      <4>3. QED BY <4>1, <4>2
    <3>4. QED BY <2>2, <3>2, <3>3 DEF RingShape
  <2>3. QED BY <2>1, <2>2
<1>17. ~InRing(d, p) /\ InRing(d, p)'
  BY <1>2, <1>12, <1>13 DEF InRing
<1>18. ASSUME NEW c \in Channels, NEW i \in Entries, <<c, i>> # <<d, p>>
       PROVE  (InRing(c, i)' <=> InRing(c, i)) /\ gpfifo_entries'[c][i] = gpfifo_entries[c][i]
  <2>1. CASE c # d
    BY <1>11, <1>15, <2>1 DEF InRing
  <2>2. CASE c = d
    <3>1. i # p /\ Age(d, i) \in Nat
      BY <1>1, <1>18, <2>2, RingTypes
    <3>2. QED BY <1>2, <1>11, <1>12, <1>14, <2>2, <3>1 DEF InRing
  <2>3. QED BY <2>1, <2>2
<1>19. QED BY <1>1, <1>7, <1>8, <1>11, <1>16, <1>17, <1>18

LEMMA EndPushStep ==
  ASSUME PipeInv, NEW t \in Threads, NEW size \in PushSizes, uvm_channel_end_push(t, size)
  PROVE  PipeInv'
<1>d. SUFFICES ASSUME NEW d, d = push[t].channel, NEW p, p = cpu_put[d]
               PROVE  PipeInv'
  OBVIOUS
<1>0. /\ ThreadTypes' /\ Others(t) /\ pc[t] = "push" /\ pc'[t] = "end"
      /\ push'[t].channel = d /\ push'[t].chunk = push[t].chunk
      /\ push'[t].begin = push[t].begin /\ push'[t].entry = p
  BY <1>d, EndPushIs
<1>1. /\ d \in Channels /\ p \in Entries /\ push[t].chunk \in Chunks
      /\ ChannelTypes' /\ Rings'
      /\ gpfifo_entries'[d][p].chunk = push[t].chunk
      /\ gpfifo_entries'[d][p].start = push[t].begin
      /\ ~InRing(d, p) /\ InRing(d, p)'
      /\ \A c \in Channels, i \in Entries :
            <<c, i>> # <<d, p>> =>
               (InRing(c, i)' <=> InRing(c, i)) /\ gpfifo_entries'[c][i] = gpfifo_entries[c][i]
  BY <1>d, EndPushRing
<1>2. /\ UNCHANGED <<next_push_start, pending_gpfifos, current_push, idle_chunks,
                     available_chunks, concurrent_pushes_sema, pool_lock, completed_value>>
      /\ current_pushes_count' = [current_pushes_count EXCEPT ![d] = current_pushes_count[d] - 1]
  BY <1>d DEF uvm_channel_end_push, chunk_vars
<1>x. d = push[t].channel /\ current_pushes_count \in [Channels -> Nat]
  BY <1>d DEF PipeInv, PipeTypes, TypeOK
<1>3. ChunkTypes'
  BY <1>2, PipeParts DEF ChunkTypes
<1>4. Updates'
  BY <1>0, <1>2, UpdatesKept
<1>5. AllHolders'
  <2> SUFFICES ASSUME NEW c \in Channels
               PROVE  HoldersShape(c)'
    BY DEF AllHolders
  <2> DEFINE S == Holders(c)
             T == Holders(c)'
  <2>1. /\ IsFiniteSet(S) /\ Cardinality(S) <= current_pushes_count[c]
        /\ current_pushes_count[c] \in Nat
    BY <1>x DEF PipeInv, HoldersShape
  <2>2. (\A u : u # t => (u \in T <=> u \in S)) /\ t \notin T
    BY <1>0 DEF Holders, Others, Reserved, UpdatePCs
  <2>3. c = d => t \in S
    BY <1>0, <1>x DEF Holders, Reserved, UpdatePCs
  <2> HIDE DEF S, T
  <2>4. /\ IsFiniteSet(T) /\ Cardinality(S) \in Nat /\ Cardinality(T) \in Nat
        /\ (t \in S => Cardinality(T) = Cardinality(S) - 1)
        /\ (t \notin S => Cardinality(T) = Cardinality(S))
    BY <2>1, <2>2, OneMoves
  <2>5. Cardinality(T) <= current_pushes_count'[c]
    <3>1. CASE c = d
      <4>1. current_pushes_count'[c] = current_pushes_count[c] - 1
        BY <1>1, <1>2, <1>x, <3>1
      <4>2. QED BY <2>1, <2>3, <2>4, <3>1, <4>1
    <3>2. CASE c # d
      <4>1. current_pushes_count'[c] = current_pushes_count[c]
        BY <1>1, <1>2, <1>x, <3>2
      <4>2. QED BY <2>1, <2>4, <4>1
    <3>3. QED BY <3>1, <3>2
  <2>6. QED BY <2>4, <2>5 DEF HoldersShape, T
<1>6. AdmittedShape'
  BY <1>0, <1>2, AdmittedKept DEF Where, UpdatePCs, Past
<1>7. \A k \in Chunks : \A n \in 1 .. Len(pending_gpfifos[k]) :
          /\ pending_gpfifos[k][n] \in Channels \X Entries
          /\ pending_gpfifos[k][n] # <<d, p>>
          /\ EntryAt(pending_gpfifos[k][n])' = EntryAt(pending_gpfifos[k][n])
          /\ InRing(pending_gpfifos[k][n][1], pending_gpfifos[k][n][2])'
  <2> SUFFICES ASSUME NEW k \in Chunks, NEW n \in 1 .. Len(pending_gpfifos[k])
               PROVE  /\ pending_gpfifos[k][n] \in Channels \X Entries
                      /\ pending_gpfifos[k][n] # <<d, p>>
                      /\ EntryAt(pending_gpfifos[k][n])' = EntryAt(pending_gpfifos[k][n])
                      /\ InRing(pending_gpfifos[k][n][1], pending_gpfifos[k][n][2])'
    OBVIOUS
  <2>1. /\ pending_gpfifos[k][n] \in Channels \X Entries
        /\ InRing(pending_gpfifos[k][n][1], pending_gpfifos[k][n][2])
    BY ListIs
  <2> DEFINE e == pending_gpfifos[k][n]
  <2>2. e # <<d, p>>
    BY <1>1, <2>1
  <2>3. <<e[1], e[2]>> = e /\ e[1] \in Channels /\ e[2] \in Entries
    BY <2>1
  <2>5. e' = e
    BY <1>2
  <2> HIDE DEF e
  <2>4. (InRing(e[1], e[2])' <=> InRing(e[1], e[2]))
          /\ gpfifo_entries'[e[1]][e[2]] = gpfifo_entries[e[1]][e[2]]
    BY <1>1, <2>2, <2>3, <2>5
  <2>6. QED BY <2>1, <2>2, <2>4, <2>5 DEF EntryAt, e
<1>8. \A k \in Chunks : Extents(k)' = Extents(k)
  <2> SUFFICES ASSUME NEW k \in Chunks
               PROVE  Extents(k)' = Extents(k)
    OBVIOUS
  <2>1. DOMAIN pending_gpfifos[k] = 1 .. Len(pending_gpfifos[k])
    BY ListIs, LenProperties
  <2>2. QED BY <1>2, <1>7, <2>1 DEF Extents, EntryAt
<1>9. ChunkShape'
  <2>1. (\A k \in Chunks : MapShape(k))'
    BY <1>2, <1>8 DEF PipeInv, MapShape
  <2>2. (\A k \in Chunks : ListShape(k))'
    BY <1>2, <1>7, <1>8 DEF PipeInv, ListShape, EntryAt
  <2>3. (\A u \in Threads : PushShape(u))'
    <3> SUFFICES ASSUME NEW u \in Threads
                 PROVE  PushShape(u)'
      OBVIOUS
    <3>1. PushShape(u) /\ push[u] \in PushType /\ push[u].chunk \in Chunks
      BY DEF PipeInv, PipeTypes, PushType
    <3>2. CASE u = t
      BY <1>0, <1>1, <1>2, <1>7, <1>8, <3>1, <3>2 DEF PushShape, Writing
    <3>3. CASE u # t
      <4> SUFFICES ASSUME NEW c, c = push[u].channel, NEW i, i = push[u].entry,
                          NEW k, k = push[u].chunk
                   PROVE  PushShape(u)'
        OBVIOUS
      <4>1. pc'[u] = pc[u] /\ push'[u] = push[u]
        BY <1>0, <3>3 DEF Others
      <4>2. Writing(u) => current_push'[k] = u /\ Fits(Extents(k)', push[u].begin)
        BY <1>2, <1>8, <3>1 DEF PushShape
      <4>3. ASSUME pc[u] = "end"
            PROVE  /\ InRing(c, i)' /\ gpfifo_entries'[c][i].chunk = k
                   /\ gpfifo_entries'[c][i].start = push[u].begin
                   /\ \A n \in 1 .. Len(pending_gpfifos[k]) : pending_gpfifos[k][n] # <<c, i>>
        <5>1. c \in Channels /\ i \in Entries
          BY <3>1 DEF PushType
        <5>2. /\ InRing(c, i) /\ gpfifo_entries[c][i].chunk = k
              /\ gpfifo_entries[c][i].start = push[u].begin
              /\ \A n \in 1 .. Len(pending_gpfifos[k]) : pending_gpfifos[k][n] # <<c, i>>
          BY <3>1, <4>3 DEF PushShape
        <5>3. <<c, i>> # <<d, p>>
          BY <1>1, <5>2
        <5>4. (InRing(c, i)' <=> InRing(c, i)) /\ gpfifo_entries'[c][i] = gpfifo_entries[c][i]
          BY <1>1, <5>1, <5>3
        <5>5. QED BY <5>2, <5>4
      <4>4. QED BY <1>2, <4>1, <4>2, <4>3 DEF PushShape, Writing
    <3>4. QED BY <3>2, <3>3
  <2>4. Traced'
    <3> SUFFICES ASSUME NEW c \in Channels, NEW i \in Entries, InRing(c, i)'
                 PROVE  Listed(c, i)' \/ Ending(c, i)'
      BY DEF Traced
    <3>1. CASE <<c, i>> = <<d, p>>
      <4>1. c = d /\ i = p
        BY <3>1
      <4>2. QED BY <1>0, <4>1 DEF Ending
    <3>2. CASE <<c, i>> # <<d, p>>
      <4>1. InRing(c, i) /\ gpfifo_entries'[c][i] = gpfifo_entries[c][i]
        BY <1>1, <3>2
      <4>2. Listed(c, i) \/ Ending(c, i)
        BY <4>1 DEF PipeInv, Traced
      <4>3. Listed(c, i) => Listed(c, i)'
        BY <1>2, <4>1 DEF Listed
      <4>4. Ending(c, i) => Ending(c, i)'
        BY <1>0 DEF Ending, Others
      <4>5. QED BY <4>2, <4>3, <4>4
    <3>3. QED BY <3>1, <3>2
  <2>5. QED BY <2>1, <2>2, <2>3, <2>4 DEF ChunkShape
<1>10. QED BY <1>0, <1>1, <1>3, <1>4, <1>5, <1>6, <1>9, PipePartsNext

\* What update_chunk does to the maps of a chunk laid out as X.
LEMMA ChunkUpdated ==
  ASSUME PipeInv, NEW k \in Chunks, NEW list \in Seq(Channels \X Entries),
         update_chunk(k, list), NEW X \in Seq(EntryType), Laid(X),
         X = [n \in DOMAIN list |-> EntryAt(list[n])]
  PROVE  /\ next_push_start' \in [Chunks -> 0 .. ChunkSize]
         /\ idle_chunks' \subseteq Chunks /\ available_chunks' \subseteq Chunks
         /\ \A j \in Chunks \ {k} : /\ next_push_start'[j] = next_push_start[j]
                                    /\ j \in idle_chunks' <=> j \in idle_chunks
                                    /\ j \in available_chunks' <=> j \in available_chunks
         /\ \/ k \in available_chunks' /\ Fits(X, next_push_start'[k])
            \/ /\ next_push_start'[k] = next_push_start[k]
               /\ k \in available_chunks' <=> k \in available_chunks
         /\ list = <<>> => k \in idle_chunks' /\ k \in available_chunks'
              /\ Fits(X, next_push_start'[k])
         /\ list # <<>> => (k \in idle_chunks' <=> k \in idle_chunks)
<1>1. /\ next_push_start \in [Chunks -> 0 .. ChunkSize]
      /\ idle_chunks \subseteq Chunks /\ available_chunks \subseteq Chunks
  BY DEF PipeInv, PipeTypes, TypeOK
<1>2. /\ idle_chunks' = IF list = <<>> THEN idle_chunks \cup {k} ELSE idle_chunks
      /\ IF SpaceFor(X) # NoSpace
         THEN /\ available_chunks' = available_chunks \cup {k}
              /\ next_push_start' = [next_push_start EXCEPT ![k] = SpaceFor(X)]
         ELSE UNCHANGED <<available_chunks, next_push_start>>
  BY DEF update_chunk
<1>3. list = <<>> => SpaceFor(X) # NoSpace
  <2>1. list = <<>> => Len(X) = 0
    BY LenProperties
  <2>2. list = <<>> => X = <<>>
    BY <2>1, EmptySeq
  <2>3. QED BY <2>2 DEF SpaceFor, NoSpace
<1>4. CASE SpaceFor(X) # NoSpace
  <2>1. SpaceFor(X) \in 0 .. ChunkSize /\ Fits(X, SpaceFor(X))
    BY <1>4, SpaceFits
  <2>2. QED BY <1>1, <1>2, <1>4, <2>1
<1>5. CASE SpaceFor(X) = NoSpace
  BY <1>1, <1>2, <1>3, <1>5
<1>6. QED BY <1>4, <1>5

LEMMA ChunkEndPushStep ==
  ASSUME PipeInv, NEW t \in Threads, uvm_pushbuffer_end_push(t)
  PROVE  PipeInv'
<1>a. SUFFICES ASSUME NEW c, c = push[t].channel, NEW i, i = push[t].entry,
                      NEW k, k = push[t].chunk, NEW old, old = pending_gpfifos[k],
                      NEW list, list = Append(old, <<c, i>>)
               PROVE  PipeInv'
  OBVIOUS
<1>0. ThreadTypes' /\ Others(t) /\ push' = push /\ pc[t] = "end" /\ pc'[t] = "up"
  BY ChunkEndPushIs
<1>1. /\ UNCHANGED <<cpu_put, gpu_get, current_pushes_count, next_push_info_index,
                     queued_value, completed_value, gpfifo_entries, on_complete>>
      /\ UNCHANGED <<released, concurrent_pushes_sema, pool_lock>>
      /\ pending_gpfifos' = [pending_gpfifos EXCEPT ![k] = list]
      /\ current_push' = [current_push EXCEPT ![k] = NoThread]
      /\ update_chunk(k, list)
  BY <1>a DEF uvm_pushbuffer_end_push, chan_vars, gpu_vars
<1>2. c \in Channels /\ i \in Entries /\ k \in Chunks
  <2>1. push[t] \in PushType
    BY DEF PipeInv, PipeTypes
  <2>2. QED BY <1>a, <2>1 DEF PushType
<1>3. /\ old \in Seq(Channels \X Entries) /\ Len(old) \in Nat
      /\ Extents(k) \in Seq(EntryType) /\ Len(Extents(k)) = Len(old) /\ Laid(Extents(k))
      /\ \A n \in 1 .. Len(old) :
            /\ old[n] \in Channels \X Entries /\ Extents(k)[n] = EntryAt(old[n])
            /\ EntryAt(old[n]).chunk = k /\ InRing(old[n][1], old[n][2])
  <2>1. old = pending_gpfifos[k]
    BY <1>a
  <2>2. /\ old \in Seq(Channels \X Entries) /\ Len(old) \in Nat
        /\ Extents(k) \in Seq(EntryType) /\ Len(Extents(k)) = Len(old) /\ Laid(Extents(k))
    BY <1>2, <2>1, ListIs
  <2>3. \A n \in 1 .. Len(old) :
            /\ old[n] \in Channels \X Entries /\ Extents(k)[n] = EntryAt(old[n])
            /\ EntryAt(old[n]).chunk = k /\ InRing(old[n][1], old[n][2])
    BY <1>2, <2>1, ListIs
  <2>4. QED BY <2>2, <2>3
<1>4. /\ list \in Seq(Channels \X Entries) /\ Len(list) = Len(old) + 1 /\ list # <<>>
      /\ \A n \in 1 .. Len(old) : list[n] = old[n]
      /\ list[Len(old) + 1] = <<c, i>>
  <2>1. <<c, i>> \in Channels \X Entries
    BY <1>2
  <2>2. /\ list \in Seq(Channels \X Entries) /\ Len(list) = Len(old) + 1
        /\ \A n \in 1 .. Len(old) : list[n] = old[n]
        /\ list[Len(old) + 1] = <<c, i>>
    <3>1. old \in Seq(Channels \X Entries)
      BY <1>3
    <3>2. QED BY <1>a, <2>1, <3>1, AppendProperties
  <2>3. Len(old) \in Nat
    BY <1>3
  <2>4. list # <<>>
    BY <2>2, <2>3, EmptySeq
  <2>5. QED BY <2>2, <2>4
<1>5. /\ current_push[k] = t /\ Fits(Extents(k), push[t].begin) /\ InRing(c, i)
      /\ gpfifo_entries[c][i].chunk = k /\ gpfifo_entries[c][i].start = push[t].begin
      /\ gpfifo_entries[c][i] \in EntryType
  <2>1. PushShape(t) /\ Writing(t)
    BY <1>0 DEF PipeInv, Writing
  <2>2. gpfifo_entries[c][i] \in EntryType
    BY <1>2 DEF PipeInv, PipeTypes
  <2>3. QED BY <1>0, <1>a, <2>1, <2>2 DEF PushShape
<1>6. /\ pending_gpfifos' \in [Chunks -> Seq(Channels \X Entries)]
      /\ pending_gpfifos'[k] = list
      /\ \A j \in Chunks \ {k} : pending_gpfifos'[j] = pending_gpfifos[j]
      /\ current_push' \in [Chunks -> Threads \cup {NoThread, OtherPool}]
      /\ current_push'[k] = NoThread
      /\ \A j \in Chunks \ {k} : current_push'[j] = current_push[j]
  <2>1. /\ pending_gpfifos \in [Chunks -> Seq(Channels \X Entries)]
        /\ current_push \in [Chunks -> Threads \cup {NoThread, OtherPool}]
    BY DEF PipeInv, PipeTypes, TypeOK
  <2>2. list \in Seq(Channels \X Entries)
    BY <1>4
  <2>3. QED BY <1>1, <1>2, <2>1, <2>2
<1>7. /\ \A e : EntryAt(e)' = EntryAt(e)
      /\ \A a, b : InRing(a, b)' <=> InRing(a, b)
      /\ \A j \in Chunks \ {k} : Extents(j)' = Extents(j)
  BY <1>1, <1>6 DEF EntryAt, InRing, Age, Kept, Extents
<1> DEFINE X == [n \in DOMAIN list |-> EntryAt(list[n])]
<1>8. DOMAIN list = 1 .. Len(list)
  BY <1>4, LenProperties
<1>9. /\ X \in Seq(EntryType) /\ Len(X) = Len(Extents(k)) + 1
      /\ \A n \in 1 .. Len(Extents(k)) : X[n] = Extents(k)[n]
      /\ X[Len(Extents(k)) + 1] = gpfifo_entries[c][i]
  <2>1. \A n \in 1 .. Len(list) : list[n] \in Channels \X Entries
    BY <1>4, ElementOfSeq
  <2>2. \A e \in Channels \X Entries : EntryAt(e) \in EntryType
    BY DEF PipeInv, PipeTypes, EntryAt
  <2>3. Len(list) \in Nat /\ \A n \in 1 .. Len(list) : EntryAt(list[n]) \in EntryType
    BY <1>4, <2>1, <2>2, LenProperties
  <2>4. X \in Seq(EntryType) /\ Len(X) = Len(list)
    BY <1>8, <2>3, IsASeq, LenProperties
  <2>5. EntryAt(<<c, i>>) = gpfifo_entries[c][i]
    BY DEF EntryAt
  <2>6. ASSUME NEW n \in 1 .. Len(old)
        PROVE  X[n] = Extents(k)[n]
    <3>1. n \in 1 .. Len(list) /\ list[n] = old[n] /\ Extents(k)[n] = EntryAt(old[n])
      BY <1>3, <1>4
    <3>2. X[n] = EntryAt(list[n])
      BY <1>8, <3>1
    <3>3. QED BY <3>1, <3>2
  <2>7. X[Len(old) + 1] = gpfifo_entries[c][i]
    <3>1. Len(old) + 1 \in 1 .. Len(list)
      BY <1>3, <1>4
    <3>2. X[Len(old) + 1] = EntryAt(list[Len(old) + 1])
      BY <1>8, <3>1
    <3>3. QED BY <1>4, <2>5, <3>2
  <2> HIDE DEF X
  <2>8. QED BY <1>3, <1>4, <2>4, <2>6, <2>7
<1>10. Extents(k)' = X
  BY <1>6, <1>7 DEF Extents
<1> HIDE DEF X
<1>11. Laid(X)
  BY <1>3, <1>5, <1>9, LaidAppend
<1>12. X = [n \in DOMAIN list |-> EntryAt(list[n])]
  BY DEF X
<1>13. /\ next_push_start' \in [Chunks -> 0 .. ChunkSize]
       /\ idle_chunks' \subseteq Chunks /\ available_chunks' \subseteq Chunks
       /\ \A j \in Chunks \ {k} : /\ next_push_start'[j] = next_push_start[j]
                                  /\ j \in idle_chunks' <=> j \in idle_chunks
                                  /\ j \in available_chunks' <=> j \in available_chunks
       /\ \/ k \in available_chunks' /\ Fits(X, next_push_start'[k])
          \/ /\ next_push_start'[k] = next_push_start[k]
             /\ k \in available_chunks' <=> k \in available_chunks
       /\ k \in idle_chunks' <=> k \in idle_chunks
  <2>1. X \in Seq(EntryType) /\ update_chunk(k, list)
    BY <1>1, <1>9
  <2>2. /\ next_push_start' \in [Chunks -> 0 .. ChunkSize]
        /\ idle_chunks' \subseteq Chunks /\ available_chunks' \subseteq Chunks
        /\ \A j \in Chunks \ {k} : /\ next_push_start'[j] = next_push_start[j]
                                   /\ j \in idle_chunks' <=> j \in idle_chunks
                                   /\ j \in available_chunks' <=> j \in available_chunks
        /\ \/ k \in available_chunks' /\ Fits(X, next_push_start'[k])
           \/ /\ next_push_start'[k] = next_push_start[k]
              /\ k \in available_chunks' <=> k \in available_chunks
        /\ list = <<>> => k \in idle_chunks' /\ k \in available_chunks'
             /\ Fits(X, next_push_start'[k])
        /\ list # <<>> => (k \in idle_chunks' <=> k \in idle_chunks)
    <3>1. list \in Seq(Channels \X Entries)
      BY <1>4
    <3>2. QED BY <1>2, <1>11, <1>12, <2>1, <3>1, ChunkUpdated, Zenon
  <2>3. QED BY <1>4, <2>2
<1>14. ChannelTypes'
  BY <1>1, PipeParts DEF ChannelTypes
<1>15. ChunkTypes'
  BY <1>1, <1>6, <1>13, PipeParts DEF ChunkTypes
<1>16. Rings'
  BY <1>1, RingsKept
<1>17. Updates'
  BY <1>0, <1>1, UpdatesKept
<1>18. AllHolders'
  BY <1>0, <1>1, HoldersKept DEF Reserved, UpdatePCs
<1>19. AdmittedShape'
  BY <1>0, <1>1, AdmittedKept DEF Where, UpdatePCs, Past
<1>20. ChunkShape'
  <2>1. (\A j \in Chunks : MapShape(j))'
    <3> SUFFICES ASSUME NEW j \in Chunks
                 PROVE  MapShape(j)'
      OBVIOUS
    <3>1. MapShape(j) /\ t # NoThread
      BY PushPipelineAssumption DEF PipeInv
    <3>2. CASE j = k
      <4>1. k \notin idle_chunks /\ k \notin available_chunks
        BY <1>5, <3>1, <3>2 DEF MapShape
      <4>2. QED BY <1>4, <1>6, <1>10, <1>13, <3>2, <4>1 DEF MapShape
    <3>3. CASE j # k
      BY <1>6, <1>7, <1>13, <3>1, <3>3 DEF MapShape
    <3>4. QED BY <3>2, <3>3
  <2>2. (\A j \in Chunks : ListShape(j))'
    <3> SUFFICES ASSUME NEW j \in Chunks
                 PROVE  ListShape(j)'
      OBVIOUS
    <3>1. CASE j = k
      <4>1. ASSUME NEW n \in 1 .. Len(list)
            PROVE  EntryAt(list[n])'.chunk = k /\ InRing(list[n][1], list[n][2])'
        <5> SUFFICES ASSUME NEW e, e = list[n]
                     PROVE  EntryAt(e)'.chunk = k /\ InRing(e[1], e[2])'
          OBVIOUS
        <5>1. EntryAt(e).chunk = k /\ InRing(e[1], e[2])
          <6>1. CASE n <= Len(old)
            <7>1. n \in 1 .. Len(old) /\ e = old[n]
              BY <1>3, <1>4, <6>1
            <7>2. QED BY <1>3, <7>1
          <6>2. CASE n = Len(old) + 1
            <7>0. list[Len(old) + 1] = <<c, i>>
              BY <1>4
            <7>1. e = <<c, i>>
              BY <6>2, <7>0
            <7>2. e[1] = c /\ e[2] = i
              BY <7>1
            <7>3. EntryAt(e) = gpfifo_entries[c][i]
              BY <7>2 DEF EntryAt
            <7>4. QED BY <1>5, <7>2, <7>3
          <6>3. n <= Len(old) \/ n = Len(old) + 1
            BY <1>3, <1>4
          <6>4. QED BY <6>1, <6>2, <6>3
        <5>2. EntryAt(e)' = EntryAt(e) /\ (InRing(e[1], e[2])' <=> InRing(e[1], e[2]))
          BY <1>7
        <5>3. QED BY <5>1, <5>2
      <4>2. QED BY <1>6, <1>10, <1>11, <3>1, <4>1 DEF ListShape
    <3>2. CASE j # k
      <4>1. ListShape(j)
        BY DEF PipeInv
      <4>2. QED BY <1>6, <1>7, <3>2, <4>1 DEF ListShape
    <3>3. QED BY <3>1, <3>2
  <2>3. (\A u \in Threads : PushShape(u))'
    <3> SUFFICES ASSUME NEW u \in Threads
                 PROVE  PushShape(u)'
      OBVIOUS
    <3>1. CASE u = t
      BY <1>0, <3>1 DEF PushShape, Writing
    <3>2. CASE u # t
      <4>1. PushShape(u) /\ push[u].chunk \in Chunks /\ pc'[u] = pc[u] /\ push'[u] = push[u]
        <5>1. PushShape(u) /\ push[u] \in PushType
          BY DEF PipeInv, PipeTypes
        <5>2. QED BY <1>0, <3>2, <5>1 DEF PushType, Others
      <4>2. Writing(u) => push[u].chunk # k
        BY <1>5, <3>2, <4>1 DEF PushShape
      <4>3. pc[u] = "end" => Writing(u)
        BY DEF Writing
      <4>a. SUFFICES ASSUME NEW j, j = push[u].chunk, NEW a, a = push[u].channel,
                            NEW b, b = push[u].entry
                     PROVE  PushShape(u)'
        OBVIOUS
      <4>4. Writing(u) => current_push'[j] = u /\ Fits(Extents(j)', push[u].begin)
        BY <1>6, <1>7, <4>a, <4>1, <4>2 DEF PushShape
      <4>5. pc[u] = "end" =>
                /\ InRing(a, b)' /\ gpfifo_entries'[a][b].chunk = j
                /\ gpfifo_entries'[a][b].start = push[u].begin
                /\ \A n \in 1 .. Len(pending_gpfifos'[j]) : pending_gpfifos'[j][n] # <<a, b>>
        <5>1. ASSUME pc[u] = "end"
              PROVE  /\ InRing(a, b) /\ gpfifo_entries[a][b].chunk = j
                     /\ gpfifo_entries[a][b].start = push[u].begin
                     /\ \A n \in 1 .. Len(pending_gpfifos[j]) : pending_gpfifos[j][n] # <<a, b>>
          BY <4>a, <4>1, <5>1 DEF PushShape
        <5>2. pc[u] = "end" => j \in Chunks \ {k}
          BY <4>a, <4>1, <4>2, <4>3
        <5>3. pc[u] = "end" => pending_gpfifos'[j] = pending_gpfifos[j]
          BY <1>6, <5>2
        <5>4. (InRing(a, b)' <=> InRing(a, b)) /\ gpfifo_entries' = gpfifo_entries
          BY <1>1, <1>7
        <5>5. QED BY <5>1, <5>3, <5>4
      <4>6. QED BY <4>a, <4>1, <4>4, <4>5 DEF PushShape, Writing
    <3>3. QED BY <3>1, <3>2
  <2>4. Traced'
    <3> SUFFICES ASSUME NEW a \in Channels, NEW b \in Entries, InRing(a, b)'
                 PROVE  Listed(a, b)' \/ Ending(a, b)'
      BY DEF Traced
    <3>1. Listed(a, b) \/ Ending(a, b)
      BY <1>7 DEF PipeInv, Traced
    <3>j. SUFFICES ASSUME NEW j, j = gpfifo_entries[a][b].chunk
                   PROVE  Listed(a, b)' \/ Ending(a, b)'
      OBVIOUS
    <3>2. j \in Chunks /\ gpfifo_entries'[a][b].chunk = j
      <4>1. gpfifo_entries[a][b] \in EntryType
        BY DEF PipeInv, PipeTypes
      <4>2. QED BY <1>1, <3>j, <4>1 DEF EntryType
    <3>3. ASSUME Listed(a, b)
          PROVE  Listed(a, b)'
      <4>1. PICK n \in 1 .. Len(pending_gpfifos[j]) : pending_gpfifos[j][n] = <<a, b>>
        BY <3>j, <3>3 DEF Listed
      <4>2. CASE j = k
        <5>1. n \in 1 .. Len(old) /\ old[n] = <<a, b>>
          BY <1>a, <4>1, <4>2
        <5>2. Len(old) \in Nat /\ Len(list) = Len(old) + 1 /\ list[n] = old[n]
          <6>1. Len(old) \in Nat
            BY <1>3
          <6>2. QED BY <1>4, <5>1, <6>1
        <5>3. n \in 1 .. Len(list) /\ list[n] = <<a, b>>
          BY <5>1, <5>2
        <5>4. QED BY <1>6, <3>2, <4>2, <5>3 DEF Listed
      <4>3. CASE j # k
        <5>1. pending_gpfifos'[j] = pending_gpfifos[j]
          BY <1>6, <3>2, <4>3
        <5>2. QED BY <3>2, <4>1, <5>1 DEF Listed
      <4>4. QED BY <4>2, <4>3
    <3>4. ASSUME Ending(a, b)
          PROVE  Listed(a, b)' \/ Ending(a, b)'
      <4>1. PICK u \in Threads : pc[u] = "end" /\ push[u].channel = a /\ push[u].entry = b
        BY <3>4 DEF Ending
      <4>2. CASE u = t
        <5>1. a = c /\ b = i
          BY <1>a, <4>1, <4>2
        <5>2. Len(old) + 1 \in 1 .. Len(list) /\ list[Len(old) + 1] = <<a, b>>
          <6>1. Len(old) + 1 \in 1 .. Len(list) /\ list[Len(old) + 1] = <<c, i>>
            BY <1>3, <1>4
          <6>2. QED BY <5>1, <6>1
        <5>3. gpfifo_entries'[a][b].chunk = k
          BY <1>5, <3>j, <3>2, <5>1
        <5>4. QED BY <1>6, <5>2, <5>3 DEF Listed
      <4>3. CASE u # t
        BY <1>0, <4>1, <4>3 DEF Ending, Others
      <4>4. QED BY <4>2, <4>3
    <3>5. QED BY <3>1, <3>3, <3>4
  <2>5. QED BY <2>1, <2>2, <2>3, <2>4 DEF ChunkShape
<1>21. QED BY <1>0, <1>14, <1>15, <1>16, <1>17, <1>18, <1>19, <1>20, PipePartsNext

\* Giving back the oldest entry of a ring.
LEMMA MarkRing ==
  ASSUME PipeInv, NEW t \in Threads, uvm_pushbuffer_mark_completed(t)
  PROVE  \A c, g : c = update[t].todo[1][1] /\ g = gpu_get[c] =>
            /\ c \in Channels /\ g \in Entries
            /\ ChannelTypes' /\ Rings'
            /\ InRing(c, g) /\ ~InRing(c, g)'
            /\ \A a \in Channels, b \in Entries :
                  <<a, b>> # <<c, g>> => (InRing(a, b)' <=> InRing(a, b))
<1>u. SUFFICES ASSUME NEW c, c = update[t].todo[1][1], NEW g, g = gpu_get[c]
               PROVE  /\ c \in Channels /\ g \in Entries
                      /\ ChannelTypes' /\ Rings'
                      /\ InRing(c, g) /\ ~InRing(c, g)'
                      /\ \A a \in Channels, b \in Entries :
                            <<a, b>> # <<c, g>> => (InRing(a, b)' <=> InRing(a, b))
  OBVIOUS
<1> DEFINE N == numGpFifoEntries
<1>0. pc[t] = "mark" /\ c \in Channels
  BY <1>u, MarkIs
<1>1. /\ cpu_put[c] \in 0 .. (N - 1) /\ g \in 0 .. (N - 1) /\ Kept(c) \in 0 .. (N - 1)
      /\ current_pushes_count[c] \in Nat /\ queued_value[c] \in Nat
      /\ completed_value[c] \in Nat /\ released[c] \in Nat
      /\ RingShape(c) /\ N \in Nat /\ N > 0
  BY <1>u, <1>0, RingTypes, ConstantsOK, Zenon
<1>2. /\ g # cpu_put[c] /\ gpfifo_entries[c][g].value <= update[t].completed
      /\ gpu_get' = [gpu_get EXCEPT ![c] = (g + 1) % N]
      /\ on_complete' = [on_complete EXCEPT ![c][gpfifo_entries[c][g].info] = NoThread]
      /\ UNCHANGED <<cpu_put, current_pushes_count, next_push_info_index,
                     queued_value, completed_value, gpfifo_entries, released>>
  BY <1>u, Zenon DEF uvm_pushbuffer_mark_completed, CanComplete, gpu_vars
<1>3. /\ (g + 1) % N \in Entries
      /\ (g + 1 < N => (g + 1) % N = g + 1) /\ (g + 1 = N => (g + 1) % N = 0)
  BY <1>1, RingModulo
<1>4. ChannelTypes /\ g \in Entries
  BY <1>1, PipeParts DEF Entries
<1>5. gpu_get'[c] = (g + 1) % N /\ \A a \in Channels \ {c} : gpu_get'[a] = gpu_get[a]
  BY <1>0, <1>2, <1>4 DEF ChannelTypes
<1>6. ChannelTypes'
  <2>1. gpu_get' \in [Channels -> Entries]
    BY <1>2, <1>3, <1>4 DEF ChannelTypes
  <2>2. gpfifo_entries[c][g].info \in Entries
    BY <1>0, <1>4 DEF ChannelTypes, EntryType
  <2>3. on_complete' \in [Channels -> [Entries -> Threads \cup {NoThread}]]
    BY <1>0, <1>2, <1>4, <2>2 DEF ChannelTypes
  <2>4. QED BY <1>2, <1>4, <2>1, <2>3 DEF ChannelTypes
<1>x. SUFFICES ASSUME NEW x, x = cpu_put[c], NEW q, q = queued_value[c]
               PROVE  /\ ChannelTypes' /\ Rings' /\ InRing(c, g) /\ ~InRing(c, g)'
                      /\ \A a \in Channels, b \in Entries :
                          <<a, b>> # <<c, g>> => (InRing(a, b)' <=> InRing(a, b))
  BY <1>0, <1>4
<1>a. /\ Kept(c) = x - g + (IF x >= g THEN 0 ELSE N)
      /\ x \in 0 .. (N - 1) /\ g \in 0 .. (N - 1) /\ N \in Nat /\ x # g
  <2>1. Kept(c) = x - g + (IF x >= g THEN 0 ELSE N)
    BY <1>u, <1>x DEF Kept
  <2>2. QED BY <1>x, <1>1, <1>2, <2>1
<1>b. cpu_put'[c] = x /\ queued_value'[c] = q
  BY <1>x, <1>2
<1>7. Kept(c) > 0
  BY <1>a
<1>8. Kept(c)' = Kept(c) - 1
  <2>0. Kept(c)' = x - gpu_get'[c] + (IF x >= gpu_get'[c] THEN 0 ELSE N)
    BY <1>b DEF Kept
  <2>1. CASE g + 1 < N
    <3>1. gpu_get'[c] = g + 1
      BY <1>3, <1>5, <2>1
    <3>2. QED BY <1>a, <2>0, <2>1, <3>1
  <2>2. CASE g + 1 = N
    <3>1. gpu_get'[c] = 0
      BY <1>3, <1>5, <2>2
    <3>2. QED BY <1>a, <2>0, <2>2, <3>1
  <2>3. g + 1 < N \/ g + 1 = N
    BY <1>1
  <2>4. QED BY <2>1, <2>2, <2>3
<1>9. /\ \A a, b : Age(a, b)' = Age(a, b)
      /\ \A a \in Channels \ {c} : Kept(a)' = Kept(a)
  BY <1>2, <1>5 DEF Age, Kept
<1>10. Age(c, g) = Kept(c) /\ \A b \in Entries \ {g} : Age(c, b) # Age(c, g)
  <2>0. \A b : Age(c, b) = x - b + (IF b < x THEN 0 ELSE N)
    BY <1>x DEF Age
  <2>1. Age(c, g) = Kept(c)
    BY <1>a, <2>0
  <2>2. ASSUME NEW b \in Entries \ {g}
        PROVE  Age(c, b) # Age(c, g)
    <3>1. b \in 0 .. (N - 1) /\ b # g
      BY DEF Entries
    <3>2. QED BY <1>a, <2>0, <3>1
  <2>3. QED BY <2>1, <2>2
<1>11. queued_value[c] - Kept(c) + 1 <= completed_value[c]
  <2>1. gpfifo_entries[c][g].value = queued_value[c] - Kept(c) + 1
    <3>1. Kept(c) <= queued_value[c]
      BY <1>1 DEF RingShape
    <3>2. gpfifo_entries[c][g].value =
             IF Age(c, g) <= queued_value[c] THEN queued_value[c] - Age(c, g) + 1 ELSE 0
      BY <1>1, <1>4 DEF RingShape
    <3>3. QED BY <1>10, <3>1, <3>2
  <2>2. update[t].completed <= completed_value[c] /\ update[t].completed \in Nat
    <3>1. UpdateShape(t)
      BY DEF PipeInv
    <3>2. update[t] \in UpdateType
      BY DEF PipeInv, PipeTypes
    <3>3. update[t].completed \in Nat
      BY <3>2 DEF UpdateType
    <3>4. pc[t] \in {"lock", "mark"}
      BY <1>0
    <3>5. update[t].completed <= completed_value[update[t].todo[1][1]]
      BY <3>1, <3>4, Zenon DEF UpdateShape
    <3>6. QED BY <1>u, <3>3, <3>5
  <2>3. gpfifo_entries[c][g].value <= update[t].completed
    BY <1>2
  <2>4. Kept(c) \in Nat /\ queued_value[c] \in Nat /\ completed_value[c] \in Nat
    BY <1>1
  <2>5. QED BY <2>1, <2>2, <2>3, <2>4
<1>12. Rings'
  <2> SUFFICES ASSUME NEW a \in Channels
               PROVE  RingShape(a)'
    BY DEF Rings
  <2>1. RingShape(a)
    BY RingTypes
  <2>2. CASE a # c
    BY <1>2, <1>9, <2>1, <2>2 DEF RingShape
  <2>3. CASE a = c
    <3>1. /\ Kept(c)' + current_pushes_count[c] < N
          /\ Kept(c)' <= queued_value[c]
          /\ queued_value[c] - Kept(c)' <= completed_value[c]
      <4>1. Kept(c) + current_pushes_count[c] < N /\ Kept(c) <= queued_value[c]
        BY <1>1 DEF RingShape
      <4>2. QED BY <1>1, <1>7, <1>8, <1>11, <4>1
    <3>2. QED BY <1>2, <1>9, <2>1, <2>3, <3>1 DEF RingShape
  <2>4. QED BY <2>2, <2>3
<1>13. InRing(c, g) /\ ~InRing(c, g)'
  BY <1>1, <1>8, <1>9, <1>10 DEF InRing
<1>14. ASSUME NEW a \in Channels, NEW b \in Entries, <<a, b>> # <<c, g>>
       PROVE  InRing(a, b)' <=> InRing(a, b)
  <2>1. CASE a # c
    BY <1>9, <2>1 DEF InRing
  <2>2. CASE a = c
    <3>1. b # g /\ Age(c, b) \in Nat
      BY <1>0, <1>14, <2>2, RingTypes
    <3>2. QED BY <1>1, <1>8, <1>9, <1>10, <2>2, <3>1 DEF InRing
  <2>3. QED BY <2>1, <2>2
<1>15. QED BY <1>6, <1>12, <1>13, <1>14

\* A list has no entry twice.
LEMMA ListedOnce ==
  ASSUME PipeInv, NEW k \in Chunks, NEW m \in 1 .. Len(pending_gpfifos[k]),
         NEW n \in 1 .. Len(pending_gpfifos[k]), pending_gpfifos[k][m] = pending_gpfifos[k][n]
  PROVE  m = n
<1> DEFINE X == Extents(k)
<1>1. /\ X \in Seq(EntryType) /\ Len(X) = Len(pending_gpfifos[k]) /\ Laid(X)
      /\ X[m] = X[n] /\ Len(X) \in Nat
  BY ListIs
<1> HIDE DEF X
<1>2. X[m] \in EntryType /\ m \in 1 .. Len(X) /\ n \in 1 .. Len(X)
  BY <1>1, ElementOfSeq
<1>3. X[m].start \in Int /\ X[m].size \in Int /\ X[m].size >= 1
  BY <1>2, ConstantsOK DEF EntryType
<1>4. ~Apart(X[m], X[n]) /\ ~Apart(X[n], X[m])
  BY <1>1, <1>3 DEF Apart
<1>5. ~(m < n) /\ ~(n < m)
  BY <1>1, <1>2, <1>4 DEF Laid
<1>6. QED BY <1>2, <1>5

\* A list without one of its elements.
Without(list, i, r) ==
    /\ \A n \in 1 .. Len(r) : \E m \in 1 .. Len(list) : m # i /\ r[n] = list[m]
    /\ \A m \in 1 .. Len(list) : m # i => \E n \in 1 .. Len(r) : r[n] = list[m]

LEMMA ListRemoved ==
  ASSUME NEW s \in Seq(Channels \X Entries), NEW i \in 1 .. Len(s), NEW r, r = RemoveAt(s, i)
  PROVE  /\ Len(s) \in Nat /\ s # <<>> /\ DOMAIN s = 1 .. Len(s)
         /\ r \in Seq(Channels \X Entries) /\ Len(r) \in Nat /\ DOMAIN r = 1 .. Len(r)
              /\ Len(r) = Len(s) - 1
         /\ Without(s, i, r)
         /\ r = <<>> => s[i] = Head(s)
<1>1. /\ r \in Seq(Channels \X Entries) /\ Len(r) = Len(s) - 1
      /\ \A j \in 1 .. Len(r) : r[j] = IF j < i THEN s[j] ELSE s[j + 1]
  BY RemoveAtIs
<1>2. Len(s) \in Nat /\ Len(r) \in Nat /\ DOMAIN s = 1 .. Len(s) /\ DOMAIN r = 1 .. Len(r)
  BY <1>1, LenProperties
<1>3. s # <<>>
  BY <1>2, EmptySeq
<1>4. ASSUME NEW n \in 1 .. Len(r)
      PROVE  \E m \in 1 .. Len(s) : m # i /\ r[n] = s[m]
  <2>1. CASE n < i
    BY <1>1, <1>2, <2>1
  <2>2. CASE ~(n < i)
    <3>1. n + 1 \in 1 .. Len(s) /\ n + 1 # i /\ r[n] = s[n + 1]
      BY <1>1, <1>2, <2>2
    <3>2. QED BY <3>1
  <2>3. QED BY <2>1, <2>2
<1>5. ASSUME NEW m \in 1 .. Len(s), m # i
      PROVE  \E n \in 1 .. Len(r) : r[n] = s[m]
  <2>1. CASE m < i
    <3>1. m \in 1 .. Len(r) /\ r[m] = s[m]
      BY <1>1, <1>2, <2>1
    <3>2. QED BY <3>1
  <2>2. CASE m > i
    <3>1. m - 1 \in 1 .. Len(r) /\ ~(m - 1 < i) /\ (m - 1) + 1 = m
      BY <1>1, <1>2, <2>2
    <3>2. r[m - 1] = s[(m - 1) + 1]
      BY <1>1, <3>1
    <3>3. QED BY <3>1, <3>2
  <2>3. QED BY <1>5, <2>1, <2>2
<1>6. ASSUME r = <<>>
      PROVE  s[i] = Head(s)
  <2>1. Len(r) = 0
    BY <1>6, EmptySeq
  <2>2. i = 1
    BY <1>1, <1>2, <2>1
  <2>3. Head(s) = s[1]
    BY <1>3, HeadTailProperties
  <2>4. QED BY <2>2, <2>3
<1>7. Without(s, i, r)
  BY <1>4, <1>5 DEF Without
<1>8. QED BY <1>1, <1>2, <1>3, <1>6, <1>7

\* Its extents, without that element's.
LEMMA ExtentsRemoved ==
  ASSUME PipeInv, NEW k \in Chunks, NEW list, NEW i, NEW r, NEW X
  PROVE  /\ list = pending_gpfifos[k] /\ i \in 1 .. Len(list)
         /\ r = RemoveAt(list, i) /\ X = [n \in DOMAIN r |-> EntryAt(r[n])]
         => /\ X \in Seq(EntryType) /\ Laid(X)
            /\ \A s : Fits(Extents(k), s) => Fits(X, s)
<1> DEFINE Y == Extents(k)
<1>a. SUFFICES ASSUME list = pending_gpfifos[k], i \in 1 .. Len(list),
                      r = RemoveAt(list, i), X = [n \in DOMAIN r |-> EntryAt(r[n])]
               PROVE  /\ X \in Seq(EntryType) /\ Laid(X)
                      /\ \A s : Fits(Extents(k), s) => Fits(X, s)
  OBVIOUS
<1>1. /\ list \in Seq(Channels \X Entries) /\ Y \in Seq(EntryType) /\ Len(Y) = Len(list)
      /\ Laid(Y) /\ \A n \in 1 .. Len(list) : Y[n] = EntryAt(list[n])
  BY <1>a, ListIs
<1> HIDE DEF Y
<1>0. list \in Seq(Channels \X Entries) /\ i \in 1 .. Len(list) /\ r = RemoveAt(list, i)
  BY <1>a, <1>1
<1>2. /\ r \in Seq(Channels \X Entries) /\ Len(r) \in Nat /\ DOMAIN r = 1 .. Len(r)
      /\ Len(r) = Len(list) - 1 /\ Len(list) \in Nat
  BY <1>0, ListRemoved
<1>3. \A j \in 1 .. Len(r) : r[j] = IF j < i THEN list[j] ELSE list[j + 1]
  BY <1>0, RemoveAtIs
<1>4. X \in Seq(EntryType) /\ Len(X) = Len(r)
  <2>1. \A n \in 1 .. Len(r) : r[n] \in Channels \X Entries
    BY <1>2, ElementOfSeq
  <2>2. \A e \in Channels \X Entries : EntryAt(e) \in EntryType
    BY DEF PipeInv, PipeTypes, EntryAt
  <2>3. \A n \in 1 .. Len(r) : EntryAt(r[n]) \in EntryType
    BY <2>1, <2>2
  <2>4. X = [n \in 1 .. Len(r) |-> EntryAt(r[n])]
    BY <1>a, <1>2
  <2>5. QED BY <1>2, <2>3, <2>4, IsASeq, LenProperties
<1>5. ASSUME NEW n \in 1 .. Len(X)
      PROVE  X[n] = IF n < i THEN Y[n] ELSE Y[n + 1]
  <2>1. X[n] = EntryAt(r[n])
    BY <1>a, <1>2, <1>4
  <2>2. CASE n < i
    <3>1. n \in 1 .. Len(list) /\ r[n] = list[n]
      BY <1>0, <1>2, <1>3, <1>4, <2>2
    <3>2. Y[n] = EntryAt(list[n])
      BY <1>1, <3>1
    <3>3. QED BY <2>1, <2>2, <3>1, <3>2
  <2>3. CASE ~(n < i)
    <3>1. n + 1 \in 1 .. Len(list) /\ r[n] = list[n + 1]
      BY <1>0, <1>2, <1>3, <1>4, <2>3
    <3>2. Y[n + 1] = EntryAt(list[n + 1])
      BY <1>1, <3>1
    <3>3. QED BY <2>1, <2>3, <3>1, <3>2
  <2>4. QED BY <2>2, <2>3
<1>6. i \in 1 .. Len(Y) /\ Len(X) = Len(Y) - 1
  BY <1>0, <1>1, <1>2, <1>4
<1>7. (Laid(Y) => Laid(X)) /\ \A s : Fits(Y, s) => Fits(X, s)
  BY <1>1, <1>5, <1>6, LaidRemove
<1>8. QED BY <1>1, <1>4, <1>7 DEF Y

LEMMA MarkStep ==
  ASSUME PipeInv, NEW t \in Threads, uvm_pushbuffer_mark_completed(t)
  PROVE  PipeInv'
<1>c. SUFFICES ASSUME NEW c, c = update[t].todo[1][1], NEW g, g = gpu_get[c]
               PROVE  PipeInv'
  OBVIOUS
<1>k. SUFFICES ASSUME NEW k, k = gpfifo_entries[c][g].chunk
               PROVE  PipeInv'
  OBVIOUS
<1>l. SUFFICES ASSUME NEW list, list = pending_gpfifos[k]
               PROVE  PipeInv'
  OBVIOUS
<1>0. /\ ThreadTypes' /\ push' = push /\ pc' = pc
      /\ \A u \in Threads : /\ update'[u].todo = update[u].todo
                            /\ update'[u].return = update[u].return
                            /\ update'[u].completed = update[u].completed
      /\ pc[t] = "mark"
  BY MarkIs
<1>1. /\ c \in Channels /\ g \in Entries /\ ChannelTypes' /\ Rings'
      /\ InRing(c, g) /\ ~InRing(c, g)'
      /\ \A a \in Channels, b \in Entries :
            <<a, b>> # <<c, g>> => (InRing(a, b)' <=> InRing(a, b))
  BY <1>c, MarkRing
<1> DEFINE at == CHOOSE n \in DOMAIN list : list[n] = <<c, g>>
           rest == RemoveAt(list, at)
           at_an_end == <<c, g>> \in {Head(list), Last(list)}
<1>2. /\ UNCHANGED <<gpfifo_entries, current_push, concurrent_pushes_sema, pool_lock,
                     current_pushes_count, completed_value>>
      /\ <<c, g>> \in Range(list)
      /\ pending_gpfifos' = [pending_gpfifos EXCEPT ![k] = rest]
      /\ IF at_an_end /\ current_push[k] = NoThread
         THEN update_chunk(k, rest)
         ELSE UNCHANGED <<idle_chunks, available_chunks, next_push_start>>
  BY <1>c, <1>k, <1>l, Zenon DEF uvm_pushbuffer_mark_completed
<1>3. k \in Chunks
  <2>1. gpfifo_entries[c][g] \in EntryType
    BY <1>1 DEF PipeInv, PipeTypes
  <2>2. QED BY <1>k, <2>1 DEF EntryType
<1>4. /\ list \in Seq(Channels \X Entries) /\ Len(list) \in Nat /\ DOMAIN list = 1 .. Len(list)
  BY <1>l, <1>3, ListIs, LenProperties
<1>5. at \in 1 .. Len(list) /\ list[at] = <<c, g>>
  <2>1. \E n \in DOMAIN list : list[n] = <<c, g>>
    BY <1>2 DEF Range
  <2>2. QED BY <1>4, <2>1
<1>r. SUFFICES ASSUME NEW i, i = at, NEW r, r = rest
             PROVE  PipeInv'
  OBVIOUS
<1>6. /\ i \in 1 .. Len(list) /\ list[i] = <<c, g>> /\ r = RemoveAt(list, i)
      /\ pending_gpfifos' = [pending_gpfifos EXCEPT ![k] = r]
      /\ IF at_an_end /\ current_push[k] = NoThread
         THEN update_chunk(k, r)
         ELSE UNCHANGED <<idle_chunks, available_chunks, next_push_start>>
  BY <1>2, <1>5, <1>r
<1> HIDE DEF at, rest
<1>4a. list \in Seq(Channels \X Entries) /\ i \in 1 .. Len(list) /\ r = RemoveAt(list, i)
  BY <1>4, <1>6
<1>7. /\ list # <<>> /\ r \in Seq(Channels \X Entries) /\ DOMAIN r = 1 .. Len(r)
      /\ \A n \in 1 .. Len(r) : \E m \in 1 .. Len(list) : m # i /\ r[n] = list[m]
      /\ \A m \in 1 .. Len(list) : m # i => \E n \in 1 .. Len(r) : r[n] = list[m]
      /\ r = <<>> => list[i] = Head(list)
  <2>1. /\ r \in Seq(Channels \X Entries) /\ DOMAIN r = 1 .. Len(r)
        /\ list # <<>>
    BY <1>4a, ListRemoved
  <2>2. Without(list, i, r)
    BY <1>4a, ListRemoved
  <2>4. r = <<>> => list[i] = Head(list)
    BY <1>4a, ListRemoved
  <2>5. QED BY <2>1, <2>2, <2>4 DEF Without
<1>8. /\ pending_gpfifos' \in [Chunks -> Seq(Channels \X Entries)]
      /\ pending_gpfifos'[k] = r
      /\ \A j \in Chunks \ {k} : pending_gpfifos'[j] = pending_gpfifos[j]
  <2>1. r \in Seq(Channels \X Entries)
    BY <1>7
  <2>2. pending_gpfifos \in [Chunks -> Seq(Channels \X Entries)]
    BY DEF PipeInv, PipeTypes
  <2>3. pending_gpfifos' = [pending_gpfifos EXCEPT ![k] = r]
    BY <1>6
  <2>4. QED BY <1>3, <2>1, <2>2, <2>3
<1>9. /\ \A e : EntryAt(e)' = EntryAt(e)
      /\ \A j \in Chunks \ {k} : Extents(j)' = Extents(j)
  BY <1>2, <1>8 DEF EntryAt, Extents
<1>x. SUFFICES ASSUME NEW X, X = [n \in DOMAIN r |-> EntryAt(r[n])]
             PROVE  PipeInv'
  OBVIOUS
<1>12. Extents(k)' = X
  BY <1>x, <1>8, <1>9 DEF Extents
<1>14. X \in Seq(EntryType) /\ Laid(X) /\ \A s : Fits(Extents(k), s) => Fits(X, s)
  <2>1. /\ list = pending_gpfifos[k] /\ i \in 1 .. Len(list)
        /\ r = RemoveAt(list, i) /\ X = [n \in DOMAIN r |-> EntryAt(r[n])]
    BY <1>l, <1>6, <1>x
  <2>2. QED BY <1>3, <2>1, ExtentsRemoved, Zenon
<1>15. k \notin idle_chunks /\ (r = <<>> => at_an_end)
  <2>1. k \notin idle_chunks
    <3>1. pending_gpfifos[k] # <<>>
      BY <1>l, <1>7
    <3>2. QED BY <1>3, <3>1 DEF PipeInv, MapShape
  <2>2. r = <<>> => at_an_end
    BY <1>6, <1>7
  <2>3. QED BY <2>1, <2>2
<1> HIDE DEF at_an_end
<1>16. /\ next_push_start \in [Chunks -> 0 .. ChunkSize]
       /\ idle_chunks \subseteq Chunks /\ available_chunks \subseteq Chunks
  BY DEF PipeInv, PipeTypes, TypeOK
<1>17. ChunkTypes' /\ (\A j \in Chunks : MapShape(j))'
  <2>1. CASE at_an_end /\ current_push[k] = NoThread /\ update_chunk(k, r)
    <3>1. /\ X \in Seq(EntryType) /\ Laid(X) /\ r \in Seq(Channels \X Entries)
          /\ update_chunk(k, r) /\ X = [n \in DOMAIN r |-> EntryAt(r[n])]
      BY <1>x, <1>7, <1>14, <2>1
    <3>2. /\ next_push_start' \in [Chunks -> 0 .. ChunkSize]
          /\ idle_chunks' \subseteq Chunks /\ available_chunks' \subseteq Chunks
          /\ \A j \in Chunks \ {k} : /\ next_push_start'[j] = next_push_start[j]
                                     /\ j \in idle_chunks' <=> j \in idle_chunks
                                     /\ j \in available_chunks' <=> j \in available_chunks
          /\ \/ k \in available_chunks' /\ Fits(X, next_push_start'[k])
             \/ /\ next_push_start'[k] = next_push_start[k]
                /\ k \in available_chunks' <=> k \in available_chunks
          /\ r = <<>> => k \in idle_chunks' /\ k \in available_chunks'
               /\ Fits(X, next_push_start'[k])
          /\ r # <<>> => (k \in idle_chunks' <=> k \in idle_chunks)
      BY <1>3, <3>1, ChunkUpdated, Zenon
    <3>3. ChunkTypes'
      BY <1>2, <1>8, <3>2, PipeParts DEF ChunkTypes
    <3>4. MapShape(k)'
      <4>1. k \in available_chunks => Fits(Extents(k), next_push_start[k])
        BY <1>3 DEF PipeInv, MapShape
      <4>2. k \in available_chunks' => Fits(X, next_push_start'[k])
        BY <1>14, <3>2, <4>1
      <4>3. current_push'[k] = NoThread
        BY <1>2, <2>1
      <4>4. k \in idle_chunks' <=> r = <<>>
        BY <1>15, <3>2
      <4>5. k \in idle_chunks' => k \in available_chunks'
        BY <3>2, <4>4
      <4>6. QED BY <1>8, <1>12, <4>2, <4>3, <4>4, <4>5 DEF MapShape
    <3>5. \A j \in Chunks \ {k} : MapShape(j)'
      <4> SUFFICES ASSUME NEW j \in Chunks \ {k}
                   PROVE  MapShape(j)'
        OBVIOUS
      <4>1. MapShape(j)
        BY DEF PipeInv
      <4>2. QED BY <1>2, <1>8, <1>9, <3>2, <4>1 DEF MapShape
    <3>6. QED BY <1>3, <3>3, <3>4, <3>5
  <2>2. CASE /\ ~(at_an_end /\ current_push[k] = NoThread)
             /\ UNCHANGED <<idle_chunks, available_chunks, next_push_start>>
    <3>1. ChunkTypes'
      BY <1>2, <1>8, <2>2, PipeParts DEF ChunkTypes
    <3>2. MapShape(k)'
      <4>1. MapShape(k)
        BY <1>3 DEF PipeInv
      <4>2. k \in available_chunks => Fits(X, next_push_start[k]) /\ current_push[k] = NoThread
        BY <1>14, <4>1 DEF MapShape
      <4>3. ~(r = <<>> /\ current_push[k] = NoThread)
        BY <1>15, <2>2
      <4>4. QED BY <1>2, <1>8, <1>12, <1>15, <2>2, <4>2, <4>3 DEF MapShape
    <3>3. \A j \in Chunks \ {k} : MapShape(j)'
      <4> SUFFICES ASSUME NEW j \in Chunks \ {k}
                   PROVE  MapShape(j)'
        OBVIOUS
      <4>1. MapShape(j)
        BY DEF PipeInv
      <4>2. QED BY <1>2, <1>8, <1>9, <2>2, <4>1 DEF MapShape
    <3>4. QED BY <1>3, <3>1, <3>2, <3>3
  <2>3. QED BY <1>6, <2>1, <2>2
<1>18. Updates'
  BY <1>0, <1>2 DEF PipeInv, Updates, UpdateShape
<1>19. AllHolders' /\ AdmittedShape'
  <2>1. \A u \in Threads : Reserved(u)' = Reserved(u) /\ Where(u)' = Where(u)
    BY <1>0 DEF Reserved, Where
  <2>2. (\A a : Holders(a)' = Holders(a)) /\ Admitted' = Admitted
    BY <1>0, <2>1 DEF Holders, Admitted
  <2>3. QED BY <1>2, <2>2, PipeParts DEF AllHolders, HoldersShape, AdmittedShape
\* No list, and no push about to be listed, has the entry any more.
<1>20. ASSUME NEW j \in Chunks, NEW n \in 1 .. Len(pending_gpfifos'[j]),
              NEW e, e = pending_gpfifos'[j][n]
       PROVE  EntryAt(e)'.chunk = j /\ InRing(e[1], e[2])' /\ e # <<c, g>>
  <2>1. /\ e \in Channels \X Entries /\ EntryAt(e).chunk = j /\ InRing(e[1], e[2])
        /\ e # <<c, g>>
    <3>1. CASE j = k
      <4>1. n \in 1 .. Len(r) /\ e = r[n]
        BY <1>8, <1>20, <3>1
      <4>2. PICK m \in 1 .. Len(list) : m # i /\ e = list[m]
        BY <1>7, <4>1
      <4>3. e \in Channels \X Entries /\ EntryAt(e).chunk = k /\ InRing(e[1], e[2])
        <5>1. m \in 1 .. Len(pending_gpfifos[k]) /\ e = pending_gpfifos[k][m]
          BY <1>l, <4>2
        <5>2. QED BY <1>3, <5>1, ListIs
      <4>4. e # <<c, g>>
        <5>1. SUFFICES ASSUME list[m] = list[i]
                       PROVE  m = i
          BY <1>6, <4>2
        <5>2. /\ i \in 1 .. Len(pending_gpfifos[k]) /\ m \in 1 .. Len(pending_gpfifos[k])
              /\ pending_gpfifos[k][m] = pending_gpfifos[k][i]
          BY <1>l, <1>6, <5>1
        <5>3. QED BY <1>3, <5>2, ListedOnce
      <4>5. QED BY <3>1, <4>3, <4>4
    <3>2. CASE j # k
      <4>1. n \in 1 .. Len(pending_gpfifos[j]) /\ e = pending_gpfifos[j][n]
        BY <1>8, <1>20, <3>2
      <4>2. e \in Channels \X Entries /\ EntryAt(e).chunk = j /\ InRing(e[1], e[2])
        BY <4>1, ListIs
      <4>3. EntryAt(<<c, g>>).chunk = k
        BY <1>k DEF EntryAt
      <4>4. QED BY <3>2, <4>2, <4>3
    <3>3. QED BY <3>1, <3>2
  <2>2. e = <<e[1], e[2]>> /\ e[1] \in Channels /\ e[2] \in Entries
    <3>1. e \in Channels \X Entries
      BY <2>1
    <3>2. QED BY <3>1
  <2>a. SUFFICES ASSUME NEW a \in Channels, NEW b \in Entries, a = e[1], b = e[2]
                 PROVE  EntryAt(e)'.chunk = j /\ InRing(a, b)' /\ e # <<c, g>>
    BY <2>2
  <2>3. <<a, b>> # <<c, g>> /\ InRing(a, b)
    BY <2>a, <2>1, <2>2
  <2>4. InRing(a, b)'
    BY <1>1, <2>3
  <2>5. QED BY <1>9, <2>1, <2>4
<1>21. (\A j \in Chunks : ListShape(j))'
  <2> SUFFICES ASSUME NEW j \in Chunks
               PROVE  ListShape(j)'
    OBVIOUS
  <2>1. Laid(Extents(j)')
    <3>1. CASE j = k
      BY <1>12, <1>14, <3>1
    <3>2. CASE j # k
      <4>1. Laid(Extents(j))
        BY ListIs
      <4>2. Extents(j)' = Extents(j)
        BY <1>9, <3>2
      <4>3. QED BY <4>1, <4>2
    <3>3. QED BY <3>1, <3>2
  <2>2. \A n \in 1 .. Len(pending_gpfifos'[j]) :
            /\ EntryAt(pending_gpfifos[j][n])'.chunk = j
            /\ InRing(pending_gpfifos[j][n][1], pending_gpfifos[j][n][2])'
    BY <1>20
  <2>3. QED BY <2>1, <2>2 DEF ListShape
<1>22. (\A u \in Threads : PushShape(u))'
  <2>u. SUFFICES ASSUME NEW u \in Threads, NEW a, a = push[u].channel,
                        NEW b, b = push[u].entry, NEW j, j = push[u].chunk
                 PROVE  PushShape(u)'
    OBVIOUS
  <2>1. PushShape(u) /\ a \in Channels /\ b \in Entries /\ j \in Chunks
    <3>1. PushShape(u) /\ push[u] \in PushType
      BY DEF PipeInv, PipeTypes
    <3>2. QED BY <2>u, <3>1 DEF PushType
  <2>2. Writing(u) => current_push'[j] = u /\ Fits(Extents(j)', push[u].begin)
    <3>1. Writing(u) => current_push[j] = u /\ Fits(Extents(j), push[u].begin)
      BY <2>u, <2>1 DEF PushShape
    <3>2. CASE j = k
      BY <1>2, <1>12, <1>14, <3>1, <3>2
    <3>3. CASE j # k
      BY <1>2, <1>9, <2>1, <3>1, <3>3
    <3>4. QED BY <3>2, <3>3
  <2>3. ASSUME pc[u] = "end"
        PROVE  /\ InRing(a, b)' /\ gpfifo_entries'[a][b].chunk = j
               /\ gpfifo_entries'[a][b].start = push[u].begin
               /\ \A n \in 1 .. Len(pending_gpfifos'[j]) : pending_gpfifos'[j][n] # <<a, b>>
    <3>1. /\ InRing(a, b) /\ gpfifo_entries[a][b].chunk = j
          /\ gpfifo_entries[a][b].start = push[u].begin
          /\ \A n \in 1 .. Len(pending_gpfifos[j]) : pending_gpfifos[j][n] # <<a, b>>
      BY <2>u, <2>1, <2>3 DEF PushShape
    <3>2. <<a, b>> # <<c, g>>
      <4>1. SUFFICES ASSUME a = c, b = g
                     PROVE  FALSE
        OBVIOUS
      <4>2. j = k
        BY <1>k, <3>1, <4>1
      <4>3. \A n \in 1 .. Len(list) : list[n] # <<c, g>>
        BY <1>l, <3>1, <4>1, <4>2
      <4>4. i \in 1 .. Len(list) /\ list[i] = <<c, g>>
        BY <1>6
      <4>5. QED BY <4>3, <4>4
    <3>3. InRing(a, b)'
      BY <1>1, <2>1, <3>1, <3>2
    <3>4. ASSUME NEW n \in 1 .. Len(pending_gpfifos'[j])
          PROVE  pending_gpfifos'[j][n] # <<a, b>>
      <4>1. CASE j = k
        <5>1. /\ n \in 1 .. Len(r) /\ pending_gpfifos'[j][n] = r[n]
              /\ \A m \in 1 .. Len(list) : list[m] # <<a, b>>
          BY <1>l, <1>8, <3>1, <4>1
        <5>2. \E m \in 1 .. Len(list) : r[n] = list[m]
          BY <1>7, <5>1
        <5>3. QED BY <5>1, <5>2
      <4>2. CASE j # k
        BY <1>8, <2>1, <3>1, <4>2
      <4>3. QED BY <4>1, <4>2
    <3>5. QED BY <1>2, <3>1, <3>3, <3>4
  <2>4. QED BY <1>0, <2>u, <2>2, <2>3 DEF PushShape, Writing
<1>23. Traced'
  <2>a. SUFFICES ASSUME NEW a \in Channels, NEW b \in Entries, InRing(a, b)'
                 PROVE  Listed(a, b)' \/ Ending(a, b)'
    BY DEF Traced
  <2>j. SUFFICES ASSUME NEW j, j = gpfifo_entries[a][b].chunk
                 PROVE  Listed(a, b)' \/ Ending(a, b)'
    OBVIOUS
  <2>1. <<a, b>> # <<c, g>>
    <3>1. SUFFICES ASSUME a = c, b = g
                   PROVE  FALSE
      OBVIOUS
    <3>2. QED BY <1>1, <2>a, <3>1
  <2>2. Listed(a, b) \/ Ending(a, b)
    BY <1>1, <2>a, <2>1 DEF PipeInv, Traced
  <2>3. Ending(a, b) => Ending(a, b)'
    BY <1>0 DEF Ending
  <2>4. ASSUME Listed(a, b)
        PROVE  Listed(a, b)'
    <3>0. gpfifo_entries'[a][b].chunk = j /\ j \in Chunks
      <4>1. gpfifo_entries[a][b] \in EntryType
        BY DEF PipeInv, PipeTypes
      <4>2. QED BY <1>2, <2>j, <4>1 DEF EntryType
    <3>1. PICK n \in 1 .. Len(pending_gpfifos[j]) : pending_gpfifos[j][n] = <<a, b>>
      BY <2>4, <2>j DEF Listed
    <3>2. CASE j = k
      <4>1. n \in 1 .. Len(list) /\ list[n] = <<a, b>> /\ n # i
        BY <1>l, <1>6, <2>1, <3>1, <3>2
      <4>2. PICK m \in 1 .. Len(r) : r[m] = list[n]
        BY <1>7, <4>1
      <4>3. QED BY <1>8, <3>0, <3>2, <4>1, <4>2 DEF Listed
    <3>3. CASE j # k
      <4>1. pending_gpfifos'[j] = pending_gpfifos[j]
        BY <1>8, <3>0, <3>3
      <4>2. QED BY <3>0, <3>1, <4>1 DEF Listed
    <3>4. QED BY <3>2, <3>3
  <2>5. QED BY <2>2, <2>3, <2>4
<1>24. ChunkShape'
  BY <1>17, <1>21, <1>22, <1>23 DEF ChunkShape
<1>25. QED BY <1>0, <1>1, <1>17, <1>18, <1>19, <1>24, PipePartsNext

LEMMA PipeStep == PipeInv /\ [Next]_vars => PipeInv'
<1> SUFFICES ASSUME PipeInv, [Next]_vars
             PROVE  PipeInv'
  OBVIOUS
<1> HIDE DEF PipeInv
<1>1. ASSUME NEW t \in Threads, BeginStep(t)
      PROVE  PipeInv'
  BY <1>1, PlainStep, ClaimChannelStep, DownStep, ClaimChunkStep, IndexStep, Zenon
  DEF BeginStep, Plain
<1>2. ASSUME NEW t \in Threads, UpdateStep(t)
      PROVE  PipeInv'
  BY <1>2, PlainStep, CompletedValueStep, MarkStep, StoppedStep, Zenon DEF UpdateStep, Plain
<1>3. ASSUME NEW t \in Threads, EndStep(t)
      PROVE  PipeInv'
  BY <1>3, EndPushStep, ChunkEndPushStep, UpStep, Zenon DEF EndStep
<1>4. ASSUME NEW t \in Threads, Call(t)
      PROVE  PipeInv'
  BY <1>4, PlainStep, Zenon DEF Call, Plain
<1>5. QED
  BY <1>1, <1>2, <1>3, <1>4, OnCompleteStep, GpuStep, StoppedStep, Zenon DEF Next

LEMMA InitPipe == Init => PipeInv
<1> SUFFICES ASSUME Init
             PROVE  PipeInv
  OBVIOUS
<1>1. PICK held \in HeldChunks :
         /\ current_push = [k \in Chunks |-> IF k \in held THEN OtherPool ELSE NoThread]
         /\ idle_chunks = Chunks \ held /\ available_chunks = Chunks \ held
         /\ concurrent_pushes_sema = NumChunks - Cardinality(held)
  BY DEF Init, InitChunks
<1>2. /\ next_push_start = [k \in Chunks |-> 0] /\ pending_gpfifos = [k \in Chunks |-> <<>>]
      /\ cpu_put = [c \in Channels |-> 0] /\ gpu_get = [c \in Channels |-> 0]
      /\ current_pushes_count = [c \in Channels |-> 0]
      /\ next_push_info_index = [c \in Channels |-> 0]
      /\ queued_value = [c \in Channels |-> 0] /\ completed_value = [c \in Channels |-> 0]
      /\ gpfifo_entries = [c \in Channels |-> [i \in Entries |-> NoEntry]]
      /\ on_complete = [c \in Channels |-> [i \in Entries |-> NoThread]]
      /\ released = [c \in Channels |-> 0] /\ pool_lock = NoThread
      /\ pc = [t \in Threads |-> "idle"] /\ push = [t \in Threads |-> NoPush]
      /\ update = [t \in Threads |-> NoUpdate]
  BY DEF Init, InitChunks
<1>3. IsFiniteSet(held) /\ Cardinality(held) \in 0 .. NumChunks
  <2>1. held \in SUBSET (0 .. (NumChunks - 1)) /\ NumChunks \in Nat /\ NumChunks > 0
    BY PushPipelineAssumption
  <2>2. /\ IsFiniteSet(0 .. (NumChunks - 1))
        /\ Cardinality(0 .. (NumChunks - 1)) = NumChunks
    BY <2>1, FS_Interval
  <2>3. IsFiniteSet(held) /\ Cardinality(held) <= NumChunks
    BY <2>1, <2>2, FS_Subset
  <2>4. Cardinality(held) \in Nat
    BY <2>3, FS_CardinalityType
  <2>5. QED BY <2>1, <2>3, <2>4
<1>4. PipeTypes
  <2>1. ThreadTypes
    BY <1>2, NothingTypes DEF ThreadTypes, Labels, UpdatePCs
  <2>2. ChannelTypes
    BY <1>2, NothingTypes, ConstantsOK DEF ChannelTypes
  <2>3. next_push_start \in [Chunks -> 0 .. ChunkSize]
    BY <1>2, ConstantsOK
  <2>4. pending_gpfifos \in [Chunks -> Seq(Channels \X Entries)]
    BY <1>2, EmptySeq
  <2>5. /\ current_push \in [Chunks -> Threads \cup {NoThread, OtherPool}]
        /\ idle_chunks \subseteq Chunks /\ available_chunks \subseteq Chunks
        /\ pool_lock \in Threads \cup {NoThread}
    BY <1>1, <1>2
  <2>6. concurrent_pushes_sema \in 0 .. NumChunks
    BY <1>1, <1>3, ConstantsOK
  <2>7. QED BY <2>1, <2>2, <2>3, <2>4, <2>5, <2>6
            DEF PipeTypes, TypeOK, ThreadTypes, ChannelTypes, Labels
<1>5. ASSUME NEW c \in Channels
      PROVE  RingShape(c) /\ HoldersShape(c) /\ \A i \in Entries : ~InRing(c, i)
  <2>1. /\ cpu_put[c] = 0 /\ gpu_get[c] = 0 /\ current_pushes_count[c] = 0
        /\ queued_value[c] = 0 /\ completed_value[c] = 0 /\ released[c] = 0
        /\ numGpFifoEntries \in Nat /\ numGpFifoEntries > 0
    BY <1>2, ConstantsOK
  <2>2. Kept(c) = 0
    BY <2>1 DEF Kept
  <2>3. ASSUME NEW i \in Entries
        PROVE  Age(c, i) > 0 /\ Age(c, i) \in Int /\ gpfifo_entries[c][i].value = 0
    <3>1. gpfifo_entries[c][i].value = 0
      BY <1>2 DEF NoEntry
    <3>2. i \in 0 .. (numGpFifoEntries - 1) /\ i \in Int /\ i >= 0
      BY <2>1 DEF Entries
    <3>3. Age(c, i) = 0 - i + numGpFifoEntries
      BY <2>1, <3>2 DEF Age
    <3>4. QED BY <2>1, <3>1, <3>2, <3>3
  <2>4. RingShape(c)
    BY <2>1, <2>2, <2>3 DEF RingShape
  <2>5. \A i \in Entries : ~InRing(c, i)
    BY <2>2, <2>3 DEF InRing
  <2>6. \A t \in Threads : ~Reserved(t)
    BY <1>2 DEF Reserved, UpdatePCs
  <2>7. Holders(c) = {}
    BY <2>6 DEF Holders
  <2>8. HoldersShape(c)
    BY <2>1, <2>7, FS_EmptySet DEF HoldersShape
  <2>9. QED BY <2>4, <2>5, <2>8
<1>6. \A t \in Threads : UpdateShape(t) /\ PushShape(t)
  BY <1>2 DEF UpdateShape, PushShape, Writing
<1>7. AdmittedShape
  <2>1. Admitted = {}
    BY <1>2 DEF Admitted, Where, Past, UpdatePCs
  <2>2. QED BY <1>1, <1>3, <2>1, FS_EmptySet, ConstantsOK DEF AdmittedShape
<1>8. ASSUME NEW k \in Chunks
      PROVE  MapShape(k) /\ ListShape(k)
  <2>1. pending_gpfifos[k] = <<>> /\ next_push_start[k] = 0
    BY <1>2
  <2>2. Extents(k) = <<>>
    BY <2>1 DEF Extents
  <2>3. Len(Extents(k)) = 0 /\ Len(pending_gpfifos[k]) = 0
    BY <2>1, <2>2, EmptySeq
  <2>4. Fits(Extents(k), 0) /\ Laid(Extents(k))
    BY <2>3, ConstantsOK DEF Fits, Laid
  <2>5. current_push[k] = NoThread <=> k \notin held
    BY <1>1, PushPipelineAssumption
  <2>6. MapShape(k)
    BY <1>1, <2>1, <2>4, <2>5 DEF MapShape
  <2>7. QED BY <2>3, <2>4, <2>6 DEF ListShape
<1>9. Traced
  BY <1>5 DEF Traced
<1>10. QED BY <1>4, <1>5, <1>6, <1>7, <1>8, <1>9 DEF PipeInv

LEMMA PipeInvariance == Spec => []PipeInv
BY InitPipe, PipeStep, PTL DEF Spec

-----------------------------------------------------------------------------
(***************************************************************************)
(* What follows.                                                           *)
(***************************************************************************)
LEMMA RingsFit ==
  ASSUME PipeInv
  PROVE  RingNeverOverflows
<1> SUFFICES ASSUME NEW c \in Channels
             PROVE  PendingCount(c) + current_pushes_count[c] < numGpFifoEntries
  BY DEF RingNeverOverflows
<1> DEFINE N == numGpFifoEntries
           x == cpu_put[c] - gpu_get[c] + N
<1>1. /\ cpu_put[c] \in 0 .. (N - 1) /\ gpu_get[c] \in 0 .. (N - 1) /\ RingShape(c)
      /\ N \in Nat /\ N > 0 /\ current_pushes_count[c] \in Nat
  BY RingTypes, ConstantsOK
<1>2. Kept(c) = cpu_put[c] - gpu_get[c] + (IF cpu_put[c] >= gpu_get[c] THEN 0 ELSE N)
  BY DEF Kept
<1>3. x \in Nat /\ x < 2 * N /\ (cpu_put[c] >= gpu_get[c] <=> x >= N)
  BY <1>1
<1>4. (x < N => x % N = x) /\ (x >= N => x % N = x - N)
  BY <1>3, RingModulo
<1>5. x % N = Kept(c)
  BY <1>1, <1>2, <1>3, <1>4
<1>6. PendingCount(c) = Kept(c)
  BY <1>5 DEF PendingCount
<1>7. QED BY <1>1, <1>6 DEF RingShape

\* What the GPU has not finished is still in the ring.
LEMMA UnfinishedInRing ==
  ASSUME PipeInv, NEW e \in Unfinished
  PROVE  /\ e \in Channels \X Entries /\ InRing(e[1], e[2])
         /\ EntryAt(e) \in EntryType /\ e = <<e[1], e[2]>>
<1> DEFINE c == e[1]
           i == e[2]
<1>1. e \in Channels \X Entries
  BY DEF Unfinished
<1>2. c \in Channels /\ i \in Entries /\ e = <<c, i>>
  BY <1>1
<1>3. gpfifo_entries[c][i].value > released[c]
  BY DEF Unfinished, EntryAt
<1>4. gpfifo_entries[c][i] \in EntryType
  BY <1>2 DEF PipeInv, PipeTypes
<1> HIDE DEF c, i
<1>5. /\ Age(c, i) \in Nat /\ Kept(c) \in Nat /\ queued_value[c] \in Nat
      /\ released[c] \in Nat /\ completed_value[c] \in Nat
      /\ queued_value[c] - Kept(c) <= completed_value[c]
      /\ completed_value[c] <= released[c]
      /\ gpfifo_entries[c][i].value =
            IF Age(c, i) <= queued_value[c] THEN queued_value[c] - Age(c, i) + 1 ELSE 0
  BY <1>2, RingTypes, ConstantsOK DEF RingShape
<1>6. Age(c, i) <= Kept(c)
  BY <1>3, <1>5
<1>7. EntryAt(e) \in EntryType
  BY <1>4 DEF EntryAt, c, i
<1>8. QED BY <1>1, <1>2, <1>6, <1>7 DEF InRing, c, i

\* So it is on its chunk's list, or a thread is about to put it there.
Pushing(e, u) ==
    /\ pc[u] = "end" /\ push[u].channel = e[1] /\ push[u].entry = e[2]
    /\ EntryAt(e).chunk = push[u].chunk /\ EntryAt(e).start = push[u].begin
OnList(e, n) ==
    LET k == EntryAt(e).chunk IN
    /\ n \in 1 .. Len(Extents(k)) /\ Extents(k)[n] = EntryAt(e)
    /\ pending_gpfifos[k][n] = e

LEMMA UnfinishedPlaced ==
  ASSUME PipeInv, NEW e \in Unfinished
  PROVE  (\E n \in Nat : OnList(e, n)) \/ (\E u \in Threads : Pushing(e, u))
<1>c. SUFFICES ASSUME NEW c, c = e[1], NEW i, i = e[2], NEW k, k = EntryAt(e).chunk
               PROVE  (\E n \in Nat : OnList(e, n)) \/ (\E u \in Threads : Pushing(e, u))
  OBVIOUS
<1>1. /\ c \in Channels /\ i \in Entries /\ e = <<c, i>> /\ InRing(c, i)
      /\ EntryAt(e) = gpfifo_entries[c][i]
  <2>1. e \in Channels \X Entries /\ InRing(e[1], e[2]) /\ e = <<e[1], e[2]>>
    BY UnfinishedInRing
  <2>2. QED BY <1>c, <2>1 DEF EntryAt
<1>2. k \in Chunks /\ k = gpfifo_entries[c][i].chunk
  <2>1. gpfifo_entries[c][i] \in EntryType
    BY <1>1 DEF PipeInv, PipeTypes
  <2>2. QED BY <1>c, <1>1, <2>1 DEF EntryType
<1>3. Listed(c, i) \/ Ending(c, i)
  BY <1>1 DEF PipeInv, Traced
<1>4. ASSUME Listed(c, i)
      PROVE  \E n \in Nat : OnList(e, n)
  <2>1. PICK n \in 1 .. Len(pending_gpfifos[k]) : pending_gpfifos[k][n] = <<c, i>>
    BY <1>2, <1>4 DEF Listed
  <2>2. /\ Len(Extents(k)) = Len(pending_gpfifos[k]) /\ Len(pending_gpfifos[k]) \in Nat
        /\ Extents(k)[n] = EntryAt(pending_gpfifos[k][n])
    BY <1>2, <2>1, ListIs
  <2>3. n \in Nat /\ n \in 1 .. Len(Extents(k)) /\ Extents(k)[n] = EntryAt(e)
        /\ pending_gpfifos[k][n] = e
    <3>1. n \in 1 .. Len(Extents(k)) /\ n \in Nat
      BY <2>1, <2>2
    <3>2. QED BY <1>1, <2>1, <2>2, <3>1
  <2>4. QED BY <1>c, <2>3 DEF OnList
<1>5. ASSUME Ending(c, i)
      PROVE  \E u \in Threads : Pushing(e, u)
  <2>1. PICK u \in Threads : pc[u] = "end" /\ push[u].channel = c /\ push[u].entry = i
    BY <1>5 DEF Ending
  <2>2. PushShape(u)
    BY DEF PipeInv
  <2>3. /\ gpfifo_entries[c][i].chunk = push[u].chunk
        /\ gpfifo_entries[c][i].start = push[u].begin
    BY <2>1, <2>2 DEF PushShape
  <2>4. Pushing(e, u)
    BY <1>1, <1>c, <2>1, <2>3 DEF Pushing
  <2>5. QED BY <2>4
<1>6. QED BY <1>3, <1>4, <1>5

\* Bytes of two chunks, or of one chunk and apart.
LEMMA BytesApart ==
  ASSUME NEW k, NEW l, NEW a \in Int, NEW b \in Int, NEW m \in Int, NEW n \in Int,
         k # l \/ a + m <= b \/ b + n <= a
  PROVE  ({k} \X (a .. (a + m - 1))) \cap ({l} \X (b .. (b + n - 1))) = {}
<1> SUFFICES ASSUME NEW x \in {k} \X (a .. (a + m - 1)), x \in {l} \X (b .. (b + n - 1))
             PROVE  FALSE
  OBVIOUS
<1>1. x[1] = k /\ x[2] \in a .. (a + m - 1) /\ x[1] = l /\ x[2] \in b .. (b + n - 1)
  OBVIOUS
<1>2. QED BY <1>1

\* A thread with a chunk has it alone, and what is listed stays out of its way.
LEMMA WriterIs ==
  ASSUME PipeInv, NEW t \in Threads, Writing(t)
  PROVE  /\ push[t].chunk \in Chunks /\ current_push[push[t].chunk] = t
         /\ push[t].begin \in Nat /\ push[t].begin + MaxPushSize <= ChunkSize
         /\ Fits(Extents(push[t].chunk), push[t].begin)
<1>1. PushShape(t) /\ push[t] \in PushType
  BY DEF PipeInv, PipeTypes
<1>2. push[t].chunk \in Chunks /\ push[t].begin \in Nat
  BY <1>1, ConstantsOK DEF PushType
<1>3. Fits(Extents(push[t].chunk), push[t].begin) /\ current_push[push[t].chunk] = t
  BY <1>1 DEF PushShape
<1>4. QED BY <1>2, <1>3 DEF Fits

LEMMA WriterClear ==
  ASSUME PipeInv, NEW t \in Threads, Writing(t), NEW e \in Unfinished,
         NEW n \in Nat, OnList(e, n), EntryAt(e).chunk = push[t].chunk
  PROVE  Clear(EntryAt(e), push[t].begin)
<1>1. Fits(Extents(push[t].chunk), push[t].begin)
  BY WriterIs
<1>2. n \in 1 .. Len(Extents(push[t].chunk)) /\ Extents(push[t].chunk)[n] = EntryAt(e)
  BY DEF OnList
<1>3. QED BY <1>1, <1>2 DEF Fits

LEMMA EntryNumbers ==
  ASSUME PipeInv, NEW e \in Unfinished
  PROVE  /\ EntryAt(e).start \in Int /\ EntryAt(e).size \in Int
         /\ EntryAt(e).size <= MaxPushSize /\ EntryAt(e).chunk \in Chunks
<1>1. EntryAt(e) \in EntryType
  BY UnfinishedInRing
<1>2. QED BY <1>1, ConstantsOK DEF EntryType

LEMMA PushesApart ==
  ASSUME PipeInv
  PROVE  PushesIntact
<1>0. MaxPushSize \in Int /\ MaxPushSize > 0 /\ ChunkSize \in Nat
  BY ConstantsOK
<1>1. \A t \in Writers : t \in Threads /\ Writing(t) /\ pc[t] # "end"
  BY DEF Writers, Writing
<1>2. ASSUME NEW t \in Writers
      PROVE  PushBytes(t) \subseteq Chunks \X (0 .. (ChunkSize - 1))
  <2>1. /\ push[t].chunk \in Chunks
        /\ push[t].begin \in Nat /\ push[t].begin + MaxPushSize <= ChunkSize
    BY <1>1, WriterIs
  <2>2. push[t].begin .. (push[t].begin + MaxPushSize - 1) \subseteq 0 .. (ChunkSize - 1)
    BY <1>0, <2>1
  <2>3. QED BY <2>1, <2>2 DEF PushBytes
<1>3. ASSUME NEW t \in Writers, NEW u \in Writers, t # u
      PROVE  PushBytes(t) \cap PushBytes(u) = {}
  <2>1. /\ current_push[push[t].chunk] = t /\ current_push[push[u].chunk] = u
        /\ push[t].begin \in Int /\ push[u].begin \in Int
    BY <1>1, WriterIs
  <2>2. push[t].chunk # push[u].chunk
    BY <1>3, <2>1
  <2>3. QED BY <1>0, <2>1, <2>2, BytesApart DEF PushBytes
<1>4. ASSUME NEW t \in Writers, NEW e \in Unfinished
      PROVE  PushBytes(t) \cap EntryBytes(e) = {}
  <2>1. /\ push[t].begin \in Int /\ EntryAt(e).start \in Int /\ EntryAt(e).size \in Int
        /\ current_push[push[t].chunk] = t
    BY <1>1, WriterIs, EntryNumbers
  <2>2. \/ push[t].chunk # EntryAt(e).chunk
        \/ push[t].begin + MaxPushSize <= EntryAt(e).start
        \/ EntryAt(e).start + EntryAt(e).size <= push[t].begin
    <3>1. ASSUME NEW n \in Nat, OnList(e, n), EntryAt(e).chunk = push[t].chunk
          PROVE  Clear(EntryAt(e), push[t].begin)
      BY <1>1, <3>1, WriterClear
    <3>2. ASSUME NEW u \in Threads, Pushing(e, u)
          PROVE  EntryAt(e).chunk # push[t].chunk
      <4>1. pc[u] = "end" /\ EntryAt(e).chunk = push[u].chunk /\ u # t
        BY <1>1, <3>2 DEF Pushing
      <4>2. Writing(u)
        BY <4>1 DEF Writing
      <4>3. current_push[push[u].chunk] = u
        BY <4>2, WriterIs
      <4>4. QED BY <2>1, <4>1, <4>3
    <3>3. QED BY <3>1, <3>2, UnfinishedPlaced DEF Clear
  <2>3. QED BY <1>0, <2>1, <2>2, BytesApart DEF PushBytes, EntryBytes
<1>5. ASSUME NEW d \in Unfinished, NEW e \in Unfinished, d # e
      PROVE  EntryBytes(d) \cap EntryBytes(e) = {}
  <2>1. /\ EntryAt(d).start \in Int /\ EntryAt(d).size \in Int /\ EntryAt(d).size <= MaxPushSize
        /\ EntryAt(e).start \in Int /\ EntryAt(e).size \in Int /\ EntryAt(e).size <= MaxPushSize
        /\ EntryAt(d).chunk \in Chunks
    BY EntryNumbers
  <2>2. EntryAt(d).chunk # EntryAt(e).chunk \/ Apart(EntryAt(d), EntryAt(e))
    <3>1. SUFFICES ASSUME NEW k \in Chunks, EntryAt(d).chunk = k, EntryAt(e).chunk = k
                   PROVE  Apart(EntryAt(d), EntryAt(e))
      BY <2>1
    \* A listed entry and one about to be listed.
    <3>2. ASSUME NEW f \in Unfinished, NEW g \in Unfinished, EntryAt(f).chunk = k,
                 EntryAt(g).chunk = k, NEW n \in Nat, OnList(f, n),
                 NEW u \in Threads, Pushing(g, u),
                 EntryAt(f).size \in Int, EntryAt(g).size \in Int, EntryAt(f).start \in Int,
                 EntryAt(g).start \in Int, EntryAt(g).size <= MaxPushSize
          PROVE  Apart(EntryAt(f), EntryAt(g)) /\ Apart(EntryAt(g), EntryAt(f))
      <4>1. Writing(u) /\ push[u].chunk = k /\ push[u].begin = EntryAt(g).start
        BY <3>2 DEF Pushing, Writing
      <4>2. EntryAt(f).chunk = push[u].chunk
        BY <3>2, <4>1
      <4>3. Clear(EntryAt(f), push[u].begin)
        BY <3>2, <4>1, <4>2, WriterClear
      <4>4. Clear(EntryAt(f), EntryAt(g).start)
        BY <4>1, <4>3
      <4>5. QED BY <1>0, <3>2, <4>4 DEF Clear, Apart
    <3>3. ASSUME NEW m \in Nat, OnList(d, m), NEW n \in Nat, OnList(e, n)
          PROVE  Apart(EntryAt(d), EntryAt(e))
      <4>1. /\ m \in 1 .. Len(Extents(k)) /\ Extents(k)[m] = EntryAt(d)
            /\ n \in 1 .. Len(Extents(k)) /\ Extents(k)[n] = EntryAt(e)
            /\ pending_gpfifos[k][m] = d /\ pending_gpfifos[k][n] = e
        BY <3>1, <3>3 DEF OnList
      <4>2. m # n
        BY <1>5, <4>1
      <4>3. Laid(Extents(k))
        BY <3>1, ListIs
      <4>4. Apart(EntryAt(d), EntryAt(e)) \/ Apart(EntryAt(e), EntryAt(d))
        <5>1. m < n \/ n < m
          BY <4>2, <3>3
        <5>2. QED BY <4>1, <4>3, <5>1 DEF Laid
      <4>5. QED BY <4>4 DEF Apart
    <3>4. ASSUME NEW u \in Threads, Pushing(d, u), NEW v \in Threads, Pushing(e, v)
          PROVE  FALSE
      <4>1. /\ Writing(u) /\ push[u].chunk = k /\ d[1] = push[u].channel /\ d[2] = push[u].entry
            /\ Writing(v) /\ push[v].chunk = k /\ e[1] = push[v].channel /\ e[2] = push[v].entry
        BY <3>1, <3>4 DEF Pushing, Writing
      <4>2. current_push[push[u].chunk] = u /\ current_push[push[v].chunk] = v
        BY <4>1, WriterIs
      <4>3. u = v
        BY <4>1, <4>2
      <4>4. d = <<d[1], d[2]>> /\ e = <<e[1], e[2]>>
        BY UnfinishedInRing
      <4>5. QED BY <1>5, <4>1, <4>3, <4>4
    <3>5. \A n \in Nat, u \in Threads :
             /\ OnList(d, n) /\ Pushing(e, u) => Apart(EntryAt(d), EntryAt(e))
             /\ OnList(e, n) /\ Pushing(d, u) => Apart(EntryAt(d), EntryAt(e))
      BY <2>1, <3>1, <3>2
    <3>6. /\ (\E n \in Nat : OnList(d, n)) \/ (\E u \in Threads : Pushing(d, u))
          /\ (\E n \in Nat : OnList(e, n)) \/ (\E u \in Threads : Pushing(e, u))
      BY UnfinishedPlaced
    <3>7. QED BY <3>3, <3>4, <3>5, <3>6, Zenon
  <2>3. \/ EntryAt(d).chunk # EntryAt(e).chunk
        \/ EntryAt(d).start + EntryAt(d).size <= EntryAt(e).start
        \/ EntryAt(e).start + EntryAt(e).size <= EntryAt(d).start
    BY <2>2 DEF Apart
  <2>4. QED BY <2>1, <2>3, BytesApart DEF EntryBytes
<1>6. QED BY <1>2, <1>3, <1>4, <1>5 DEF PushesIntact

(***************************************************************************)
(* However many pushes are begun before the first of them ends,            *)
(* uvm_channel_end_push never overwrites a pending GPFIFO entry, and       *)
(* uvm_pushbuffer_begin_push never hands out bytes that another push is    *)
(* written to or that the GPU has yet to execute.                          *)
(***************************************************************************)
THEOREM RingAndMethodsSafe == Spec => []RingExact
<1>1. PipeInv => RingExact
  BY RingsFit, PushesApart DEF RingExact
<1>2. QED BY <1>1, PipeInvariance, PTL

(***************************************************************************)
(* update_chunk and the claims keep the two bitmaps of the pushbuffer      *)
(* true: a chunk marked available has room for a push of the largest size  *)
(* where next_push_start says, and a chunk with nothing on-going and       *)
(* nothing pending is idle, so none is lost.                               *)
(***************************************************************************)
THEOREM ChunkMapsTrue == Spec => []ChunkMapsExact
<1>1. PipeInv => ChunkMapsExact
  <2> SUFFICES ASSUME PipeInv
               PROVE  ChunkMapsExact
    OBVIOUS
  <2>1. TypeOK
    BY DEF PipeInv, PipeTypes
  <2>2. ASSUME NEW k \in Chunks
        PROVE  /\ k \in available_chunks =>
                     /\ current_push[k] = NoThread
                     /\ next_push_start[k] + MaxPushSize <= ChunkSize
               /\ k \in idle_chunks <=>
                     pending_gpfifos[k] = <<>> /\ current_push[k] = NoThread
    <3>1. MapShape(k)
      BY DEF PipeInv
    <3>2. QED BY <3>1 DEF MapShape, Fits
  <2>3. QED BY <2>1, <2>2 DEF ChunkMapsExact
<1>2. QED BY <1>1, PipeInvariance, PTL

\* Steps that leave the semaphores alone.
LEMMA NothingTracked ==
  ASSUME NEW c \in Channels, UNCHANGED <<queued_value, released, completed_value>>
  PROVE  [Tracking(c)!CNext]_(Tracking(c)!cvars)
BY DEF Tracking!cvars

LEMMA UpdateTracked ==
  ASSUME PipeInv, NEW t \in Threads, uvm_channel_update_completed_value(t), NEW c \in Channels
  PROVE  [Tracking(c)!CNext]_(Tracking(c)!cvars)
<1>1. completed_value \in [Channels -> Nat] /\ PipeTypes
  BY DEF PipeInv, PipeTypes, TypeOK
<1>d. SUFFICES ASSUME NEW d, d = update[t].todo[1][1]
               PROVE  [Tracking(c)!CNext]_(Tracking(c)!cvars)
  OBVIOUS
<1>2. /\ completed_value' = [completed_value EXCEPT
                                ![d] = Extend(completed_value[d], released[d] % PayloadRange)]
      /\ UNCHANGED <<queued_value, released>>
  BY <1>d DEF uvm_channel_update_completed_value, gpu_vars
<1>3. CASE c # d
  BY <1>1, <1>2, <1>3 DEF Tracking!cvars
<1>4. CASE c = d
  <2>1. Extend(completed_value[c], released[c] % PayloadRange) = released[c]
    BY <1>4, <1>d, UpdateReads
  <2>2. completed_value'[c] = released[c]
    BY <1>1, <1>2, <1>4, <2>1
  <2>3. completed_value[c] \in Nat /\ released[c] \in Nat /\ completed_value[c] <= released[c]
    BY RingTypes DEF RingShape
  <2>4. CASE completed_value[c] = released[c]
    BY <1>2, <2>2, <2>4 DEF Tracking!cvars
  <2>5. CASE completed_value[c] < released[c]
    <3>1. completed_value'[c] \in (completed_value[c] + 1) .. released[c]
      BY <2>2, <2>3, <2>5
    <3>2. Tracking(c)!Observe
      BY <1>2, <2>5, <3>1 DEF Tracking!Observe
    <3>3. QED BY <3>2 DEF Tracking!CNext
  <2>6. QED BY <2>3, <2>4, <2>5
<1>5. QED BY <1>3, <1>4

LEMMA EndPushTracked ==
  ASSUME PipeInv, NEW t \in Threads, NEW size \in PushSizes, uvm_channel_end_push(t, size),
         NEW c \in Channels
  PROVE  [Tracking(c)!CNext]_(Tracking(c)!cvars)
<1>1. queued_value \in [Channels -> Nat]
  BY DEF PipeInv, PipeTypes, TypeOK
<1>d. SUFFICES ASSUME NEW d, d = push[t].channel
               PROVE  [Tracking(c)!CNext]_(Tracking(c)!cvars)
  OBVIOUS
<1>2. /\ queued_value' = [queued_value EXCEPT ![d] = @ + 1]
      /\ UNCHANGED <<completed_value, released>> /\ pc[t] = "push"
  BY <1>d DEF uvm_channel_end_push, gpu_vars, At
<1>3. CASE c # d
  BY <1>1, <1>2, <1>3 DEF Tracking!cvars
<1>4. CASE c = d
  <2>1. Reserved(t)
    BY <1>2 DEF Reserved, UpdatePCs
  <2>2. current_pushes_count[c] >= 1
    BY <1>4, <1>d, <2>1, ReservedCounts
  <2>3. /\ Kept(c) + current_pushes_count[c] < numGpFifoEntries
        /\ queued_value[c] - Kept(c) <= completed_value[c]
        /\ Kept(c) \in Nat /\ current_pushes_count[c] \in Nat /\ queued_value[c] \in Nat
        /\ completed_value[c] \in Nat /\ numGpFifoEntries \in Nat
    BY RingTypes, ConstantsOK DEF RingShape
  <2>4. queued_value[c] - completed_value[c] < numGpFifoEntries - 1
    BY <2>2, <2>3
  <2>5. queued_value'[c] = queued_value[c] + 1
    BY <1>1, <1>2, <1>4
  <2>6. Tracking(c)!Queue
    BY <1>2, <2>4, <2>5 DEF Tracking!Queue
  <2>7. QED BY <2>6 DEF Tracking!CNext
<1>5. QED BY <1>3, <1>4

LEMMA GpuTracked ==
  ASSUME PipeInv, NEW d \in Channels, GpuExecutes(d), NEW c \in Channels
  PROVE  [Tracking(c)!CNext]_(Tracking(c)!cvars)
<1>1. released \in [Channels -> Nat]
  BY DEF PipeInv, PipeTypes, TypeOK
<1>2. /\ released[d] < queued_value[d] /\ released' = [released EXCEPT ![d] = @ + 1]
      /\ UNCHANGED <<queued_value, completed_value>>
  BY DEF GpuExecutes, chan_vars
<1>3. CASE c # d
  BY <1>1, <1>2, <1>3 DEF Tracking!cvars
<1>4. CASE c = d
  <2>1. Tracking(c)!Release
    BY <1>1, <1>2, <1>4 DEF Tracking!Release
  <2>2. QED BY <2>1 DEF Tracking!CNext
<1>5. QED BY <1>3, <1>4

LEMMA StepTracked ==
  ASSUME PipeInv, [Next]_vars, NEW c \in Channels
  PROVE  [Tracking(c)!CNext]_(Tracking(c)!cvars)
<1> DEFINE Still == UNCHANGED <<queued_value, released, completed_value>>
<1> HIDE DEF PipeInv
<1>1. ASSUME NEW t \in Threads, Plain(t)
      PROVE  Still
  BY <1>1, PlainLeaves DEF chan_vars, gpu_vars
<1>2. ASSUME NEW t \in Threads,
             \/ ClaimChannel(t) \/ uvm_down(t) \/ ClaimChunk(t)
             \/ channel_get_next_push_info_index(t)
             \/ uvm_pushbuffer_mark_completed(t) \/ MarkUnlinkedEntry(t)
             \/ uvm_pushbuffer_end_push(t) \/ uvm_up(t) \/ SetOnComplete(t)
      PROVE  Still
  BY <1>2 DEF ClaimChannel, uvm_down, ClaimChunk, channel_get_next_push_info_index,
     uvm_pushbuffer_mark_completed, MarkUnlinkedEntry, uvm_pushbuffer_end_push, uvm_up,
     SetOnComplete, chan_vars, gpu_vars
<1>3. ASSUME NEW d \in Channels, GpuFails(d)
      PROVE  Still
  BY <1>3 DEF GpuFails, chan_vars
<1>4. ASSUME Down \/ UNCHANGED vars
      PROVE  Still
  BY <1>4 DEF Down, vars, chan_vars, gpu_vars
<1>5. Still => [Tracking(c)!CNext]_(Tracking(c)!cvars)
  BY NothingTracked
<1> HIDE DEF Still
<1>6. ASSUME NEW t \in Threads, BeginStep(t)
      PROVE  Still
  BY <1>1, <1>2, <1>6, Zenon DEF BeginStep, Plain
<1>7. ASSUME NEW t \in Threads, UpdateStep(t)
      PROVE  Still \/ uvm_channel_update_completed_value(t)
  BY <1>1, <1>2, <1>7, Zenon DEF UpdateStep, Plain
<1>8. ASSUME NEW t \in Threads, EndStep(t)
      PROVE  Still \/ \E size \in PushSizes : uvm_channel_end_push(t, size)
  BY <1>2, <1>8, Zenon DEF EndStep
<1>9. ASSUME NEW t \in Threads, Call(t)
      PROVE  Still
  BY <1>1, <1>9, Zenon DEF Call, Plain
<1>10. \/ Still
       \/ \E t \in Threads : uvm_channel_update_completed_value(t)
       \/ \E t \in Threads : \E size \in PushSizes : uvm_channel_end_push(t, size)
       \/ \E d \in Channels : GpuExecutes(d)
  BY <1>2, <1>3, <1>4, <1>6, <1>7, <1>8, <1>9, Zenon DEF Next
<1>11. QED BY <1>5, <1>10, UpdateTracked, EndPushTracked, GpuTracked, Zenon

(***************************************************************************)
(* Every channel keeps its tracking semaphore's contract, step by step:    *)
(* end_push queues value after value and only while fewer than a ring's    *)
(* pushes are not known to be complete, the GPU releases them in order,    *)
(* and an update of the completed value moves it forward and never past    *)
(* the GPU, although the payload it reads wraps.                           *)
(***************************************************************************)
THEOREM CompletionTracked == Spec => TracksCompletion
<1>1. Init => \A c \in Channels : Tracking(c)!CInit
  BY DEF Init, Tracking!CInit
<1>2. PipeInv /\ [Next]_vars
         => [\A c \in Channels : [Tracking(c)!CNext]_(Tracking(c)!cvars)]_vars
  BY StepTracked
<1>3. QED
  BY <1>1, <1>2, PipeInvariance, PTL DEF Spec, TracksCompletion
=============================================================================
