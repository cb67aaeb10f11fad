---------------------------- MODULE Drivers_proofs ----------------------------
(***************************************************************************)
(* Proofs about nvidia.ko, nvidia-modeset.ko and nvidia-drm.ko, for any    *)
(* number of tables, timers, clients, buffers, commits and displays.       *)
(***************************************************************************)
EXTENDS P2P, DrmGem, Modeset, Drm, FiniteSetTheorems, TLAPS

(***************************************************************************)
(* P2P.                                                                    *)
(***************************************************************************)
P2PTableType ==
    [mem : {"unused", "live", "freed"}, array : BOOLEAN, structs : Nat, entries : Nat,
     rm : {"none", "held", "revoked"}, user : {"none", "getting", "has", "callback"},
     at : {"none", "rm", "array", "fill"}]
P2PMapType ==
    [mem : {"unused", "live", "freed"}, addresses : BOOLEAN, mapped : BOOLEAN, user : BOOLEAN]

P2PTypeOK ==
    /\ p2pTable \in [P2PTable -> P2PTableType]
    /\ p2pMap \in [P2PTable -> P2PMapType]
    /\ p2pSetup \in P2PSetups

\* Only RM and the scratch allocations fail, and RM waits with taking pages
\* back until nvidia_p2p_get_pages has returned.
P2PRegular == ~p2pSetup.pages /\ ~p2pSetup.maps /\ ~p2pSetup.early

\* Where a table is decides what it holds.
P2PTableShape(r) ==
    /\ r.user = "getting" <=> r.at # "none"
    /\ r.at = "rm" => r.rm = "none" /\ ~r.array
    /\ r.at = "array" => r.rm = "held" /\ ~r.array
    /\ r.at = "fill" => r.rm = "held" /\ r.array
    /\ r.at \in {"rm", "array"} => r.structs = 0
    /\ r.at # "none" => r.mem = "live" /\ r.entries = 0
    /\ r.user = "has" => r.rm = "held"
    /\ r.user = "callback" => r.rm = "revoked"
    /\ r.user \in {"has", "callback"} => r.mem = "live" /\ r.array /\ r.structs = r.entries
    /\ r.user = "none" => r.mem # "live" /\ r.rm = "none" /\ ~r.array /\ r.structs = 0
         /\ r.entries = 0

P2PMapShape(r, m) ==
    /\ m.mem = "live" <=> m.user
    /\ m.user => r.user \in {"has", "callback"} /\ m.addresses

P2PInv ==
    /\ P2PTypeOK
    /\ \A t \in P2PTable : P2PTableShape(p2pTable[t]) /\ P2PMapShape(p2pTable[t], p2pMap[t])

LEMMA P2PInitInv == P2PInit => P2PInv
BY DEF P2PInit, P2PInv, P2PTypeOK, P2PTableType, P2PMapType, NoTable, NoMap, P2PTableShape,
       P2PMapShape

LEMMA P2PStepInv == P2PRegular /\ P2PInv /\ [P2PNext]_p2pVars => P2PInv'
<1> SUFFICES ASSUME P2PRegular, P2PInv, [P2PNext]_p2pVars
             PROVE  P2PInv'
  OBVIOUS
<1> USE P2PAssumption DEF P2PRegular, P2PInv, P2PTypeOK
\* A step that changes the table of t, or its mapping, to well-shaped ones.
<1>a. ASSUME NEW t \in P2PTable, NEW r \in P2PTableType, NEW m \in P2PMapType,
             p2pTable' = [p2pTable EXCEPT ![t] = r], p2pMap' = [p2pMap EXCEPT ![t] = m],
             p2pSetup' = p2pSetup, P2PTableShape(r), P2PMapShape(r, m)
      PROVE  P2PInv'
  BY <1>a
<1>b. \A t \in P2PTable :
         /\ p2pTable[t] \in P2PTableType /\ P2PTableShape(p2pTable[t])
         /\ p2pMap[t] \in P2PMapType /\ P2PMapShape(p2pTable[t], p2pMap[t])
  OBVIOUS
<1>c. \A t \in P2PTable :
         /\ p2pTable = [p2pTable EXCEPT ![t] = p2pTable[t]]
         /\ p2pMap = [p2pMap EXCEPT ![t] = p2pMap[t]]
  OBVIOUS
<1>1. ASSUME NEW t \in P2PTable, GetAllocates(t)
      PROVE  P2PInv'
  <2> DEFINE r == [p2pTable[t] EXCEPT !.mem = "live", !.user = "getting", !.at = "rm"]
             f == [p2pTable[t] EXCEPT !.mem = "freed"]
  <2>1. /\ r \in P2PTableType /\ P2PTableShape(r) /\ P2PMapShape(r, p2pMap[t])
        /\ f \in P2PTableType /\ P2PTableShape(f) /\ P2PMapShape(f, p2pMap[t])
    <3> HIDE DEF P2PInv, P2PTypeOK
    <3>1. p2pTable[t] \in P2PTableType /\ P2PTableShape(p2pTable[t])
            /\ P2PMapShape(p2pTable[t], p2pMap[t])
      BY <1>b
    <3>2. p2pTable[t].mem = "unused"
      BY <1>1 DEF GetAllocates
    <3>3. r \in P2PTableType /\ f \in P2PTableType
      BY <3>1, <3>2 DEF P2PTableType, P2PTableShape, NoTable, FreeOf
    <3>4. P2PTableShape(r)
      BY <3>1, <3>2 DEF P2PTableType, P2PTableShape
    <3>5. P2PTableShape(f)
      BY <3>1, <3>2 DEF P2PTableType, P2PTableShape, NoTable, FreeOf
    <3>6. ~p2pMap[t].user
      BY <3>1, <3>2 DEF P2PTableType, P2PTableShape, P2PMapShape
    <3>7. QED BY <3>1, <3>3, <3>4, <3>5, <3>6 DEF P2PMapShape
  <2>a. p2pTable \in [P2PTable -> P2PTableType]
    OBVIOUS
  <2>b. ASSUME p2pTable' = [p2pTable EXCEPT ![t].mem = "live", ![t].user = "getting", ![t].at = "rm"]
        PROVE  p2pTable' = [p2pTable EXCEPT ![t] = r]
    BY ONLY <2>a, <2>b DEF P2PTableType
  <2>2. p2pTable' = [p2pTable EXCEPT ![t] = r] \/ p2pTable' = [p2pTable EXCEPT ![t] = f]
    <3>1. CASE p2pTable' = [p2pTable EXCEPT ![t].mem = "live", ![t].user = "getting", ![t].at = "rm"]
      BY <3>1, <2>b
    <3>2. CASE p2pTable' = [p2pTable EXCEPT ![t].mem = "freed"]
      BY ONLY <3>2
    <3>3. QED BY ONLY <1>1, <3>1, <3>2 DEF GetAllocates
  <2>3. UNCHANGED <<p2pMap, p2pSetup>>
    BY <1>1 DEF GetAllocates
  <2> HIDE DEF r, f, P2PInv, P2PTypeOK
  <2>4. QED BY <1>a, <1>b, <1>c, <2>1, <2>2, <2>3
<1>2. ASSUME NEW t \in P2PTable, rm_p2p_get_pages(t)
      PROVE  P2PInv'
  <2> DEFINE r == [p2pTable[t] EXCEPT !.rm = "held", !.at = "array"]
             f == [NoTable EXCEPT !.mem = FreeOf(p2pTable[t].mem), !.user = "none"]
  <2>1. /\ r \in P2PTableType /\ P2PTableShape(r) /\ P2PMapShape(r, p2pMap[t])
        /\ f \in P2PTableType /\ P2PTableShape(f) /\ P2PMapShape(f, p2pMap[t])
    <3> HIDE DEF P2PInv, P2PTypeOK
    <3>1. p2pTable[t] \in P2PTableType /\ P2PTableShape(p2pTable[t])
            /\ P2PMapShape(p2pTable[t], p2pMap[t])
      BY <1>b
    <3>2. p2pTable[t].at = "rm"
      BY <1>2 DEF rm_p2p_get_pages
    <3>3. r \in P2PTableType /\ f \in P2PTableType
      BY <3>1, <3>2 DEF P2PTableType, P2PTableShape, NoTable, FreeOf
    <3>4. P2PTableShape(r)
      BY <3>1, <3>2 DEF P2PTableType, P2PTableShape
    <3>5. P2PTableShape(f)
      BY <3>1, <3>2 DEF P2PTableType, P2PTableShape, NoTable, FreeOf
    <3>6. ~p2pMap[t].user
      BY <3>1, <3>2 DEF P2PTableType, P2PTableShape, P2PMapShape
    <3>7. QED BY <3>1, <3>3, <3>4, <3>5, <3>6 DEF P2PMapShape
  <2>a. p2pTable \in [P2PTable -> P2PTableType]
    OBVIOUS
  <2>b. ASSUME p2pTable' = [p2pTable EXCEPT ![t].rm = "held", ![t].at = "array"]
        PROVE  p2pTable' = [p2pTable EXCEPT ![t] = r]
    BY ONLY <2>a, <2>b DEF P2PTableType
  <2>2. p2pTable' = [p2pTable EXCEPT ![t] = r] \/ p2pTable' = [p2pTable EXCEPT ![t] = f]
    <3>1. CASE p2pTable' = [p2pTable EXCEPT ![t].rm = "held", ![t].at = "array"]
      BY <3>1, <2>b
    <3>2. CASE GetFails(t, "none")
      BY ONLY <3>2 DEF GetFails
    <3>3. QED BY ONLY <1>2, <3>1, <3>2 DEF rm_p2p_get_pages
  <2>3. UNCHANGED <<p2pMap, p2pSetup>>
    BY <1>2 DEF rm_p2p_get_pages
  <2> HIDE DEF r, f, P2PInv, P2PTypeOK
  <2>4. QED BY <1>a, <1>b, <1>c, <2>1, <2>2, <2>3
<1>3. ASSUME NEW t \in P2PTable, GetArray(t)
      PROVE  P2PInv'
  <2> DEFINE r == [p2pTable[t] EXCEPT !.array = TRUE, !.at = "fill"]
             f == [NoTable EXCEPT !.mem = FreeOf(p2pTable[t].mem), !.user = "none"]
  <2>1. /\ r \in P2PTableType /\ P2PTableShape(r) /\ P2PMapShape(r, p2pMap[t])
        /\ f \in P2PTableType /\ P2PTableShape(f) /\ P2PMapShape(f, p2pMap[t])
    <3> HIDE DEF P2PInv, P2PTypeOK
    <3>1. p2pTable[t] \in P2PTableType /\ P2PTableShape(p2pTable[t])
            /\ P2PMapShape(p2pTable[t], p2pMap[t])
      BY <1>b
    <3>2. p2pTable[t].at = "array"
      BY <1>3 DEF GetArray
    <3>3. r \in P2PTableType /\ f \in P2PTableType
      BY <3>1, <3>2 DEF P2PTableType, P2PTableShape, NoTable, FreeOf
    <3>4. P2PTableShape(r)
      BY <3>1, <3>2 DEF P2PTableType, P2PTableShape
    <3>5. P2PTableShape(f)
      BY <3>1, <3>2 DEF P2PTableType, P2PTableShape, NoTable, FreeOf
    <3>6. ~p2pMap[t].user
      BY <3>1, <3>2 DEF P2PTableType, P2PTableShape, P2PMapShape
    <3>7. QED BY <3>1, <3>3, <3>4, <3>5, <3>6 DEF P2PMapShape
  <2>a. p2pTable \in [P2PTable -> P2PTableType]
    OBVIOUS
  <2>b. ASSUME p2pTable' = [p2pTable EXCEPT ![t].array = TRUE, ![t].at = "fill"]
        PROVE  p2pTable' = [p2pTable EXCEPT ![t] = r]
    BY ONLY <2>a, <2>b DEF P2PTableType
  <2>2. p2pTable' = [p2pTable EXCEPT ![t] = r] \/ p2pTable' = [p2pTable EXCEPT ![t] = f]
    <3>1. CASE p2pTable' = [p2pTable EXCEPT ![t].array = TRUE, ![t].at = "fill"]
      BY <3>1, <2>b
    <3>2. CASE GetFails(t, "none")
      BY ONLY <3>2 DEF GetFails
    <3>3. QED BY ONLY <1>3, <3>1, <3>2 DEF GetArray
  <2>3. UNCHANGED <<p2pMap, p2pSetup>>
    BY <1>3 DEF GetArray
  <2> HIDE DEF r, f, P2PInv, P2PTypeOK
  <2>4. QED BY <1>a, <1>b, <1>c, <2>1, <2>2, <2>3
<1>4. ASSUME NEW t \in P2PTable, GetFills(t)
      PROVE  P2PInv'
  <2> DEFINE r == [p2pTable[t] EXCEPT !.structs = @ + 1]
  <2>1. /\ r \in P2PTableType /\ P2PTableShape(r) /\ P2PMapShape(r, p2pMap[t])
    BY <1>4, <1>b DEF GetFills, P2PTableShape, P2PMapShape, P2PTableType, P2PMapType, Outcomes
  <2>2. p2pTable' = [p2pTable EXCEPT ![t] = r]
    BY <1>4, <1>b DEF GetFills, Outcomes, P2PTableType, P2PTableShape
  <2>3. UNCHANGED <<p2pMap, p2pSetup>>
    BY <1>4 DEF GetFills
  <2> HIDE DEF r, P2PInv, P2PTypeOK
  <2>4. QED BY <1>a, <1>b, <1>c, <2>1, <2>2, <2>3
<1>5. ASSUME NEW t \in P2PTable, nvidia_p2p_get_pages(t)
      PROVE  P2PInv'
  <2> DEFINE r == [p2pTable[t] EXCEPT !.entries = P2PEntries, !.at = "none", !.user = "has"]
  <2>1. /\ r \in P2PTableType /\ P2PTableShape(r) /\ P2PMapShape(r, p2pMap[t])
    BY <1>5, <1>b DEF nvidia_p2p_get_pages, P2PTableShape, P2PMapShape, P2PTableType, P2PMapType
  <2>2. p2pTable' = [p2pTable EXCEPT ![t] = r]
    BY <1>5, <1>b DEF nvidia_p2p_get_pages, P2PTableType, P2PTableShape
  <2>3. UNCHANGED <<p2pMap, p2pSetup>>
    BY <1>5 DEF nvidia_p2p_get_pages
  <2> HIDE DEF r, P2PInv, P2PTypeOK
  <2>4. QED BY <1>a, <1>b, <1>c, <2>1, <2>2, <2>3
<1>6. ASSUME NEW t \in P2PTable, RmRevokes(t)
      PROVE  P2PInv'
  <2> DEFINE r == [p2pTable[t] EXCEPT !.rm = "revoked", !.user = "callback"]
  <2>1. /\ r \in P2PTableType /\ P2PTableShape(r) /\ P2PMapShape(r, p2pMap[t])
    BY <1>6, <1>b DEF RmRevokes, P2PTableShape, P2PMapShape, P2PTableType, P2PMapType
  <2>2. p2pTable' = [p2pTable EXCEPT ![t] = r]
    BY <1>6, <1>b DEF RmRevokes, P2PTableType, P2PTableShape
  <2>3. UNCHANGED <<p2pMap, p2pSetup>>
    BY <1>6 DEF RmRevokes
  <2> HIDE DEF r, P2PInv, P2PTypeOK
  <2>4. QED BY <1>a, <1>b, <1>c, <2>1, <2>2, <2>3
<1>7. ASSUME NEW t \in P2PTable, nvidia_p2p_put_pages(t) \/ CallbackFrees(t)
      PROVE  P2PInv'
  <2> DEFINE r == [NoTable EXCEPT !.mem = FreeOf(p2pTable[t].mem), !.at = p2pTable[t].at,
                                 !.structs = p2pTable[t].structs - p2pTable[t].entries]
  <2>1. /\ r \in P2PTableType /\ P2PTableShape(r) /\ P2PMapShape(r, p2pMap[t])
    <3> HIDE DEF P2PInv, P2PTypeOK
    <3>1. p2pTable[t] \in P2PTableType /\ P2PTableShape(p2pTable[t])
            /\ P2PMapShape(p2pTable[t], p2pMap[t])
      BY <1>b
    <3>2. p2pTable[t].user \in {"has", "callback"} /\ ~p2pMap[t].user
      BY <1>7 DEF nvidia_p2p_put_pages, CallbackFrees
    <3>3. /\ p2pTable[t].mem = "live" /\ p2pTable[t].at = "none"
          /\ p2pTable[t].structs = p2pTable[t].entries /\ p2pTable[t].structs \in Nat
      BY <3>1, <3>2 DEF P2PTableType, P2PTableShape
    <3>4. p2pTable[t].structs - p2pTable[t].entries = 0 /\ FreeOf(p2pTable[t].mem) = "freed"
      BY <3>3 DEF FreeOf
    <3>a. r = [NoTable EXCEPT !.mem = FreeOf(p2pTable[t].mem), !.at = p2pTable[t].at,
                              !.structs = p2pTable[t].structs - p2pTable[t].entries]
      OBVIOUS
    <3>b. PICK m, l, n : /\ m = FreeOf(p2pTable[t].mem) /\ l = p2pTable[t].at
                         /\ n = p2pTable[t].structs - p2pTable[t].entries
      OBVIOUS
    <3>c. m = "freed" /\ l = "none" /\ n = 0
      BY <3>b, <3>3, <3>4
    <3>d. m \in {"freed"} /\ l \in {"none"} /\ n \in Nat
      BY <3>c
    <3>e. r = [NoTable EXCEPT !.mem = m, !.at = l, !.structs = n]
      BY ONLY <3>a, <3>b
    <3> HIDE DEF r
    <3>f. r \in P2PTableType
      BY ONLY <3>d, <3>e DEF NoTable, P2PTableType
    <3>g. r.mem = m /\ r.at = l
      BY ONLY <3>d, <3>e DEF NoTable
    <3>h. r.structs = n /\ r.entries = 0
      BY ONLY <3>d, <3>e DEF NoTable
    <3>i. ~r.array /\ r.rm = "none" /\ r.user = "none"
      BY ONLY <3>d, <3>e DEF NoTable
    <3>6. r \in P2PTableType /\ P2PTableShape(r) /\ r.user = "none"
      BY <3>c, <3>f, <3>g, <3>h, <3>i DEF P2PTableShape
    <3>7. ~p2pMap[t].user
      BY <3>2
    <3>8. QED BY <3>1, <3>6, <3>7 DEF P2PMapShape
  <2>2. p2pTable' = [p2pTable EXCEPT ![t] = r]
    BY ONLY <1>7 DEF nvidia_p2p_put_pages, CallbackFrees, nvidia_p2p_free_page_table
  <2>3. UNCHANGED <<p2pMap, p2pSetup>>
    BY <1>7 DEF nvidia_p2p_put_pages, CallbackFrees, nvidia_p2p_free_page_table
  <2> HIDE DEF r, P2PInv, P2PTypeOK
  <2>4. QED BY <1>a, <1>b, <1>c, <2>1, <2>2, <2>3
<1>8. ASSUME NEW t \in P2PTable, nvidia_p2p_dma_map_pages(t)
      PROVE  P2PInv'
  <2> DEFINE m == [mem |-> "live", addresses |-> TRUE, mapped |-> TRUE, user |-> TRUE]
  <2>1. /\ m \in P2PMapType /\ P2PMapShape(p2pTable[t], m)
    BY <1>8, <1>b DEF nvidia_p2p_dma_map_pages, P2PTableShape, P2PMapShape, P2PTableType,
       P2PMapType, Outcomes
  <2>2. p2pMap' = [p2pMap EXCEPT ![t] = m]
    BY <1>8, <1>b DEF nvidia_p2p_dma_map_pages, Outcomes, P2PTableType, P2PTableShape
  <2>3. UNCHANGED <<p2pTable, p2pSetup>>
    BY <1>8 DEF nvidia_p2p_dma_map_pages
  <2> HIDE DEF m, P2PInv, P2PTypeOK
  <2>4. QED BY <1>a, <1>b, <1>c, <2>1, <2>2, <2>3
<1>9. ASSUME NEW t \in P2PTable, nvidia_p2p_dma_unmap_pages(t) \/ CallbackFreesMapping(t)
      PROVE  P2PInv'
  <2> DEFINE m == [NoMap EXCEPT !.mem = FreeOf(p2pMap[t].mem), !.mapped = FALSE]
  <2>1. /\ m \in P2PMapType /\ P2PMapShape(p2pTable[t], m)
    <3>1. p2pMap[t].user
      BY <1>9 DEF nvidia_p2p_dma_unmap_pages, CallbackFreesMapping
    <3>2. p2pMap[t].mem = "live"
      BY <1>b, <3>1 DEF P2PMapShape, P2PMapType
    <3>3. FreeOf(p2pMap[t].mem) = "freed"
      BY <3>2 DEF FreeOf
    <3>4. m = [NoMap EXCEPT !.mem = "freed", !.mapped = FALSE]
      BY <3>3
    <3> HIDE DEF m
    <3>5. m \in P2PMapType /\ m.mem = "freed" /\ ~m.user
      BY <3>4 DEF NoMap, P2PMapType
    <3>6. QED BY <3>5 DEF P2PMapShape
  <2>2. p2pMap' = [p2pMap EXCEPT ![t] = m]
    BY <1>9, <1>b DEF nvidia_p2p_dma_unmap_pages, CallbackFreesMapping,
       nvidia_p2p_free_dma_mapping, NoMap, FreeOf, P2PTableType, P2PTableShape
  <2>3. UNCHANGED <<p2pTable, p2pSetup>>
    BY <1>9 DEF nvidia_p2p_dma_unmap_pages, CallbackFreesMapping, nvidia_p2p_free_dma_mapping
  <2> HIDE DEF m, P2PInv, P2PTypeOK
  <2>4. QED BY <1>a, <1>b, <1>c, <2>1, <2>2, <2>3
<1>10. CASE UNCHANGED p2pVars
  BY <1>10 DEF p2pVars
<1> HIDE DEF P2PInv
<1>11. QED
  BY <1>1, <1>2, <1>3, <1>4, <1>5, <1>6, <1>7, <1>8, <1>9, <1>10 DEF P2PNext

\* The setup of a behaviour never changes.
LEMMA P2PSetupFixed == [P2PNext]_p2pVars => p2pSetup' = p2pSetup
BY DEF P2PNext, p2pVars, GetAllocates, rm_p2p_get_pages, GetArray, GetFills,
       nvidia_p2p_get_pages, RmRevokes, nvidia_p2p_put_pages, CallbackFrees,
       nvidia_p2p_dma_map_pages, nvidia_p2p_dma_unmap_pages, CallbackFreesMapping

(***************************************************************************)
(* Page tables and DMA mappings of nv-p2p.c are freed once, by whoever     *)
(* has them, for any number of tables of any size and whatever of RM and   *)
(* of the scratch allocations fails; the three defects P2PRegular leaves   *)
(* out (a page's struct that cannot be allocated, a DMA mapping that       *)
(* fails, a revocation during nvidia_p2p_get_pages) do break it.           *)
(***************************************************************************)
THEOREM TablesFreedOnce == P2PSpec => [](P2PRegular => P2PExact)
<1>1. P2PInv => P2PExact
  <2> SUFFICES ASSUME P2PInv, NEW t \in P2PTable
               PROVE  LET r == p2pTable[t]  m == p2pMap[t] IN
                        /\ "broken" \notin {r.mem, m.mem}
                        /\ r.user # "none" \/ r.rm = "held" => r.mem = "live"
                        /\ r.user = "has" => r.array /\ r.structs = r.entries
                        /\ r.user = "none" => r.mem # "live"
                        /\ r.mem # "live" => ~r.array /\ r.structs = 0
                        /\ m.mem = "live" <=> m.user
                        /\ m.user => r.mem = "live" /\ m.addresses
    BY DEF P2PExact
  <2>1. /\ p2pTable[t] \in P2PTableType /\ p2pMap[t] \in P2PMapType
        /\ P2PTableShape(p2pTable[t]) /\ P2PMapShape(p2pTable[t], p2pMap[t])
    BY DEF P2PInv, P2PTypeOK
  <2>2. QED BY <2>1 DEF P2PTableShape, P2PMapShape, P2PTableType, P2PMapType
<1>2. P2PInit => (P2PRegular => P2PInv)
  BY P2PInitInv
<1>3. (P2PRegular => P2PInv) /\ [P2PNext]_p2pVars => (P2PRegular => P2PInv)'
  BY P2PStepInv, P2PSetupFixed DEF P2PRegular
<1>4. QED BY <1>1, <1>2, <1>3, PTL DEF P2PSpec


(***************************************************************************)
(* Buffers of nvidia-drm.ko.                                               *)
(***************************************************************************)
GemType ==
    [at : {"none", "backed", "live"}, kind : {"dumb", "nvkms", "user"},
     new : {"no", "unreference", "write"}, refs : Nat, handles : Nat,
     fb : {"none", "making", "up", "going"}, surface : BOOLEAN, vmas : Nat,
     exported : BOOLEAN, mem : BOOLEAN, mapped : BOOLEAN, bad : BOOLEAN]

GemTypeOK ==
    /\ gem \in [GemObj -> GemType]
    /\ gemLock \in [op : {"none", "offset", "mmap", "stuck"}, of : GemObj \cup {GemNone}]
    /\ gemSetup \in GemSetups

\* The references that somebody holds, but for the one of the mutex's holder.
GemHeld(g) ==
    g.handles + g.vmas + One_if(g.fb \in {"making", "up"}) + One_if(g.exported)
    + One_if(g.new = "unreference")

GemShape(g, locked) ==
    /\ g.refs = GemHeld(g) + One_if(locked)
    /\ g.at = "live" <=> g.refs > 0
    /\ g.mem <=> g.at # "none"
    /\ g.surface => g.fb \in {"up", "going"}

\* A handle outlives those who rely on it.
GemKept(g, locked) == ~g.bad /\ (g.new # "no" \/ locked => g.handles > 0)

GemInv ==
    /\ GemTypeOK
    /\ gemLock.op = "none" <=> gemLock.of = GemNone
    /\ \A o \in GemObj : GemShape(gem[o], gemLock.of = o)
    /\ ~gemSetup.meet => /\ gemLock.op # "stuck"
                         /\ \A o \in GemObj : GemKept(gem[o], gemLock.of = o)

LEMMA NoGemType == NoGem \in GemType
BY DEF NoGem, GemType

\* What dropping a reference does to a living buffer.
LEMMA UnreferenceIs ==
    ASSUME NEW g \in GemType, g.refs > 0, g.mem, g.at = "live"
    PROVE  /\ unreference(g) \in GemType
           /\ unreference(g).new = g.new /\ unreference(g).fb = g.fb
           /\ unreference(g).surface = g.surface /\ unreference(g).bad = g.bad
           /\ unreference(g).refs = g.refs - 1
           /\ g.refs = 1 => /\ unreference(g).at = "none" /\ ~unreference(g).mem
                            /\ unreference(g).handles = 0 /\ unreference(g).vmas = 0
                            /\ ~unreference(g).exported
           /\ g.refs > 1 => /\ unreference(g).at = "live" /\ unreference(g).mem
                            /\ unreference(g).handles = g.handles
                            /\ unreference(g).vmas = g.vmas
                            /\ unreference(g).exported = g.exported
<1>1. CASE g.refs = 1
  <2> DEFINE r == nvidia_drm_gem_free(g)
  <2>1. unreference(g) = r
    BY <1>1 DEF unreference
  <2>2. r = [NoGem EXCEPT !.new = g.new, !.fb = g.fb, !.surface = g.surface, !.bad = g.bad \/ ~g.mem]
    BY DEF nvidia_drm_gem_free
  <2>3. /\ g.new \in {"no", "unreference", "write"}
             /\ g.fb \in {"none", "making", "up", "going"}
        /\ g.surface \in BOOLEAN /\ g.bad \in BOOLEAN /\ (g.bad \/ ~g.mem) = g.bad
    BY DEF GemType
  <2> HIDE DEF r
  <2>4. r \in GemType
    <3>1. NoGem \in GemType
      BY DEF NoGem, GemType
    <3>2. \A x \in GemType : [x EXCEPT !.new = g.new, !.fb = g.fb, !.surface = g.surface,
                                      !.bad = g.bad] \in GemType
      BY ONLY <2>3, ZenonT(30) DEF GemType
    <3>3. r = [NoGem EXCEPT !.new = g.new, !.fb = g.fb, !.surface = g.surface, !.bad = g.bad]
      BY <2>2, <2>3
    <3>4. QED BY <3>1, <3>2, <3>3
  <2>5. r.new = g.new /\ r.fb = g.fb
    BY ONLY <2>2, <2>3 DEF NoGem
  <2>6. r.surface = g.surface
    BY ONLY <2>2, <2>3 DEF NoGem
  <2>7. r.bad = g.bad
    BY ONLY <2>2, <2>3 DEF NoGem
  <2>8. r.at = "none" /\ ~r.mem /\ ~r.exported
    BY ONLY <2>2, <2>3 DEF NoGem
  <2>9. r.refs = 0 /\ r.handles = 0 /\ r.vmas = 0
    BY ONLY <2>2, <2>3 DEF NoGem
  <2>10. QED BY <1>1, <2>1, <2>4, <2>5, <2>6, <2>7, <2>8, <2>9
<1>2. CASE g.refs # 1
  <2> DEFINE r == [g EXCEPT !.refs = @ - 1]
  <2>1. unreference(g) = r
    BY <1>2 DEF unreference
  <2>2. r \in GemType
    BY DEF GemType
  <2>3. /\ r.new = g.new /\ r.fb = g.fb /\ r.surface = g.surface /\ r.bad = g.bad
        /\ r.at = g.at /\ r.mem = g.mem /\ r.handles = g.handles /\ r.vmas = g.vmas
        /\ r.exported = g.exported /\ r.refs = g.refs - 1
    BY DEF GemType
  <2>4. QED BY <1>2, <2>1, <2>2, <2>3 DEF GemType
<1>3. QED BY <1>1, <1>2

LEMMA GemInitInv == GemInit => GemInv
<1> SUFFICES ASSUME GemInit PROVE GemInv
  OBVIOUS
<1> USE GemAssumption
<1>1. gem = [o \in GemObj |-> NoGem] /\ gemLock = [op |-> "none", of |-> GemNone]
        /\ gemSetup \in GemSetups
  BY DEF GemInit
<1>2. GemTypeOK
  BY <1>1, NoGemType DEF GemTypeOK
<1>3. \A o \in GemObj : gemLock.of # o /\ gem[o] = NoGem
  BY <1>1
<1>4. GemShape(NoGem, FALSE) /\ GemKept(NoGem, FALSE)
  BY DEF GemShape, GemKept, GemHeld, One_if, NoGem
<1>5. \A o \in GemObj : GemShape(gem[o], gemLock.of = o) /\ GemKept(gem[o], gemLock.of = o)
  BY <1>3, <1>4, Zenon DEF GemShape, GemKept
<1>6. QED BY <1>1, <1>2, <1>5 DEF GemInv

LEMMA GemStepInv == GemInv /\ [GemNext]_gemVars => GemInv'
<1> SUFFICES ASSUME GemInv, [GemNext]_gemVars
             PROVE  GemInv'
  OBVIOUS
<1>t. /\ gem \in [GemObj -> GemType]
      /\ gemLock \in [op : {"none", "offset", "mmap", "stuck"}, of : GemObj \cup {GemNone}]
      /\ gemSetup \in GemSetups /\ GemNone \notin GemObj
      /\ gemLock.op = "none" <=> gemLock.of = GemNone
  BY GemAssumption DEF GemInv, GemTypeOK
\* A step that changes the buffer o, and perhaps who holds the mutex for it.
<1>a. ASSUME NEW o \in GemObj, NEW r \in GemType, gem' = [gem EXCEPT ![o] = r],
             gemLock' \in [op : {"none", "offset", "mmap", "stuck"}, of : GemObj \cup {GemNone}],
             gemLock'.op = "none" <=> gemLock'.of = GemNone,
             \A p \in GemObj \ {o} : gemLock'.of = p <=> gemLock.of = p,
             gemSetup' = gemSetup, GemShape(r, gemLock'.of = o),
             ~gemSetup.meet => gemLock'.op # "stuck" /\ GemKept(r, gemLock'.of = o)
      PROVE  GemInv'
  <2>1. GemTypeOK'
    BY <1>a, <1>t DEF GemTypeOK
  <2>2. \A p \in GemObj \ {o} : /\ gem'[p] = gem[p]
                               /\ (gemLock'.of = p) = (gemLock.of = p)
    BY <1>a, <1>t
  <2>3. gem'[o] = r
    BY <1>a, <1>t
  <2>4. \A p \in GemObj : GemShape(gem'[p], gemLock'.of = p)
    <3>1. SUFFICES ASSUME NEW p \in GemObj \ {o} PROVE GemShape(gem'[p], gemLock'.of = p)
      BY <1>a, <2>3
    <3>2. GemShape(gem[p], gemLock.of = p)
      BY DEF GemInv
    <3>3. QED BY <2>2, <3>2
  <2>5. ASSUME ~gemSetup.meet
        PROVE  \A p \in GemObj : GemKept(gem'[p], gemLock'.of = p)
    <3>1. SUFFICES ASSUME NEW p \in GemObj \ {o} PROVE GemKept(gem'[p], gemLock'.of = p)
      BY <1>a, <2>3, <2>5
    <3>2. GemKept(gem[p], gemLock.of = p)
      BY <2>5 DEF GemInv
    <3>3. QED BY <2>2, <3>2
  <2>6. QED BY <1>a, <2>1, <2>4, <2>5 DEF GemInv
<1>b. ASSUME NEW o \in GemObj, NEW r \in GemType, gem' = [gem EXCEPT ![o] = r],
             UNCHANGED <<gemLock, gemSetup>>, GemShape(r, gemLock.of = o),
             ~gemSetup.meet => GemKept(r, gemLock.of = o)
      PROVE  GemInv'
  <2>1. ~gemSetup.meet => gemLock.op # "stuck"
    BY DEF GemInv
  <2>2. QED BY <1>a, <1>b, <1>t, <2>1
<1>c. \A o \in GemObj : /\ gem[o] \in GemType /\ GemShape(gem[o], gemLock.of = o)
                        /\ ~gemSetup.meet => GemKept(gem[o], gemLock.of = o)
  BY <1>t DEF GemInv
<1>1. ASSUME NEW o \in GemObj, NEW kind \in {"dumb", "nvkms", "user"}, Back(o, kind)
      PROVE  GemInv'
  <2> DEFINE r == [NoGem EXCEPT !.at = "backed", !.kind = kind, !.mem = TRUE, !.mapped = kind = "dumb"]
  <2>1. gem' = [gem EXCEPT ![o] = r] /\ UNCHANGED <<gemLock, gemSetup>> /\ gem[o] = NoGem
    BY <1>1 DEF Back
  <2>2. /\ r \in GemType /\ r.at = "backed" /\ r.mem /\ r.new = "no" /\ ~r.bad
        /\ r.refs = 0 /\ r.handles = 0 /\ r.vmas = 0 /\ ~r.exported /\ ~r.surface
             /\ r.fb = "none"
    BY DEF NoGem, GemType
  <2>3. gemLock.of # o
    BY <2>1, <1>c DEF GemShape, GemHeld, One_if, NoGem
  <2> HIDE DEF r
  <2>4. GemShape(r, gemLock.of = o) /\ GemKept(r, gemLock.of = o)
    BY <2>2, <2>3 DEF GemShape, GemHeld, GemKept, One_if
  <2>5. QED BY <1>b, <2>1, <2>2, <2>4
<1>2. ASSUME NEW o \in GemObj, nvidia_drm_gem_new(o)
      PROVE  GemInv'
  <2> DEFINE g == gem[o]
             r == [g EXCEPT !.at = "live", !.refs = 2, !.handles = 1, !.new = "unreference"]
  <2>1. g \in GemType /\ g.at = "backed" /\ g.mem /\ GemShape(g, gemLock.of = o)
          /\ UNCHANGED <<gemLock, gemSetup>>
    BY <1>2, <1>c DEF nvidia_drm_gem_new, GemShape
  <2>2. CASE gem' = [gem EXCEPT ![o] = NoGem]
    <3>1. gemLock.of # o
      BY <2>1 DEF GemShape, GemHeld, One_if, GemType
    <3>2. GemShape(NoGem, gemLock.of = o) /\ GemKept(NoGem, gemLock.of = o)
      BY <3>1 DEF GemShape, GemHeld, GemKept, One_if, NoGem
    <3>3. QED BY <1>b, <2>1, <2>2, <3>2, NoGemType
  <2>3. CASE gem' = [gem EXCEPT ![o].at = "live", ![o].refs = 2, ![o].handles = 1, ![o].new = "unreference"]
    <3>1. gem' = [gem EXCEPT ![o] = r]
      BY <2>3, <1>t DEF GemType
    <3>2. /\ r \in GemType /\ r.at = "live" /\ r.refs = 2 /\ r.handles = 1
               /\ r.new = "unreference"
          /\ r.fb = g.fb /\ r.surface = g.surface /\ r.vmas = g.vmas /\ r.exported = g.exported
          /\ r.mem = g.mem /\ r.bad = g.bad
      BY <2>1 DEF GemType
    <3>3. ~gemSetup.meet => GemKept(g, gemLock.of = o)
      BY <1>c
    <3> HIDE DEF g, r
    <3>4. GemShape(r, gemLock.of = o) /\ (~gemSetup.meet => GemKept(r, gemLock.of = o))
      BY <2>1, <3>2, <3>3 DEF GemShape, GemHeld, GemKept, One_if, GemType
    <3>5. QED BY <1>b, <2>1, <3>1, <3>2, <3>4
  <2>4. QED BY <1>2, <2>2, <2>3 DEF nvidia_drm_gem_new
<1>3. ASSUME NEW o \in GemObj, GemNewUnreferences(o)
      PROVE  GemInv'
  <2> DEFINE g == gem[o]
             u == unreference(g)
             r == [u EXCEPT !.new = "write"]
  <2>1. gem' = [gem EXCEPT ![o] = r] /\ UNCHANGED <<gemLock, gemSetup>> /\ g.new = "unreference"
    BY <1>3 DEF GemNewUnreferences
  <2>2. GemShape(g, gemLock.of = o) /\ (~gemSetup.meet => GemKept(g, gemLock.of = o))
          /\ g \in GemType
    BY <1>c
  <2> HIDE DEF g
  <2>3. g.refs > 0 /\ g.mem /\ g.at = "live"
    BY <2>1, <2>2 DEF GemShape, GemHeld, GemType, One_if
  <2>4. /\ u \in GemType
        /\ u.new = g.new /\ u.fb = g.fb /\ u.surface = g.surface /\ u.bad = g.bad
        /\ u.refs = g.refs - 1
        /\ g.refs = 1 => /\ u.at = "none" /\ ~u.mem /\ u.handles = 0 /\ u.vmas = 0
                              /\ ~u.exported
        /\ g.refs > 1 => /\ u.at = "live" /\ u.mem /\ u.handles = g.handles
                         /\ u.vmas = g.vmas /\ u.exported = g.exported
    BY <2>2, <2>3, UnreferenceIs
  <2> HIDE DEF u
  <2>5. /\ r \in GemType /\ r.new = "write" /\ r.at = u.at /\ r.refs = u.refs
        /\ r.handles = u.handles /\ r.fb = u.fb /\ r.surface = u.surface /\ r.vmas = u.vmas
        /\ r.exported = u.exported /\ r.mem = u.mem /\ r.bad = u.bad
    BY <2>4 DEF GemType
  <2> HIDE DEF r
  <2>6. GemShape(r, gemLock.of = o)
    BY <2>1, <2>2, <2>3, <2>4, <2>5 DEF GemShape, GemHeld, GemType, One_if
  <2>7. ~gemSetup.meet => GemKept(r, gemLock.of = o)
    BY <2>1, <2>2, <2>3, <2>4, <2>5 DEF GemShape, GemHeld, GemKept, GemType, One_if
  <2>8. QED BY <1>b, <2>1, <2>5, <2>6, <2>7
<1>4. ASSUME NEW o \in GemObj, GemNewWritesHandle(o)
      PROVE  GemInv'
  <2> DEFINE g == gem[o]
             r == [gem[o] EXCEPT !.new = "no", !.bad = @ \/ gem[o].at # "live"]
  <2>1. gem' = [gem EXCEPT ![o] = r] /\ UNCHANGED <<gemLock, gemSetup>>
    BY <1>4, <1>t DEF GemNewWritesHandle
  <2>2. g.new = "write"
    BY <1>4 DEF GemNewWritesHandle, IsLive
  <2>4. GemShape(g, gemLock.of = o) /\ (~gemSetup.meet => GemKept(g, gemLock.of = o))
          /\ g \in GemType
    BY <1>c
  <2>a. r \in GemType
    BY <2>4 DEF GemType
  <2>b. r.new = ("no") /\ r.bad = (g.bad \/ g.at # "live")
    BY <2>4 DEF GemType
  <2>c. r.at = g.at /\ r.refs = g.refs /\ r.handles = g.handles /\ r.fb = g.fb
          /\ r.surface = g.surface /\ r.vmas = g.vmas /\ r.exported = g.exported
          /\ r.mem = g.mem
    BY <2>4 DEF GemType
  <2>3. r \in GemType /\ (r.new = ("no") /\ r.bad = (g.bad \/ g.at # "live")) /\ r.at = g.at
          /\ r.refs = g.refs /\ r.handles = g.handles /\ r.fb = g.fb /\ r.surface = g.surface
          /\ r.vmas = g.vmas /\ r.exported = g.exported /\ r.mem = g.mem
    BY <2>a, <2>b, <2>c
  <2> HIDE DEF g, r
  <2>d. r.refs = GemHeld(r) + One_if(gemLock.of = o)
    BY <2>2, <2>3, <2>4 DEF GemShape, GemHeld, GemType, One_if
  <2>e. (r.at = "live" <=> r.refs > 0) /\ (r.mem <=> r.at # "none")
          /\ (r.surface => r.fb \in {"up", "going"})
    BY <2>2, <2>3, <2>4 DEF GemShape, GemHeld, GemType, One_if
  <2>f. ~gemSetup.meet => GemKept(r, gemLock.of = o)
    BY <2>2, <2>3, <2>4 DEF GemShape, GemHeld, One_if, GemKept, GemType
  <2>5. GemShape(r, gemLock.of = o) /\ (~gemSetup.meet => GemKept(r, gemLock.of = o))
    BY <2>d, <2>e, <2>f DEF GemShape
  <2>6. QED BY <1>b, <2>1, <2>3, <2>5
<1>5. ASSUME NEW o \in GemObj, GemClose(o)
      PROVE  GemInv'
  <2> DEFINE g == gem[o]
             h == [gem[o] EXCEPT !.handles = @ - 1]
             u == unreference(h)
             r == u
  <2>1. gem' = [gem EXCEPT ![o] = r] /\ UNCHANGED <<gemLock, gemSetup>>
    BY <1>5 DEF GemClose
  <2>2. g.at = "live" /\ g.handles > 0 /\ (gemSetup.meet \/ (g.new = "no" /\ gemLock.of # o))
    BY <1>5 DEF GemClose, IsLive
  <2>3. GemShape(g, gemLock.of = o) /\ (~gemSetup.meet => GemKept(g, gemLock.of = o))
          /\ g \in GemType
    BY <1>c
  <2>4. /\ h \in GemType /\ h.handles = g.handles - 1
        /\ h.at = g.at /\ h.new = g.new /\ h.refs = g.refs /\ h.fb = g.fb
             /\ h.surface = g.surface /\ h.vmas = g.vmas /\ h.exported = g.exported
             /\ h.mem = g.mem /\ h.bad = g.bad
    BY <2>2, <2>3 DEF GemType
  <2> HIDE DEF g, h
  <2>5. h.refs > 0 /\ h.mem /\ h.at = "live"
    BY <2>2, <2>3, <2>4 DEF GemShape, GemHeld, GemType, One_if
  <2>6. /\ u \in GemType
        /\ u.new = h.new /\ u.fb = h.fb /\ u.surface = h.surface /\ u.bad = h.bad
        /\ u.refs = h.refs - 1
        /\ h.refs = 1 => /\ u.at = "none" /\ ~u.mem /\ u.handles = 0 /\ u.vmas = 0
                              /\ ~u.exported
        /\ h.refs > 1 => /\ u.at = "live" /\ u.mem /\ u.handles = h.handles
                         /\ u.vmas = h.vmas /\ u.exported = h.exported
    BY <2>4, <2>5, UnreferenceIs
  <2> HIDE DEF u
  <2>7. r = u
    OBVIOUS
  <2> HIDE DEF r
  <2>a. r.refs = GemHeld(r) + One_if(gemLock.of = o)
    <3>1. CASE h.refs = 1
      BY <3>1, <2>2, <2>3, <2>4, <2>6, <2>7 DEF GemShape, GemHeld, GemType, One_if
    <3>2. CASE h.refs > 1
      BY <3>2, <2>2, <2>3, <2>4, <2>6, <2>7 DEF GemShape, GemHeld, GemType, One_if
    <3>3. QED BY <3>1, <3>2, <2>4, <2>5 DEF GemType
  <2>b. r.at = "live" <=> r.refs > 0
    BY <2>4, <2>5, <2>6, <2>7 DEF GemType
  <2>c. r.mem <=> r.at # "none"
    BY <2>4, <2>5, <2>6, <2>7 DEF GemType
  <2>d. r.surface => r.fb \in {"up", "going"}
    BY <2>2, <2>3, <2>4, <2>5, <2>6, <2>7 DEF GemShape, GemType
  <2>8. GemShape(r, gemLock.of = o)
    BY <2>a, <2>b, <2>c, <2>d DEF GemShape
  <2>9. ~gemSetup.meet => GemKept(r, gemLock.of = o)
    BY <2>2, <2>3, <2>4, <2>5, <2>6, <2>7 DEF GemShape, GemHeld, GemKept, GemType, One_if
  <2>10. QED BY <1>b, <2>1, <2>6, <2>7, <2>8, <2>9
<1>6. ASSUME NEW o \in GemObj, nvidia_drm_vma_open(o)
      PROVE  GemInv'
  <2> DEFINE g == gem[o]
             r == [gem[o] EXCEPT !.vmas = @ + 1, !.refs = @ + 1]
  <2>1. gem' = [gem EXCEPT ![o] = r] /\ UNCHANGED <<gemLock, gemSetup>>
    BY <1>6, <1>t DEF nvidia_drm_vma_open
  <2>2. g.at = "live"
    BY <1>6 DEF nvidia_drm_vma_open, IsLive
  <2>4. GemShape(g, gemLock.of = o) /\ (~gemSetup.meet => GemKept(g, gemLock.of = o))
          /\ g \in GemType
    BY <1>c
  <2>a. r \in GemType
    <3> DEFINE q == [gem[o] EXCEPT !.vmas = @ + 1]
    <3>1. q \in GemType
      BY <2>4 DEF GemType
    <3>2. r = [q EXCEPT !.refs = @ + 1]
      OBVIOUS
    <3> HIDE DEF q, r
    <3>3. QED BY ONLY <3>1, <3>2 DEF GemType
  <2>b. r.vmas = (g.vmas + 1) /\ r.refs = (g.refs + 1)
    BY <2>4 DEF GemType
  <2>c. r.at = g.at /\ r.new = g.new /\ r.handles = g.handles /\ r.fb = g.fb
          /\ r.surface = g.surface /\ r.exported = g.exported /\ r.mem = g.mem /\ r.bad = g.bad
    BY <2>4 DEF GemType
  <2>3. r \in GemType /\ (r.vmas = (g.vmas + 1) /\ r.refs = (g.refs + 1)) /\ r.at = g.at
          /\ r.new = g.new /\ r.handles = g.handles /\ r.fb = g.fb /\ r.surface = g.surface
          /\ r.exported = g.exported /\ r.mem = g.mem /\ r.bad = g.bad
    BY <2>a, <2>b, <2>c
  <2> HIDE DEF g, r
  <2>d. r.refs = GemHeld(r) + One_if(gemLock.of = o)
    BY <2>2, <2>3, <2>4 DEF GemShape, GemHeld, GemType, One_if
  <2>e. (r.at = "live" <=> r.refs > 0) /\ (r.mem <=> r.at # "none")
          /\ (r.surface => r.fb \in {"up", "going"})
    BY <2>2, <2>3, <2>4 DEF GemShape, GemHeld, GemType, One_if
  <2>f. ~gemSetup.meet => GemKept(r, gemLock.of = o)
    BY <2>2, <2>3, <2>4 DEF GemShape, GemHeld, One_if, GemKept, GemType
  <2>5. GemShape(r, gemLock.of = o) /\ (~gemSetup.meet => GemKept(r, gemLock.of = o))
    BY <2>d, <2>e, <2>f DEF GemShape
  <2>6. QED BY <1>b, <2>1, <2>3, <2>5
<1>7. ASSUME NEW o \in GemObj, nvidia_drm_vma_release(o)
      PROVE  GemInv'
  <2> DEFINE g == gem[o]
             h == [gem[o] EXCEPT !.vmas = @ - 1]
             u == unreference(h)
             r == u
  <2>1. gem' = [gem EXCEPT ![o] = r] /\ UNCHANGED <<gemLock, gemSetup>>
    BY <1>7 DEF nvidia_drm_vma_release
  <2>2. g.at = "live" /\ g.vmas > 0
    BY <1>7 DEF nvidia_drm_vma_release, IsLive
  <2>3. GemShape(g, gemLock.of = o) /\ (~gemSetup.meet => GemKept(g, gemLock.of = o))
          /\ g \in GemType
    BY <1>c
  <2>4. /\ h \in GemType /\ h.vmas = g.vmas - 1
        /\ h.at = g.at /\ h.new = g.new /\ h.refs = g.refs /\ h.handles = g.handles
             /\ h.fb = g.fb /\ h.surface = g.surface /\ h.exported = g.exported /\ h.mem = g.mem
             /\ h.bad = g.bad
    BY <2>2, <2>3 DEF GemType
  <2> HIDE DEF g, h
  <2>5. h.refs > 0 /\ h.mem /\ h.at = "live"
    BY <2>2, <2>3, <2>4 DEF GemShape, GemHeld, GemType, One_if
  <2>6. /\ u \in GemType
        /\ u.new = h.new /\ u.fb = h.fb /\ u.surface = h.surface /\ u.bad = h.bad
        /\ u.refs = h.refs - 1
        /\ h.refs = 1 => /\ u.at = "none" /\ ~u.mem /\ u.handles = 0 /\ u.vmas = 0
                              /\ ~u.exported
        /\ h.refs > 1 => /\ u.at = "live" /\ u.mem /\ u.handles = h.handles
                         /\ u.vmas = h.vmas /\ u.exported = h.exported
    BY <2>4, <2>5, UnreferenceIs
  <2> HIDE DEF u
  <2>7. r = u
    OBVIOUS
  <2> HIDE DEF r
  <2>a. r.refs = GemHeld(r) + One_if(gemLock.of = o)
    <3>1. CASE h.refs = 1
      BY <3>1, <2>2, <2>3, <2>4, <2>6, <2>7 DEF GemShape, GemHeld, GemType, One_if
    <3>2. CASE h.refs > 1
      BY <3>2, <2>2, <2>3, <2>4, <2>6, <2>7 DEF GemShape, GemHeld, GemType, One_if
    <3>3. QED BY <3>1, <3>2, <2>4, <2>5 DEF GemType
  <2>b. r.at = "live" <=> r.refs > 0
    BY <2>4, <2>5, <2>6, <2>7 DEF GemType
  <2>c. r.mem <=> r.at # "none"
    BY <2>4, <2>5, <2>6, <2>7 DEF GemType
  <2>d. r.surface => r.fb \in {"up", "going"}
    BY <2>2, <2>3, <2>4, <2>5, <2>6, <2>7 DEF GemShape, GemType
  <2>8. GemShape(r, gemLock.of = o)
    BY <2>a, <2>b, <2>c, <2>d DEF GemShape
  <2>9. ~gemSetup.meet => GemKept(r, gemLock.of = o)
    BY <2>2, <2>3, <2>4, <2>5, <2>6, <2>7 DEF GemShape, GemHeld, GemKept, GemType, One_if
  <2>10. QED BY <1>b, <2>1, <2>6, <2>7, <2>8, <2>9
<1>8. ASSUME NEW o \in GemObj, FramebufferLooksUp(o)
      PROVE  GemInv'
  <2> DEFINE g == gem[o]
             r == [gem[o] EXCEPT !.fb = "making", !.refs = @ + 1]
  <2>1. gem' = [gem EXCEPT ![o] = r] /\ UNCHANGED <<gemLock, gemSetup>>
    BY <1>8, <1>t DEF FramebufferLooksUp
  <2>2. g.at = "live" /\ g.fb = "none"
    BY <1>8 DEF FramebufferLooksUp, IsLive
  <2>4. GemShape(g, gemLock.of = o) /\ (~gemSetup.meet => GemKept(g, gemLock.of = o))
          /\ g \in GemType
    BY <1>c
  <2>a. r \in GemType
    <3> DEFINE q == [gem[o] EXCEPT !.fb = "making"]
    <3>1. q \in GemType
      BY <2>4 DEF GemType
    <3>2. r = [q EXCEPT !.refs = @ + 1]
      OBVIOUS
    <3> HIDE DEF q, r
    <3>3. QED BY ONLY <3>1, <3>2 DEF GemType
  <2>b. r.fb = ("making") /\ r.refs = (g.refs + 1)
    BY <2>4 DEF GemType
  <2>c. r.at = g.at /\ r.new = g.new /\ r.handles = g.handles /\ r.surface = g.surface
          /\ r.vmas = g.vmas /\ r.exported = g.exported /\ r.mem = g.mem /\ r.bad = g.bad
    BY <2>4 DEF GemType
  <2>3. r \in GemType /\ (r.fb = ("making") /\ r.refs = (g.refs + 1)) /\ r.at = g.at
          /\ r.new = g.new /\ r.handles = g.handles /\ r.surface = g.surface /\ r.vmas = g.vmas
          /\ r.exported = g.exported /\ r.mem = g.mem /\ r.bad = g.bad
    BY <2>a, <2>b, <2>c
  <2> HIDE DEF g, r
  <2>d. r.refs = GemHeld(r) + One_if(gemLock.of = o)
    BY <2>2, <2>3, <2>4 DEF GemShape, GemHeld, GemType, One_if
  <2>e. (r.at = "live" <=> r.refs > 0) /\ (r.mem <=> r.at # "none")
          /\ (r.surface => r.fb \in {"up", "going"})
    BY <2>2, <2>3, <2>4 DEF GemShape, GemHeld, GemType, One_if
  <2>f. ~gemSetup.meet => GemKept(r, gemLock.of = o)
    BY <2>2, <2>3, <2>4 DEF GemShape, GemHeld, One_if, GemKept, GemType
  <2>5. GemShape(r, gemLock.of = o) /\ (~gemSetup.meet => GemKept(r, gemLock.of = o))
    BY <2>d, <2>e, <2>f DEF GemShape
  <2>6. QED BY <1>b, <2>1, <2>3, <2>5
<1>9. ASSUME NEW o \in GemObj, FramebufferUp(o), gem[o].fb = "making",
             UNCHANGED <<gemLock, gemSetup>>
      PROVE  GemInv'
  <2> DEFINE g == gem[o]
             r == [gem[o] EXCEPT !.fb = "up", !.surface = TRUE]
  <2>1. gem' = [gem EXCEPT ![o] = r] /\ UNCHANGED <<gemLock, gemSetup>>
    BY <1>9, <1>t DEF FramebufferUp
  <2>2. g.fb = "making"
    BY <1>9 DEF FramebufferUp, IsLive
  <2>4. GemShape(g, gemLock.of = o) /\ (~gemSetup.meet => GemKept(g, gemLock.of = o))
          /\ g \in GemType
    BY <1>c
  <2>a. r \in GemType
    BY <2>4 DEF GemType
  <2>b. r.fb = ("up") /\ r.surface = (TRUE)
    BY <2>4 DEF GemType
  <2>c. r.at = g.at /\ r.new = g.new /\ r.refs = g.refs /\ r.handles = g.handles
          /\ r.vmas = g.vmas /\ r.exported = g.exported /\ r.mem = g.mem /\ r.bad = g.bad
    BY <2>4 DEF GemType
  <2>3. r \in GemType /\ (r.fb = ("up") /\ r.surface = (TRUE)) /\ r.at = g.at /\ r.new = g.new
          /\ r.refs = g.refs /\ r.handles = g.handles /\ r.vmas = g.vmas
          /\ r.exported = g.exported /\ r.mem = g.mem /\ r.bad = g.bad
    BY <2>a, <2>b, <2>c
  <2> HIDE DEF g, r
  <2>d. r.refs = GemHeld(r) + One_if(gemLock.of = o)
    BY <2>2, <2>3, <2>4 DEF GemShape, GemHeld, GemType, One_if
  <2>e. (r.at = "live" <=> r.refs > 0) /\ (r.mem <=> r.at # "none")
          /\ (r.surface => r.fb \in {"up", "going"})
    BY <2>2, <2>3, <2>4 DEF GemShape, GemHeld, GemType, One_if
  <2>f. ~gemSetup.meet => GemKept(r, gemLock.of = o)
    BY <2>2, <2>3, <2>4 DEF GemShape, GemHeld, One_if, GemKept, GemType
  <2>5. GemShape(r, gemLock.of = o) /\ (~gemSetup.meet => GemKept(r, gemLock.of = o))
    BY <2>d, <2>e, <2>f DEF GemShape
  <2>6. QED BY <1>b, <2>1, <2>3, <2>5
<1>10. ASSUME NEW o \in GemObj, gem[o].fb = "making", UNCHANGED <<gemLock, gemSetup>>,
             gem' = [gem EXCEPT ![o] = unreference([gem[o] EXCEPT !.fb = "none"])]
      PROVE  GemInv'
  <2> DEFINE g == gem[o]
             h == [gem[o] EXCEPT !.fb = "none"]
             u == unreference(h)
             r == u
  <2>1. gem' = [gem EXCEPT ![o] = r] /\ UNCHANGED <<gemLock, gemSetup>>
    BY <1>10 DEF internal_framebuffer_create
  <2>2. g.fb = "making"
    BY <1>10 DEF internal_framebuffer_create, IsLive
  <2>3. GemShape(g, gemLock.of = o) /\ (~gemSetup.meet => GemKept(g, gemLock.of = o))
          /\ g \in GemType
    BY <1>c
  <2>4. /\ h \in GemType /\ h.fb = "none"
        /\ h.at = g.at /\ h.new = g.new /\ h.refs = g.refs /\ h.handles = g.handles
             /\ h.surface = g.surface /\ h.vmas = g.vmas /\ h.exported = g.exported
             /\ h.mem = g.mem /\ h.bad = g.bad
    BY <2>2, <2>3 DEF GemType
  <2> HIDE DEF g, h
  <2>5. h.refs > 0 /\ h.mem /\ h.at = "live"
    BY <2>2, <2>3, <2>4 DEF GemShape, GemHeld, GemType, One_if
  <2>6. /\ u \in GemType
        /\ u.new = h.new /\ u.fb = h.fb /\ u.surface = h.surface /\ u.bad = h.bad
        /\ u.refs = h.refs - 1
        /\ h.refs = 1 => /\ u.at = "none" /\ ~u.mem /\ u.handles = 0 /\ u.vmas = 0
                              /\ ~u.exported
        /\ h.refs > 1 => /\ u.at = "live" /\ u.mem /\ u.handles = h.handles
                         /\ u.vmas = h.vmas /\ u.exported = h.exported
    BY <2>4, <2>5, UnreferenceIs
  <2> HIDE DEF u
  <2>7. r = u
    OBVIOUS
  <2> HIDE DEF r
  <2>a. r.refs = GemHeld(r) + One_if(gemLock.of = o)
    <3>1. CASE h.refs = 1
      BY <3>1, <2>2, <2>3, <2>4, <2>6, <2>7 DEF GemShape, GemHeld, GemType, One_if
    <3>2. CASE h.refs > 1
      BY <3>2, <2>2, <2>3, <2>4, <2>6, <2>7 DEF GemShape, GemHeld, GemType, One_if
    <3>3. QED BY <3>1, <3>2, <2>4, <2>5 DEF GemType
  <2>b. r.at = "live" <=> r.refs > 0
    BY <2>4, <2>5, <2>6, <2>7 DEF GemType
  <2>c. r.mem <=> r.at # "none"
    BY <2>4, <2>5, <2>6, <2>7 DEF GemType
  <2>d. r.surface => r.fb \in {"up", "going"}
    BY <2>2, <2>3, <2>4, <2>5, <2>6, <2>7 DEF GemShape, GemType
  <2>8. GemShape(r, gemLock.of = o)
    BY <2>a, <2>b, <2>c, <2>d DEF GemShape
  <2>9. ~gemSetup.meet => GemKept(r, gemLock.of = o)
    BY <2>2, <2>3, <2>4, <2>5, <2>6, <2>7 DEF GemShape, GemHeld, GemKept, GemType, One_if
  <2>10. QED BY <1>b, <2>1, <2>6, <2>7, <2>8, <2>9
<1>11. ASSUME NEW o \in GemObj, nvidia_framebuffer_create_handle(o)
      PROVE  GemInv'
  <2> DEFINE g == gem[o]
             r == [gem[o] EXCEPT !.handles = @ + 1, !.refs = @ + 1]
  <2>1. gem' = [gem EXCEPT ![o] = r] /\ UNCHANGED <<gemLock, gemSetup>>
    BY <1>11, <1>t DEF nvidia_framebuffer_create_handle
  <2>2. g.fb = "up"
    BY <1>11 DEF nvidia_framebuffer_create_handle, IsLive
  <2>4. GemShape(g, gemLock.of = o) /\ (~gemSetup.meet => GemKept(g, gemLock.of = o))
          /\ g \in GemType
    BY <1>c
  <2>a. r \in GemType
    <3> DEFINE q == [gem[o] EXCEPT !.handles = @ + 1]
    <3>1. q \in GemType
      BY <2>4 DEF GemType
    <3>2. r = [q EXCEPT !.refs = @ + 1]
      OBVIOUS
    <3> HIDE DEF q, r
    <3>3. QED BY ONLY <3>1, <3>2 DEF GemType
  <2>b. r.handles = (g.handles + 1) /\ r.refs = (g.refs + 1)
    BY <2>4 DEF GemType
  <2>c. r.at = g.at /\ r.new = g.new /\ r.fb = g.fb /\ r.surface = g.surface /\ r.vmas = g.vmas
          /\ r.exported = g.exported /\ r.mem = g.mem /\ r.bad = g.bad
    BY <2>4 DEF GemType
  <2>3. r \in GemType /\ (r.handles = (g.handles + 1) /\ r.refs = (g.refs + 1)) /\ r.at = g.at
          /\ r.new = g.new /\ r.fb = g.fb /\ r.surface = g.surface /\ r.vmas = g.vmas
          /\ r.exported = g.exported /\ r.mem = g.mem /\ r.bad = g.bad
    BY <2>a, <2>b, <2>c
  <2> HIDE DEF g, r
  <2>d. r.refs = GemHeld(r) + One_if(gemLock.of = o)
    BY <2>2, <2>3, <2>4 DEF GemShape, GemHeld, GemType, One_if
  <2>e. (r.at = "live" <=> r.refs > 0) /\ (r.mem <=> r.at # "none")
          /\ (r.surface => r.fb \in {"up", "going"})
    BY <2>2, <2>3, <2>4 DEF GemShape, GemHeld, GemType, One_if
  <2>f. ~gemSetup.meet => GemKept(r, gemLock.of = o)
    BY <2>2, <2>3, <2>4 DEF GemShape, GemHeld, One_if, GemKept, GemType
  <2>5. GemShape(r, gemLock.of = o) /\ (~gemSetup.meet => GemKept(r, gemLock.of = o))
    BY <2>d, <2>e, <2>f DEF GemShape
  <2>6. QED BY <1>b, <2>1, <2>3, <2>5
<1>12. ASSUME NEW o \in GemObj, nvidia_framebuffer_destroy(o)
      PROVE  GemInv'
  <2> DEFINE g == gem[o]
             h == [gem[o] EXCEPT !.fb = "going"]
             u == unreference(h)
             r == u
  <2>1. gem' = [gem EXCEPT ![o] = r] /\ UNCHANGED <<gemLock, gemSetup>>
    BY <1>12 DEF nvidia_framebuffer_destroy
  <2>2. g.fb = "up"
    BY <1>12 DEF nvidia_framebuffer_destroy, IsLive
  <2>3. GemShape(g, gemLock.of = o) /\ (~gemSetup.meet => GemKept(g, gemLock.of = o))
          /\ g \in GemType
    BY <1>c
  <2>4. /\ h \in GemType /\ h.fb = "going"
        /\ h.at = g.at /\ h.new = g.new /\ h.refs = g.refs /\ h.handles = g.handles
             /\ h.surface = g.surface /\ h.vmas = g.vmas /\ h.exported = g.exported
             /\ h.mem = g.mem /\ h.bad = g.bad
    BY <2>2, <2>3 DEF GemType
  <2> HIDE DEF g, h
  <2>5. h.refs > 0 /\ h.mem /\ h.at = "live"
    BY <2>2, <2>3, <2>4 DEF GemShape, GemHeld, GemType, One_if
  <2>6. /\ u \in GemType
        /\ u.new = h.new /\ u.fb = h.fb /\ u.surface = h.surface /\ u.bad = h.bad
        /\ u.refs = h.refs - 1
        /\ h.refs = 1 => /\ u.at = "none" /\ ~u.mem /\ u.handles = 0 /\ u.vmas = 0
                              /\ ~u.exported
        /\ h.refs > 1 => /\ u.at = "live" /\ u.mem /\ u.handles = h.handles
                         /\ u.vmas = h.vmas /\ u.exported = h.exported
    BY <2>4, <2>5, UnreferenceIs
  <2> HIDE DEF u
  <2>7. r = u
    OBVIOUS
  <2> HIDE DEF r
  <2>a. r.refs = GemHeld(r) + One_if(gemLock.of = o)
    <3>1. CASE h.refs = 1
      BY <3>1, <2>2, <2>3, <2>4, <2>6, <2>7 DEF GemShape, GemHeld, GemType, One_if
    <3>2. CASE h.refs > 1
      BY <3>2, <2>2, <2>3, <2>4, <2>6, <2>7 DEF GemShape, GemHeld, GemType, One_if
    <3>3. QED BY <3>1, <3>2, <2>4, <2>5 DEF GemType
  <2>b. r.at = "live" <=> r.refs > 0
    BY <2>4, <2>5, <2>6, <2>7 DEF GemType
  <2>c. r.mem <=> r.at # "none"
    BY <2>4, <2>5, <2>6, <2>7 DEF GemType
  <2>d. r.surface => r.fb \in {"up", "going"}
    BY <2>2, <2>3, <2>4, <2>5, <2>6, <2>7 DEF GemShape, GemType
  <2>8. GemShape(r, gemLock.of = o)
    BY <2>a, <2>b, <2>c, <2>d DEF GemShape
  <2>9. ~gemSetup.meet => GemKept(r, gemLock.of = o)
    BY <2>2, <2>3, <2>4, <2>5, <2>6, <2>7 DEF GemShape, GemHeld, GemKept, GemType, One_if
  <2>10. QED BY <1>b, <2>1, <2>6, <2>7, <2>8, <2>9
<1>13. ASSUME NEW o \in GemObj, destroySurface(o)
      PROVE  GemInv'
  <2> DEFINE g == gem[o]
             r == [gem[o] EXCEPT !.fb = "none", !.surface = FALSE]
  <2>1. gem' = [gem EXCEPT ![o] = r] /\ UNCHANGED <<gemLock, gemSetup>>
    BY <1>13, <1>t DEF destroySurface
  <2>2. g.fb = "going"
    BY <1>13 DEF destroySurface, IsLive
  <2>4. GemShape(g, gemLock.of = o) /\ (~gemSetup.meet => GemKept(g, gemLock.of = o))
          /\ g \in GemType
    BY <1>c
  <2>a. r \in GemType
    BY <2>4 DEF GemType
  <2>b. r.fb = ("none") /\ r.surface = (FALSE)
    BY <2>4 DEF GemType
  <2>c. r.at = g.at /\ r.new = g.new /\ r.refs = g.refs /\ r.handles = g.handles
          /\ r.vmas = g.vmas /\ r.exported = g.exported /\ r.mem = g.mem /\ r.bad = g.bad
    BY <2>4 DEF GemType
  <2>3. r \in GemType /\ (r.fb = ("none") /\ r.surface = (FALSE)) /\ r.at = g.at
          /\ r.new = g.new /\ r.refs = g.refs /\ r.handles = g.handles /\ r.vmas = g.vmas
          /\ r.exported = g.exported /\ r.mem = g.mem /\ r.bad = g.bad
    BY <2>a, <2>b, <2>c
  <2> HIDE DEF g, r
  <2>d. r.refs = GemHeld(r) + One_if(gemLock.of = o)
    BY <2>2, <2>3, <2>4 DEF GemShape, GemHeld, GemType, One_if
  <2>e. (r.at = "live" <=> r.refs > 0) /\ (r.mem <=> r.at # "none")
          /\ (r.surface => r.fb \in {"up", "going"})
    BY <2>2, <2>3, <2>4 DEF GemShape, GemHeld, GemType, One_if
  <2>f. ~gemSetup.meet => GemKept(r, gemLock.of = o)
    BY <2>2, <2>3, <2>4 DEF GemShape, GemHeld, One_if, GemKept, GemType
  <2>5. GemShape(r, gemLock.of = o) /\ (~gemSetup.meet => GemKept(r, gemLock.of = o))
    BY <2>d, <2>e, <2>f DEF GemShape
  <2>6. QED BY <1>b, <2>1, <2>3, <2>5
<1>14. ASSUME NEW o \in GemObj, nvidia_drm_gem_prime_export(o)
      PROVE  GemInv'
  <2> DEFINE g == gem[o]
             r == [gem[o] EXCEPT !.exported = TRUE, !.refs = @ + 1]
  <2>1. gem' = [gem EXCEPT ![o] = r] /\ UNCHANGED <<gemLock, gemSetup>>
    BY <1>14, <1>t DEF nvidia_drm_gem_prime_export
  <2>2. g.at = "live" /\ ~g.exported
    BY <1>14 DEF nvidia_drm_gem_prime_export, IsLive
  <2>4. GemShape(g, gemLock.of = o) /\ (~gemSetup.meet => GemKept(g, gemLock.of = o))
          /\ g \in GemType
    BY <1>c
  <2>a. r \in GemType
    <3> DEFINE q == [gem[o] EXCEPT !.exported = TRUE]
    <3>1. q \in GemType
      BY <2>4 DEF GemType
    <3>2. r = [q EXCEPT !.refs = @ + 1]
      OBVIOUS
    <3> HIDE DEF q, r
    <3>3. QED BY ONLY <3>1, <3>2 DEF GemType
  <2>b. r.exported = (TRUE) /\ r.refs = (g.refs + 1)
    BY <2>4 DEF GemType
  <2>c. r.at = g.at /\ r.new = g.new /\ r.handles = g.handles /\ r.fb = g.fb
          /\ r.surface = g.surface /\ r.vmas = g.vmas /\ r.mem = g.mem /\ r.bad = g.bad
    BY <2>4 DEF GemType
  <2>3. r \in GemType /\ (r.exported = (TRUE) /\ r.refs = (g.refs + 1)) /\ r.at = g.at
          /\ r.new = g.new /\ r.handles = g.handles /\ r.fb = g.fb /\ r.surface = g.surface
          /\ r.vmas = g.vmas /\ r.mem = g.mem /\ r.bad = g.bad
    BY <2>a, <2>b, <2>c
  <2> HIDE DEF g, r
  <2>d. r.refs = GemHeld(r) + One_if(gemLock.of = o)
    BY <2>2, <2>3, <2>4 DEF GemShape, GemHeld, GemType, One_if
  <2>e. (r.at = "live" <=> r.refs > 0) /\ (r.mem <=> r.at # "none")
          /\ (r.surface => r.fb \in {"up", "going"})
    BY <2>2, <2>3, <2>4 DEF GemShape, GemHeld, GemType, One_if
  <2>f. ~gemSetup.meet => GemKept(r, gemLock.of = o)
    BY <2>2, <2>3, <2>4 DEF GemShape, GemHeld, One_if, GemKept, GemType
  <2>5. GemShape(r, gemLock.of = o) /\ (~gemSetup.meet => GemKept(r, gemLock.of = o))
    BY <2>d, <2>e, <2>f DEF GemShape
  <2>6. QED BY <1>b, <2>1, <2>3, <2>5
<1>15. ASSUME NEW o \in GemObj, DmaBufReleased(o)
      PROVE  GemInv'
  <2> DEFINE g == gem[o]
             h == [gem[o] EXCEPT !.exported = FALSE]
             u == unreference(h)
             r == u
  <2>1. gem' = [gem EXCEPT ![o] = r] /\ UNCHANGED <<gemLock, gemSetup>>
    BY <1>15 DEF DmaBufReleased
  <2>2. g.at = "live" /\ g.exported
    BY <1>15 DEF DmaBufReleased, IsLive
  <2>3. GemShape(g, gemLock.of = o) /\ (~gemSetup.meet => GemKept(g, gemLock.of = o))
          /\ g \in GemType
    BY <1>c
  <2>4. /\ h \in GemType /\ h.exported = FALSE
        /\ h.at = g.at /\ h.new = g.new /\ h.refs = g.refs /\ h.handles = g.handles
             /\ h.fb = g.fb /\ h.surface = g.surface /\ h.vmas = g.vmas /\ h.mem = g.mem
             /\ h.bad = g.bad
    BY <2>2, <2>3 DEF GemType
  <2> HIDE DEF g, h
  <2>5. h.refs > 0 /\ h.mem /\ h.at = "live"
    BY <2>2, <2>3, <2>4 DEF GemShape, GemHeld, GemType, One_if
  <2>6. /\ u \in GemType
        /\ u.new = h.new /\ u.fb = h.fb /\ u.surface = h.surface /\ u.bad = h.bad
        /\ u.refs = h.refs - 1
        /\ h.refs = 1 => /\ u.at = "none" /\ ~u.mem /\ u.handles = 0 /\ u.vmas = 0
                              /\ ~u.exported
        /\ h.refs > 1 => /\ u.at = "live" /\ u.mem /\ u.handles = h.handles
                         /\ u.vmas = h.vmas /\ u.exported = h.exported
    BY <2>4, <2>5, UnreferenceIs
  <2> HIDE DEF u
  <2>7. r = u
    OBVIOUS
  <2> HIDE DEF r
  <2>a. r.refs = GemHeld(r) + One_if(gemLock.of = o)
    <3>1. CASE h.refs = 1
      BY <3>1, <2>2, <2>3, <2>4, <2>6, <2>7 DEF GemShape, GemHeld, GemType, One_if
    <3>2. CASE h.refs > 1
      BY <3>2, <2>2, <2>3, <2>4, <2>6, <2>7 DEF GemShape, GemHeld, GemType, One_if
    <3>3. QED BY <3>1, <3>2, <2>4, <2>5 DEF GemType
  <2>b. r.at = "live" <=> r.refs > 0
    BY <2>4, <2>5, <2>6, <2>7 DEF GemType
  <2>c. r.mem <=> r.at # "none"
    BY <2>4, <2>5, <2>6, <2>7 DEF GemType
  <2>d. r.surface => r.fb \in {"up", "going"}
    BY <2>2, <2>3, <2>4, <2>5, <2>6, <2>7 DEF GemShape, GemType
  <2>8. GemShape(r, gemLock.of = o)
    BY <2>a, <2>b, <2>c, <2>d DEF GemShape
  <2>9. ~gemSetup.meet => GemKept(r, gemLock.of = o)
    BY <2>2, <2>3, <2>4, <2>5, <2>6, <2>7 DEF GemShape, GemHeld, GemKept, GemType, One_if
  <2>10. QED BY <1>b, <2>1, <2>6, <2>7, <2>8, <2>9
<1>16. ASSUME NEW o \in GemObj, nvidia_drm_dumb_map_offset(o)
      PROVE  GemInv'
  <2> DEFINE g == gem[o]
             r == [gem[o] EXCEPT !.refs = @ + 1]
  <2>1. /\ gem' = [gem EXCEPT ![o] = r] /\ gemSetup' = gemSetup
        /\ gemLock' = [op |-> "offset", of |-> o] /\ gemLock.op = "none"
        /\ g.at = "live" /\ g.handles > 0
    BY <1>16, <1>t DEF nvidia_drm_dumb_map_offset, IsLive, GemUnlocked
  <2>2. GemShape(g, FALSE) /\ (~gemSetup.meet => GemKept(g, FALSE)) /\ g \in GemType
    <3>1. (gemLock.of = o) = FALSE
      BY <1>t, <2>1
    <3>2. /\ GemShape(gem[o], gemLock.of = o) /\ gem[o] \in GemType
          /\ ~gemSetup.meet => GemKept(gem[o], gemLock.of = o)
      BY <1>c
    <3>3. QED BY <3>1, <3>2
  <2>3. /\ r \in GemType /\ r.refs = g.refs + 1
        /\ r.at = g.at /\ r.new = g.new /\ r.handles = g.handles /\ r.fb = g.fb
             /\ r.surface = g.surface
        /\ r.vmas = g.vmas /\ r.exported = g.exported /\ r.mem = g.mem /\ r.bad = g.bad
    BY <2>2 DEF GemType
  <2> HIDE DEF g, r
  <2>4. GemShape(r, TRUE) /\ (~gemSetup.meet => GemKept(r, TRUE))
    BY <2>1, <2>2, <2>3 DEF GemShape, GemHeld, GemKept, GemType, One_if
  <2>5. gemLock'.of = o /\ gemLock'.op = "offset"
          /\ gemLock' \in [op : {"none", "offset", "mmap", "stuck"}, of : GemObj \cup {GemNone}]
    BY <2>1
  <2>6. \A p \in GemObj \ {o} : gemLock'.of = p <=> gemLock.of = p
    BY <2>1, <2>5, <1>t
  <2>7. GemShape(r, gemLock'.of = o) /\ (~gemSetup.meet => GemKept(r, gemLock'.of = o))
    BY <2>4, <2>5 DEF GemShape, GemKept
  <2>8. gemLock'.op = "none" <=> gemLock'.of = GemNone
    BY <2>5, <1>t
  <2>9. QED BY <1>a, <2>1, <2>3, <2>5, <2>6, <2>7, <2>8
<1>17. ASSUME NEW o \in GemObj, nvidia_drm_gem_mmap(o)
      PROVE  GemInv'
  <2> DEFINE g == gem[o]
             r == [gem[o] EXCEPT !.refs = @ + 1]
  <2>1. /\ gem' = [gem EXCEPT ![o] = r] /\ gemSetup' = gemSetup
        /\ gemLock' = [op |-> "mmap", of |-> o] /\ gemLock.op = "none"
        /\ g.at = "live" /\ g.handles > 0
    BY <1>17, <1>t DEF nvidia_drm_gem_mmap, IsLive, GemUnlocked
  <2>2. GemShape(g, FALSE) /\ (~gemSetup.meet => GemKept(g, FALSE)) /\ g \in GemType
    <3>1. (gemLock.of = o) = FALSE
      BY <1>t, <2>1
    <3>2. /\ GemShape(gem[o], gemLock.of = o) /\ gem[o] \in GemType
          /\ ~gemSetup.meet => GemKept(gem[o], gemLock.of = o)
      BY <1>c
    <3>3. QED BY <3>1, <3>2
  <2>3. /\ r \in GemType /\ r.refs = g.refs + 1
        /\ r.at = g.at /\ r.new = g.new /\ r.handles = g.handles /\ r.fb = g.fb
             /\ r.surface = g.surface
        /\ r.vmas = g.vmas /\ r.exported = g.exported /\ r.mem = g.mem /\ r.bad = g.bad
    BY <2>2 DEF GemType
  <2> HIDE DEF g, r
  <2>4. GemShape(r, TRUE) /\ (~gemSetup.meet => GemKept(r, TRUE))
    BY <2>1, <2>2, <2>3 DEF GemShape, GemHeld, GemKept, GemType, One_if
  <2>5. gemLock'.of = o /\ gemLock'.op = "mmap"
          /\ gemLock' \in [op : {"none", "offset", "mmap", "stuck"}, of : GemObj \cup {GemNone}]
    BY <2>1
  <2>6. \A p \in GemObj \ {o} : gemLock'.of = p <=> gemLock.of = p
    BY <2>1, <2>5, <1>t
  <2>7. GemShape(r, gemLock'.of = o) /\ (~gemSetup.meet => GemKept(r, gemLock'.of = o))
    BY <2>4, <2>5 DEF GemShape, GemKept
  <2>8. gemLock'.op = "none" <=> gemLock'.of = GemNone
    BY <2>5, <1>t
  <2>9. QED BY <1>a, <2>1, <2>3, <2>5, <2>6, <2>7, <2>8
<1>d. ASSUME NEW o \in GemObj, o = gemLock.of, gemLock.op \in {"mmap", "offset"},
             NEW r \in GemType,
             gem' = [gem EXCEPT ![o] = r], gemLock' = [op |-> "none", of |-> GemNone],
             gemSetup' = gemSetup, GemShape(r, FALSE), ~gemSetup.meet => GemKept(r, FALSE)
      PROVE  GemInv'
  <2>1. gemLock'.op = "none" /\ gemLock'.of = GemNone
          /\ gemLock' \in [op : {"none", "offset", "mmap", "stuck"}, of : GemObj \cup {GemNone}]
    BY <1>d
  <2>2. GemShape(r, gemLock'.of = o)
          /\ (~gemSetup.meet => gemLock'.op # "stuck" /\ GemKept(r, gemLock'.of = o))
    BY <1>d, <1>t, <2>1 DEF GemShape, GemKept
  <2>3. \A p \in GemObj \ {o} : gemLock'.of = p <=> gemLock.of = p
    BY <1>d, <1>t, <2>1
  <2>4. QED BY <1>a, <1>d, <2>1, <2>2, <2>3
<1>18. ASSUME NEW o \in GemObj, o = gemLock.of, GemMapped
      PROVE  GemInv'
  <2> DEFINE g == gem[o]
             r == [gem[o] EXCEPT !.vmas = @ + 1]
  <2>1. gem' = [gem EXCEPT ![o] = r] /\ gemLock' = [op |-> "none", of |-> GemNone]
          /\ gemSetup' = gemSetup /\ gemLock.op \in {"mmap", "offset"}
    BY <1>18, <1>t DEF GemMapped
  <2>2. GemShape(g, TRUE) /\ (~gemSetup.meet => GemKept(g, TRUE)) /\ g \in GemType
    BY <1>18, <1>c DEF GemShape, GemKept
  <2>p. g.refs > 0
    BY <2>2 DEF GemShape, GemHeld, GemType, One_if
  <2>a. r \in GemType
    BY <2>p, <2>2 DEF GemType
  <2>b. r.vmas = (g.vmas + 1)
    BY <2>2 DEF GemType
  <2>c. r.at = g.at /\ r.new = g.new /\ r.refs = g.refs /\ r.handles = g.handles /\ r.fb = g.fb
          /\ r.surface = g.surface /\ r.exported = g.exported /\ r.mem = g.mem /\ r.bad = g.bad
    BY <2>2 DEF GemType
  <2>3. r \in GemType /\ r.vmas = (g.vmas + 1) /\ r.at = g.at /\ r.new = g.new
          /\ r.refs = g.refs /\ r.handles = g.handles /\ r.fb = g.fb /\ r.surface = g.surface
          /\ r.exported = g.exported /\ r.mem = g.mem /\ r.bad = g.bad
    BY <2>a, <2>b, <2>c
  <2> HIDE DEF g, r
  <2>5. GemShape(r, FALSE) /\ (~gemSetup.meet => GemKept(r, FALSE))
    BY <2>2, <2>3 DEF GemShape, GemHeld, GemKept, GemType, One_if
  <2>6. QED BY <1>18, <1>d, <2>1, <2>3, <2>5
<1>19. ASSUME NEW o \in GemObj, o = gemLock.of, UnreferenceLocked, gem[o].refs # 1
      PROVE  GemInv'
  <2> DEFINE g == gem[o]
             r == [gem[o] EXCEPT !.refs = @ - 1]
  <2>1. gem' = [gem EXCEPT ![o] = r] /\ gemLock' = [op |-> "none", of |-> GemNone]
          /\ gemSetup' = gemSetup /\ gemLock.op \in {"mmap", "offset"}
    BY <1>19, <1>t DEF UnreferenceLocked
  <2>2. GemShape(g, TRUE) /\ (~gemSetup.meet => GemKept(g, TRUE)) /\ g \in GemType
    BY <1>19, <1>c DEF GemShape, GemKept
  <2>p. g.refs > 0
    BY <2>2 DEF GemShape, GemHeld, GemType, One_if
  <2>a. r \in GemType
    BY <2>p, <2>2 DEF GemType
  <2>b. r.refs = (g.refs - 1)
    BY <2>2 DEF GemType
  <2>c. r.at = g.at /\ r.new = g.new /\ r.handles = g.handles /\ r.fb = g.fb
          /\ r.surface = g.surface /\ r.vmas = g.vmas /\ r.exported = g.exported
          /\ r.mem = g.mem /\ r.bad = g.bad
    BY <2>2 DEF GemType
  <2>3. r \in GemType /\ r.refs = (g.refs - 1) /\ r.at = g.at /\ r.new = g.new
          /\ r.handles = g.handles /\ r.fb = g.fb /\ r.surface = g.surface /\ r.vmas = g.vmas
          /\ r.exported = g.exported /\ r.mem = g.mem /\ r.bad = g.bad
    BY <2>a, <2>b, <2>c
  <2>4. g.refs # 1
    BY <1>19
  <2> HIDE DEF g, r
  <2>5. GemShape(r, FALSE) /\ (~gemSetup.meet => GemKept(r, FALSE))
    BY <2>2, <2>3, <2>4 DEF GemShape, GemHeld, GemKept, GemType, One_if
  <2>6. QED BY <1>19, <1>d, <2>1, <2>3, <2>5
<1>20. ASSUME NEW o \in GemObj, o = gemLock.of, UnreferenceLocked, gem[o].refs = 1
      PROVE  GemInv'
  <2>1. /\ gemLock' = [gemLock EXCEPT !.op = "stuck"] /\ UNCHANGED <<gem, gemSetup>>
        /\ gemLock.op \in {"offset", "mmap"}
    BY <1>20 DEF UnreferenceLocked
  <2>2. gem' = [gem EXCEPT ![o] = gem[o]] /\ gemLock'.op = "stuck" /\ gemLock'.of = o
          /\ gemLock' \in [op : {"none", "offset", "mmap", "stuck"}, of : GemObj \cup {GemNone}]
    BY <1>20, <1>t, <2>1
  <2>3. gemSetup.meet
    <3>1. gem[o] \in GemType /\ GemShape(gem[o], TRUE)
            /\ (~gemSetup.meet => GemKept(gem[o], TRUE))
      BY <1>20, <1>c DEF GemShape, GemKept
    <3>2. gem[o].handles = 0
      BY <1>20, <3>1 DEF GemShape, GemHeld, GemType, One_if
    <3>3. QED BY <3>1, <3>2 DEF GemKept
  <2>4. GemShape(gem[o], gemLock'.of = o)
    BY <1>20, <1>c, <2>2 DEF GemShape
  <2>5. \A p \in GemObj \ {o} : gemLock'.of = p <=> gemLock.of = p
    BY <1>20, <2>2
  <2>6. gemLock'.op = "none" <=> gemLock'.of = GemNone
    BY <2>2, <1>t
  <2>7. gem[o] \in GemType /\ gemSetup' = gemSetup
    BY <1>c, <2>1
  <2>8. ~gemSetup.meet => gemLock'.op # "stuck" /\ GemKept(gem[o], gemLock'.of = o)
    BY <2>3
  <2>9. QED BY <1>a, <2>2, <2>4, <2>5, <2>6, <2>7, <2>8, Zenon
<1>21. ASSUME GemMapped \/ UnreferenceLocked
      PROVE  GemInv'
  <2>1. gemLock.of \in GemObj
    BY <1>21, <1>t DEF GemMapped, UnreferenceLocked
  <2>2. QED BY <1>21, <1>18, <1>19, <1>20, <2>1
<1>22. ASSUME NEW o \in GemObj, internal_framebuffer_create(o)
      PROVE  GemInv'
  BY <1>22, <1>9, <1>10 DEF internal_framebuffer_create
<1>23. ASSUME NEW o \in GemObj,
             nvidia_drm_dumb_create(o) \/ nvidia_drm_gem_import_nvkms_memory(o)
             \/ nvidia_drm_gem_import_userspace_memory(o)
      PROVE  GemInv'
  BY <1>23, <1>1 DEF nvidia_drm_dumb_create, nvidia_drm_gem_import_nvkms_memory,
     nvidia_drm_gem_import_userspace_memory
<1>24. CASE UNCHANGED gemVars
  BY <1>24 DEF gemVars, GemInv, GemTypeOK
<1> HIDE DEF GemInv
<1>25. QED
  BY <1>1, <1>2, <1>3, <1>4, <1>5, <1>6, <1>7, <1>8, <1>9, <1>10, <1>11, <1>12, <1>13, <1>14,
     <1>15, <1>16, <1>17, <1>18, <1>19, <1>20, <1>21, <1>22, <1>23, <1>24
  DEF GemNext

(***************************************************************************)
(* For any number of buffers, handles and mappings: a buffer of            *)
(* nvidia-drm.ko lives exactly as long as it is referred to, its memory as *)
(* long as it, and unless a handle is closed under another thread's feet   *)
(* nobody touches a freed buffer or waits for a mutex of its own.          *)
(***************************************************************************)
THEOREM BuffersLiveAsReferred == GemSpec => []GemExact
<1>1. GemInv => GemExact
  BY DEF GemInv, GemExact, GemShape, GemHeld, GemKept, IsLive
<1>2. QED BY <1>1, GemInitInv, GemStepInv, PTL DEF GemSpec


(***************************************************************************)
(* nvidia-modeset.ko.                                                      *)
(***************************************************************************)
KmsTimerType ==
    [mem : {"unused", "live", "freed"},
     at : {"none", "armed", "queued", "del_timer", "lock", "proc", "end"},
     listed : BOOLEAN, cb : BOOLEAN, created : BOOLEAN, ref : BOOLEAN, cancel : BOOLEAN,
     complete : BOOLEAN, handle : BOOLEAN]
KmsOpenType ==
    [mem : {"unused", "live", "freed"}, type : {"user", "kernel"}, data : BOOLEAN,
     queued : BOOLEAN, running : BOOLEAN, available : BOOLEAN, closing : BOOLEAN]
KmsRefType == [count : Nat, ptr : BOOLEAN, owned : BOOLEAN, used : BOOLEAN]
KmsStateType ==
    [phase : {"unloaded", "live", "draining", "flushing"}, lock : KmsTimer \cup {KmsNone},
     callbacks : BOOLEAN, flush : SUBSET (KmsTimer \cup KmsOpen), asked : Nat, held : Nat]

KmsTypeOK ==
    /\ kmsTimer \in [KmsTimer -> KmsTimerType]
    /\ kmsRef \in KmsRefType
    /\ kmsOpen \in [KmsOpen -> KmsOpenType]
    /\ kms \in KmsStateType
    /\ kmsSetup \in KmsSetups

\* Where a timer is decides who will free it.
KmsTimerShape(r) ==
    /\ r.mem # "live" => r.at = "none" /\ ~r.cb /\ ~r.handle
    /\ r.mem = "live" => /\ r.at # "none" \/ (r.complete /\ r.handle)
                         /\ r.ref \/ r.handle \/ r.cancel
    /\ r.listed <=> r.at \in {"armed", "queued"}
    /\ r.cb => r.at \in {"queued", "del_timer"}
    /\ r.cb \/ r.at = "armed" => r.created
    /\ r.complete => r.at \in {"none", "end"}
    /\ r.at = "end" => r.complete \/ r.cancel
    /\ r.handle => ~r.cancel /\ ~r.ref

KmsOpenShape(r) ==
    /\ r.mem = "live" <=> r.data \/ r.closing
    /\ ~(r.data /\ r.closing)
    /\ r.queued \/ r.running => r.mem = "live" /\ r.type = "kernel"

\* The timers that keep a reference to the pointer.
Pending(timer) ==
    {t \in KmsTimer : timer[t].ref /\ timer[t].at \in {"armed", "queued", "del_timer", "lock"}}

KmsRefShape ==
    /\ IsFiniteSet(Pending(kmsTimer))
    /\ kmsRef.count = One_if(kmsRef.owned) + Cardinality(Pending(kmsTimer))
    /\ ~kmsRef.used => kmsRef.count = 0

\* nvKmsModuleUnload gives up what the core has, and nvkms_exit what is left.
KmsPhaseShape ==
    /\ kms.phase # "live" => /\ ~kmsRef.owned /\ kms.asked = 0
                             /\ \A t \in KmsTimer : ~kmsTimer[t].handle
    /\ kms.phase = "flushing" =>
         \A t \in KmsTimer : kmsTimer[t].mem = "live" => t \in kms.flush
    /\ kms.phase = "unloaded" =>
         /\ \A t \in KmsTimer : kmsTimer[t].mem # "live"
         /\ kmsSetup.unregistered \/ ~kms.callbacks
    /\ kms.held >= kms.asked
    /\ kmsSetup.fails \/ kms.held = kms.asked

KmsInv ==
    /\ KmsTypeOK
    /\ \A t \in KmsTimer : /\ KmsTimerShape(kmsTimer[t])
                           /\ kms.lock = t <=> kmsTimer[t].at \in {"proc", "end"}
    /\ \A o \in KmsOpen : KmsOpenShape(kmsOpen[o])
    /\ KmsRefShape
    /\ KmsPhaseShape

LEMMA KmsInitInv == KmsInit => KmsInv
<1> SUFFICES ASSUME KmsInit PROVE KmsInv
  OBVIOUS
<1>1. /\ kmsTimer = [t \in KmsTimer |-> NoTimer] /\ kmsRef = NoRef
      /\ kmsOpen = [o \in KmsOpen |-> NoOpen] /\ kmsSetup \in KmsSetups
      /\ kms = [phase |-> "unloaded", lock |-> KmsNone, callbacks |-> FALSE, flush |-> {},
                asked |-> 0, held |-> 0]
      /\ KmsNone \notin KmsTimer
  BY KmsAssumption DEF KmsInit
<1>2. NoTimer \in KmsTimerType /\ KmsTimerShape(NoTimer)
  BY DEF NoTimer, KmsTimerType, KmsTimerShape
<1>3. NoOpen \in KmsOpenType /\ KmsOpenShape(NoOpen)
  BY DEF NoOpen, KmsOpenType, KmsOpenShape
<1>4. KmsTypeOK
  BY <1>1, <1>2, <1>3 DEF KmsTypeOK, NoRef, KmsRefType, KmsStateType
<1>5. \A t \in KmsTimer : KmsTimerShape(kmsTimer[t])
        /\ (kms.lock = t <=> kmsTimer[t].at \in {"proc", "end"})
  BY <1>1, <1>2 DEF NoTimer
<1>6. \A o \in KmsOpen : KmsOpenShape(kmsOpen[o])
  BY <1>1, <1>3
<1>7. Pending(kmsTimer) = {}
  BY <1>1 DEF Pending, NoTimer
<1>8. KmsRefShape
  BY <1>1, <1>7, FS_EmptySet DEF KmsRefShape, NoRef, One_if
<1>9. KmsPhaseShape
  BY <1>1 DEF KmsPhaseShape, NoRef, NoTimer
<1>10. QED BY <1>4, <1>5, <1>6, <1>8, <1>9 DEF KmsInv

\* Giving up a timer that no worker is about to finish.
LEMMA ReleasedIs ==
    ASSUME NEW q \in KmsTimerType, KmsTimerShape(q), q.handle, q.at # "end",
           NEW r, r = [q EXCEPT !.handle = FALSE,
                                !.mem = IF q.complete THEN Freed(@) ELSE @,
                                !.cancel = IF q.complete THEN @ ELSE TRUE]
    PROVE  /\ r \in KmsTimerType /\ KmsTimerShape(r)
           /\ ~r.handle /\ r.at = q.at /\ r.ref = q.ref /\ (r.mem = "live" => q.mem = "live")
<1>1. q.mem = "live" /\ ~q.cancel /\ ~q.ref
  BY DEF KmsTimerShape, KmsTimerType
<1>2. CASE q.complete
  <2>1. r = [q EXCEPT !.handle = FALSE, !.mem = "freed", !.cancel = q.cancel]
    BY <1>1, <1>2 DEF Freed
  <2>2. r \in KmsTimerType
    BY <2>1 DEF KmsTimerType
  <2>3. ~r.handle /\ r.mem = "freed" /\ r.cancel = q.cancel
    BY <2>1 DEF KmsTimerType
  <2>4. /\ r.at = q.at /\ r.listed = q.listed /\ r.cb = q.cb /\ r.created = q.created
        /\ r.ref = q.ref /\ r.complete = q.complete
    BY <2>1 DEF KmsTimerType
  <2>5. QED BY <1>2, <2>2, <2>3, <2>4 DEF KmsTimerShape, KmsTimerType
<1>3. CASE ~q.complete
  <2>1. r = [q EXCEPT !.handle = FALSE, !.mem = q.mem, !.cancel = TRUE]
    BY <1>3
  <2>2. r \in KmsTimerType
    BY <2>1 DEF KmsTimerType
  <2>3. ~r.handle /\ r.mem = q.mem /\ r.cancel
    BY <2>1 DEF KmsTimerType
  <2>4. /\ r.at = q.at /\ r.listed = q.listed /\ r.cb = q.cb /\ r.created = q.created
        /\ r.ref = q.ref /\ r.complete = q.complete
    BY <2>1 DEF KmsTimerType
  <2>5. QED BY <1>1, <1>3, <2>2, <2>3, <2>4 DEF KmsTimerShape, KmsTimerType
<1>4. QED BY <1>2, <1>3

\* What every step keeps of the timers; only a live core adds any.
KmsTimersKept ==
    /\ kmsTimer' \in [KmsTimer -> KmsTimerType]
    /\ \A t \in KmsTimer :
         /\ KmsTimerShape(kmsTimer'[t])
         /\ kms'.lock = t <=> kmsTimer'[t].at \in {"proc", "end"}
         /\ kmsTimer'[t].handle => kmsTimer[t].handle \/ kms.phase = "live"
         /\ kmsTimer'[t].mem = "live" => kmsTimer[t].mem = "live" \/ kms.phase = "live"

LEMMA KmsTimersStep == KmsInv /\ [KmsNext]_kmsVars => KmsTimersKept
<1> SUFFICES ASSUME KmsInv, [KmsNext]_kmsVars
             PROVE  KmsTimersKept
  OBVIOUS
<1>t. /\ kmsTimer \in [KmsTimer -> KmsTimerType] /\ KmsNone \notin KmsTimer
      /\ kms \in KmsStateType
  BY KmsAssumption DEF KmsInv, KmsTypeOK
<1>s. \A t \in KmsTimer : /\ kmsTimer[t] \in KmsTimerType /\ KmsTimerShape(kmsTimer[t])
                          /\ kms.lock = t <=> kmsTimer[t].at \in {"proc", "end"}
  BY <1>t DEF KmsInv
<1>a. ASSUME NEW t \in KmsTimer, NEW r \in KmsTimerType, kmsTimer' = [kmsTimer EXCEPT ![t] = r],
             KmsTimerShape(r), kms'.lock = t <=> r.at \in {"proc", "end"},
             \A u \in KmsTimer \ {t} : kms'.lock = u <=> kms.lock = u,
             r.handle => kmsTimer[t].handle \/ kms.phase = "live",
             r.mem = "live" => kmsTimer[t].mem = "live" \/ kms.phase = "live"
      PROVE  KmsTimersKept
  <2>1. kmsTimer' \in [KmsTimer -> KmsTimerType] /\ kmsTimer'[t] = r
    BY <1>a, <1>t
  <2>2. \A u \in KmsTimer \ {t} : kmsTimer'[u] = kmsTimer[u]
    BY <1>a, <1>t
  <2>3. QED BY <1>a, <1>s, <2>1, <2>2 DEF KmsTimersKept
<1> USE DEF KmsStateType
<1>b. ASSUME UNCHANGED kmsTimer, kms'.lock = kms.lock
      PROVE  KmsTimersKept
  BY <1>b, <1>t, <1>s DEF KmsTimersKept
<1>1. ASSUME NEW t \in KmsTimer, NEW usec \in {0, 1}, NEW isRefPtr \in BOOLEAN,
             nvkms_init_timer(t, isRefPtr, usec), kms' = kms, kms.phase = "live",
             kmsTimer[t].mem = "unused"
      PROVE  KmsTimersKept
  <2>1. PICK r : r = [NoTimer EXCEPT !.mem = "live", !.listed = TRUE, !.ref = isRefPtr, !.handle = ~isRefPtr,
                                   !.created = usec # 0,
                                     !.at = IF usec = 0 THEN "queued" ELSE "armed"]
    OBVIOUS
  <2>2. kmsTimer' = [kmsTimer EXCEPT ![t] = r]
    BY <1>1, <2>1 DEF nvkms_init_timer
  <2>3. PICK a \in {"queued", "armed"}, c \in BOOLEAN :
            /\ a = (IF usec = 0 THEN "queued" ELSE "armed") /\ c = (usec # 0)
                 /\ (a = "armed" => c)
    BY <1>1
  <2>4. r = [NoTimer EXCEPT !.mem = "live", !.listed = TRUE, !.ref = isRefPtr, !.handle = ~isRefPtr,
                            !.created = c, !.at = a]
    BY ONLY <2>1, <2>3
  <2>5. r \in KmsTimerType
    BY <2>4, <2>3 DEF NoTimer, KmsTimerType
  <2>6. r.mem = "live" /\ r.listed /\ r.ref = isRefPtr /\ r.handle = ~isRefPtr
    BY <2>4, <2>3 DEF NoTimer, KmsTimerType
  <2>7. r.created = c /\ r.at = a /\ ~r.cb /\ ~r.cancel /\ ~r.complete
    BY <2>4, <2>3 DEF NoTimer, KmsTimerType
  <2>8. KmsTimerShape(r) /\ r.at \notin {"proc", "end"}
    BY <2>3, <2>6, <2>7 DEF KmsTimerShape
  <2>9. kms.lock # t
    BY <1>1, <1>s DEF KmsTimerShape
  <2>10. QED BY <1>a, <1>1, <2>2, <2>5, <2>8, <2>9
<1>2. ASSUME NEW t \in KmsTimer, NEW usec \in {0, 1},
             nvkms_alloc_timer(t, usec) \/ nvkms_alloc_timer_with_ref_ptr(t, usec)
      PROVE  KmsTimersKept
  <2>1. /\ kms' = kms /\ kms.phase = "live" /\ kmsTimer[t].mem = "unused"
        /\ nvkms_init_timer(t, FALSE, usec) \/ nvkms_init_timer(t, TRUE, usec)
    BY <1>2 DEF nvkms_alloc_timer, nvkms_alloc_timer_with_ref_ptr, InCore, KmsLive
  <2>2. QED BY <1>1, <2>1
<1>3. ASSUME NEW S \in SUBSET KmsTimer, Release(S), kms'.lock = kms.lock,
             \A t \in S : kmsTimer[t].handle /\ kmsTimer[t].at # "end"
      PROVE  KmsTimersKept
  <2>1. kmsTimer' = [t \in KmsTimer |->
            IF t \notin S THEN kmsTimer[t]
            ELSE [kmsTimer[t] EXCEPT !.handle = FALSE,
                                     !.mem = IF kmsTimer[t].complete THEN Freed(@) ELSE @,
                                     !.cancel = IF kmsTimer[t].complete THEN @ ELSE TRUE]]
    BY <1>3 DEF Release
  <2>2. ASSUME NEW t \in KmsTimer, t \notin S
        PROVE  kmsTimer'[t] = kmsTimer[t]
    BY <2>1, <2>2
  <2>3. ASSUME NEW t \in S
        PROVE  /\ kmsTimer'[t] \in KmsTimerType /\ KmsTimerShape(kmsTimer'[t])
               /\ ~kmsTimer'[t].handle /\ kmsTimer'[t].at = kmsTimer[t].at
               /\ kmsTimer'[t].mem = "live" => kmsTimer[t].mem = "live"
    <3>1. t \in KmsTimer
      OBVIOUS
    <3>2. kmsTimer'[t] = [kmsTimer[t] EXCEPT !.handle = FALSE,
                                     !.mem = IF kmsTimer[t].complete THEN Freed(@) ELSE @,
                                     !.cancel = IF kmsTimer[t].complete THEN @ ELSE TRUE]
      BY <2>1, <3>1
    <3>3. QED BY <1>3, <1>s, <3>1, <3>2, ReleasedIs
  <2>4. \A t \in KmsTimer : kmsTimer'[t] \in KmsTimerType
    BY <2>2, <2>3, <1>s
  <2>5. kmsTimer' \in [KmsTimer -> KmsTimerType]
    BY <2>1, <2>4
  <2>6. QED BY <1>3, <1>s, <2>2, <2>3, <2>5 DEF KmsTimersKept
<1>4. ASSUME NEW t \in KmsTimer, nvkms_free_timer(t)
      PROVE  KmsTimersKept
  <2>1. Release({t}) /\ kms' = kms /\ kmsTimer[t].handle /\ InCore
    BY <1>4 DEF nvkms_free_timer
  <2>2. kmsTimer[t].at # "end"
    BY <2>1, <1>s, <1>t DEF InCore
  <2>3. QED BY <1>3, <2>1, <2>2
<1>5. ASSUME nvKmsModuleUnload
      PROVE  KmsTimersKept
  <2>1. Release({t \in KmsTimer : kmsTimer[t].handle}) /\ kms'.lock = kms.lock
          /\ kms.lock = KmsNone
    BY <1>5, <1>t DEF nvKmsModuleUnload
  <2>2. QED BY <1>3, <1>s, <1>t, <2>1
<1>6. ASSUME NEW t \in KmsTimer, kmsTimer[t].at = "armed",
             kmsTimer' = [kmsTimer EXCEPT ![t].at = "queued", ![t].cb = TRUE], kms' = kms
      PROVE  KmsTimersKept
  <2> DEFINE q == kmsTimer[t]
             r == [kmsTimer[t] EXCEPT !.at = "queued", !.cb = TRUE]
  <2>1. kmsTimer' = [kmsTimer EXCEPT ![t] = r] /\ kms' = kms
    BY <1>6, <1>t
  <2>2. q.at = "armed" /\ TRUE
    BY <1>6
  <2>3. q \in KmsTimerType /\ KmsTimerShape(q) /\ (kms.lock = t <=> q.at \in {"proc", "end"})
    BY <1>s
  <2>4. r \in KmsTimerType
    BY <2>3 DEF KmsTimerType
  <2>5. r.at = "queued" /\ r.cb = TRUE
    BY <2>3 DEF KmsTimerType
  <2>6. r.mem = q.mem /\ r.listed = q.listed /\ r.created = q.created /\ r.ref = q.ref
          /\ r.cancel = q.cancel /\ r.complete = q.complete /\ r.handle = q.handle
    BY <2>3 DEF KmsTimerType
  <2> HIDE DEF q, r
  <2>7. KmsTimerShape(r)
    BY <2>2, <2>3, <2>5, <2>6 DEF KmsTimerShape, KmsTimerType
  <2>8. kms'.lock = t <=> r.at \in {"proc", "end"}
    BY <2>1, <2>2, <2>3, <2>5, <2>6
  <2>9. (r.handle => q.handle) /\ (r.mem = "live" => q.mem = "live")
    BY <2>2, <2>3, <2>5, <2>6 DEF KmsTimerType
  <2>10. QED BY <1>a, <2>1, <2>4, <2>7, <2>8, <2>9 DEF q
<1>7. ASSUME NEW t \in KmsTimer, kmsTimer[t].cb, kmsTimer' = [kmsTimer EXCEPT ![t].cb = FALSE],
             kms' = kms
      PROVE  KmsTimersKept
  <2> DEFINE q == kmsTimer[t]
             r == [kmsTimer[t] EXCEPT !.cb = FALSE]
  <2>1. kmsTimer' = [kmsTimer EXCEPT ![t] = r] /\ kms' = kms
    BY <1>7, <1>t
  <2>2. q.cb
    BY <1>7
  <2>3. q \in KmsTimerType /\ KmsTimerShape(q) /\ (kms.lock = t <=> q.at \in {"proc", "end"})
    BY <1>s
  <2>4. r \in KmsTimerType
    BY <2>3 DEF KmsTimerType
  <2>5. r.cb = FALSE
    BY <2>3 DEF KmsTimerType
  <2>6. r.mem = q.mem /\ r.at = q.at /\ r.listed = q.listed /\ r.created = q.created
          /\ r.ref = q.ref /\ r.cancel = q.cancel /\ r.complete = q.complete
          /\ r.handle = q.handle
    BY <2>3 DEF KmsTimerType
  <2> HIDE DEF q, r
  <2>7. KmsTimerShape(r)
    BY <2>2, <2>3, <2>5, <2>6 DEF KmsTimerShape, KmsTimerType
  <2>8. kms'.lock = t <=> r.at \in {"proc", "end"}
    BY <2>1, <2>2, <2>3, <2>5, <2>6
  <2>9. (r.handle => q.handle) /\ (r.mem = "live" => q.mem = "live")
    BY <2>2, <2>3, <2>5, <2>6 DEF KmsTimerType
  <2>10. QED BY <1>a, <2>1, <2>4, <2>7, <2>8, <2>9 DEF q
<1>8. ASSUME NEW t \in KmsTimer, nvkms_timer_callback(t)
      PROVE  KmsTimersKept
  BY <1>8, <1>6, <1>7 DEF nvkms_timer_callback
<1>9. ASSUME NEW t \in KmsTimer, WorkUnlists(t)
      PROVE  KmsTimersKept
  <2> DEFINE q == kmsTimer[t]
             r == [kmsTimer[t] EXCEPT !.at = "del_timer", !.listed = FALSE]
  <2>1. kmsTimer' = [kmsTimer EXCEPT ![t] = r] /\ kms' = kms
    BY <1>9, <1>t DEF WorkUnlists
  <2>2. q.at = "queued"
    BY <1>9 DEF WorkUnlists
  <2>3. q \in KmsTimerType /\ KmsTimerShape(q) /\ (kms.lock = t <=> q.at \in {"proc", "end"})
    BY <1>s
  <2>4. r \in KmsTimerType
    BY <2>3 DEF KmsTimerType
  <2>5. r.at = "del_timer" /\ r.listed = FALSE
    BY <2>3 DEF KmsTimerType
  <2>6. r.mem = q.mem /\ r.cb = q.cb /\ r.created = q.created /\ r.ref = q.ref
          /\ r.cancel = q.cancel /\ r.complete = q.complete /\ r.handle = q.handle
    BY <2>3 DEF KmsTimerType
  <2> HIDE DEF q, r
  <2>7. KmsTimerShape(r)
    BY <2>2, <2>3, <2>5, <2>6 DEF KmsTimerShape, KmsTimerType
  <2>8. kms'.lock = t <=> r.at \in {"proc", "end"}
    BY <2>1, <2>2, <2>3, <2>5, <2>6
  <2>9. (r.handle => q.handle) /\ (r.mem = "live" => q.mem = "live")
    BY <2>2, <2>3, <2>5, <2>6 DEF KmsTimerType
  <2>10. QED BY <1>a, <2>1, <2>4, <2>7, <2>8, <2>9 DEF q
<1>10. ASSUME NEW t \in KmsTimer, WorkDelTimer(t)
      PROVE  KmsTimersKept
  <2> DEFINE q == kmsTimer[t]
             r == [kmsTimer[t] EXCEPT !.at = "lock"]
  <2>1. kmsTimer' = [kmsTimer EXCEPT ![t] = r] /\ kms' = kms
    BY <1>10, <1>t DEF WorkDelTimer
  <2>2. q.at = "del_timer" /\ (q.created => ~q.cb)
    BY <1>10 DEF WorkDelTimer
  <2>3. q \in KmsTimerType /\ KmsTimerShape(q) /\ (kms.lock = t <=> q.at \in {"proc", "end"})
    BY <1>s
  <2>4. r \in KmsTimerType
    BY <2>3 DEF KmsTimerType
  <2>5. r.at = "lock"
    BY <2>3 DEF KmsTimerType
  <2>6. r.mem = q.mem /\ r.listed = q.listed /\ r.cb = q.cb /\ r.created = q.created
          /\ r.ref = q.ref /\ r.cancel = q.cancel /\ r.complete = q.complete
          /\ r.handle = q.handle
    BY <2>3 DEF KmsTimerType
  <2> HIDE DEF q, r
  <2>7. KmsTimerShape(r)
    BY <2>2, <2>3, <2>5, <2>6 DEF KmsTimerShape, KmsTimerType
  <2>8. kms'.lock = t <=> r.at \in {"proc", "end"}
    BY <2>1, <2>2, <2>3, <2>5, <2>6
  <2>9. (r.handle => q.handle) /\ (r.mem = "live" => q.mem = "live")
    BY <2>2, <2>3, <2>5, <2>6 DEF KmsTimerType
  <2>10. QED BY <1>a, <2>1, <2>4, <2>7, <2>8, <2>9 DEF q
<1>11. ASSUME NEW t \in KmsTimer, WorkReturns(t)
      PROVE  KmsTimersKept
  <2> DEFINE q == kmsTimer[t]
             r == [kmsTimer[t] EXCEPT !.complete = TRUE, !.at = "end"]
  <2>1. kmsTimer' = [kmsTimer EXCEPT ![t] = r] /\ kms' = kms
    BY <1>11, <1>t DEF WorkReturns
  <2>2. q.at = "proc"
    BY <1>11 DEF WorkReturns
  <2>3. q \in KmsTimerType /\ KmsTimerShape(q) /\ (kms.lock = t <=> q.at \in {"proc", "end"})
    BY <1>s
  <2>4. r \in KmsTimerType
    BY <2>3 DEF KmsTimerType
  <2>5. r.complete = TRUE /\ r.at = "end"
    BY <2>3 DEF KmsTimerType
  <2>6. r.mem = q.mem /\ r.listed = q.listed /\ r.cb = q.cb /\ r.created = q.created
          /\ r.ref = q.ref /\ r.cancel = q.cancel /\ r.handle = q.handle
    BY <2>3 DEF KmsTimerType
  <2> HIDE DEF q, r
  <2>7. KmsTimerShape(r)
    BY <2>2, <2>3, <2>5, <2>6 DEF KmsTimerShape, KmsTimerType
  <2>8. kms'.lock = t <=> r.at \in {"proc", "end"}
    BY <2>1, <2>2, <2>3, <2>5, <2>6
  <2>9. (r.handle => q.handle) /\ (r.mem = "live" => q.mem = "live")
    BY <2>2, <2>3, <2>5, <2>6 DEF KmsTimerType
  <2>10. QED BY <1>a, <2>1, <2>4, <2>7, <2>8, <2>9 DEF q
<1>12. ASSUME NEW t \in KmsTimer, kmsTimer[t].at = "armed",
              kmsTimer' = [kmsTimer EXCEPT ![t].listed = FALSE, ![t].at = "none", ![t].mem = "freed"],
             kms' = kms, ~kmsTimer[t].handle
      PROVE  KmsTimersKept
  <2> DEFINE q == kmsTimer[t]
             r == [kmsTimer[t] EXCEPT !.listed = FALSE, !.at = "none", !.mem = "freed"]
  <2>1. kmsTimer' = [kmsTimer EXCEPT ![t] = r] /\ kms' = kms
    BY <1>12, <1>t
  <2>2. q.at = "armed" /\ ~q.handle
    BY <1>12
  <2>3. q \in KmsTimerType /\ KmsTimerShape(q) /\ (kms.lock = t <=> q.at \in {"proc", "end"})
    BY <1>s
  <2>4. r \in KmsTimerType
    BY <2>3 DEF KmsTimerType
  <2>5. r.listed = FALSE /\ r.at = "none" /\ r.mem = "freed"
    BY <2>3 DEF KmsTimerType
  <2>6. r.cb = q.cb /\ r.created = q.created /\ r.ref = q.ref /\ r.cancel = q.cancel
          /\ r.complete = q.complete /\ r.handle = q.handle
    BY <2>3 DEF KmsTimerType
  <2> HIDE DEF q, r
  <2>7. KmsTimerShape(r)
    BY <2>2, <2>3, <2>5, <2>6 DEF KmsTimerShape, KmsTimerType
  <2>8. kms'.lock = t <=> r.at \in {"proc", "end"}
    BY <2>1, <2>2, <2>3, <2>5, <2>6
  <2>9. (r.handle => q.handle) /\ (r.mem = "live" => q.mem = "live")
    BY <2>2, <2>3, <2>5, <2>6 DEF KmsTimerType
  <2>10. QED BY <1>a, <2>1, <2>4, <2>7, <2>8, <2>9 DEF q
<1>13. ASSUME NEW t \in KmsTimer, ExitDeletes(t)
      PROVE  KmsTimersKept
  <2>1. kmsTimer[t].mem = "live" /\ ~kmsTimer[t].handle
    BY <1>13, <1>s DEF ExitDeletes, KmsTimerShape, KmsInv, KmsPhaseShape
  <2>2. Freed(kmsTimer[t].mem) = "freed"
    BY <2>1 DEF Freed
  <2>3. QED BY <1>13, <1>12, <2>1, <2>2 DEF ExitDeletes
<1>14. ASSUME NEW t \in KmsTimer, WorkCalls(t)
      PROVE  KmsTimersKept
  <2> DEFINE q == kmsTimer[t]
  <2>1. PICK c \in BOOLEAN :
           /\ c = (q.cancel \/ (q.ref /\ ~kmsRef.ptr))
           /\ kmsTimer' = [kmsTimer EXCEPT ![t].cancel = c, ![t].at = IF c THEN "end" ELSE "proc"]
           /\ q.at = "lock" /\ kms.lock = KmsNone /\ kms' = [kms EXCEPT !.lock = t]
    BY <1>14 DEF WorkCalls
  <2>2. PICK a \in {"end", "proc"} : a = IF c THEN "end" ELSE "proc"
    BY <2>1
  <2> DEFINE r == [kmsTimer[t] EXCEPT !.cancel = c, !.at = a]
  <2>3. q \in KmsTimerType /\ KmsTimerShape(q)
    BY <1>s
  <2>4. kmsTimer' = [kmsTimer EXCEPT ![t] = r]
    BY ONLY <2>1, <2>2, <1>t DEF KmsTimerType
  <2>5. r \in KmsTimerType /\ r.cancel = c /\ r.at = a
    BY <2>3, <2>1, <2>2 DEF KmsTimerType
  <2>6. /\ r.mem = q.mem /\ r.listed = q.listed /\ r.cb = q.cb /\ r.created = q.created
        /\ r.ref = q.ref /\ r.complete = q.complete /\ r.handle = q.handle
    BY <2>3, <2>1, <2>2 DEF KmsTimerType
  <2> HIDE DEF q, r
  <2>7. KmsTimerShape(r)
    BY <2>1, <2>2, <2>3, <2>5, <2>6 DEF KmsTimerShape, KmsTimerType
  <2>8. kms'.lock = t
    BY <2>1, <1>t
  <2>9. \A u \in KmsTimer \ {t} : kms'.lock = u <=> kms.lock = u
    BY <2>1, <2>8, <1>t
  <2>10. QED BY <1>a, <2>2, <2>4, <2>5, <2>6, <2>7, <2>8, <2>9 DEF q
<1>15. ASSUME NEW t \in KmsTimer, nvkms_workqueue_callback(t)
      PROVE  KmsTimersKept
  <2> DEFINE q == kmsTimer[t]
  <2>1. /\ q.at = "end" /\ kms' = [kms EXCEPT !.lock = KmsNone, !.flush = @ \ {t}]
        /\ kmsTimer' = [kmsTimer EXCEPT ![t].at = "none",
                                        ![t].mem = IF kmsTimer[t].ref
                                          \/ kmsTimer[t].cancel THEN Freed(@) ELSE @]
    BY <1>15 DEF nvkms_workqueue_callback
  <2>2. q \in KmsTimerType /\ KmsTimerShape(q) /\ q.mem = "live" /\ kms.lock = t
    BY <1>s, <2>1 DEF KmsTimerShape, KmsTimerType
  <2>3. PICK m \in {"live", "freed"} : m = IF q.ref \/ q.cancel THEN "freed" ELSE "live"
    OBVIOUS
  <2> DEFINE r == [kmsTimer[t] EXCEPT !.at = "none", !.mem = m]
  <2>4. kmsTimer' = [kmsTimer EXCEPT ![t] = r]
    <3>1. CASE q.ref \/ q.cancel
      BY ONLY <3>1, <2>1, <2>2, <2>3, <1>t DEF KmsTimerType, Freed
    <3>2. CASE ~(q.ref \/ q.cancel)
      BY ONLY <3>2, <2>1, <2>2, <2>3, <1>t DEF KmsTimerType
    <3>3. QED BY <3>1, <3>2
  <2>5. r \in KmsTimerType /\ r.at = "none" /\ r.mem = m
    BY <2>2 DEF KmsTimerType
  <2>6. /\ r.listed = q.listed /\ r.cb = q.cb /\ r.created = q.created /\ r.cancel = q.cancel
        /\ r.ref = q.ref /\ r.complete = q.complete /\ r.handle = q.handle
    BY <2>2 DEF KmsTimerType
  <2> HIDE DEF q, r
  <2>7. KmsTimerShape(r)
    BY <2>1, <2>2, <2>3, <2>5, <2>6 DEF KmsTimerShape, KmsTimerType
  <2>8. kms'.lock = KmsNone
    BY <2>1, <1>t
  <2>9. \A u \in KmsTimer \ {t} : kms'.lock = u <=> kms.lock = u
    BY <2>2, <2>8, <1>t
  <2>10. kms'.lock = t <=> r.at \in {"proc", "end"}
    BY <2>5, <2>8, <1>t
  <2>11. /\ r.handle => kmsTimer[t].handle
         /\ kmsTimer[t].mem = "live"
    BY <2>2, <2>6 DEF q
  <2>12. r \in KmsTimerType
    BY <2>5
  <2>13. QED BY <1>a, <2>4, <2>7, <2>9, <2>10, <2>11, <2>12, Zenon
<1>16. ASSUME nvkms_alloc_ref_ptr
      PROVE  KmsTimersKept
  <2>1. UNCHANGED kmsTimer /\ kms'.lock = kms.lock
    BY <1>16, <1>t DEF nvkms_alloc_ref_ptr
  <2>2. QED BY <1>b, <2>1
<1>17. ASSUME nvkms_free_ref_ptr
      PROVE  KmsTimersKept
  <2>1. UNCHANGED kmsTimer /\ kms'.lock = kms.lock
    BY <1>17, <1>t DEF nvkms_free_ref_ptr
  <2>2. QED BY <1>b, <2>1
<1>18. ASSUME nvkms_open_gpu
      PROVE  KmsTimersKept
  <2>1. UNCHANGED kmsTimer /\ kms'.lock = kms.lock
    BY <1>18, <1>t DEF nvkms_open_gpu
  <2>2. QED BY <1>b, <2>1
<1>19. ASSUME nvkms_close_gpu
      PROVE  KmsTimersKept
  <2>1. UNCHANGED kmsTimer /\ kms'.lock = kms.lock
    BY <1>19, <1>t DEF nvkms_close_gpu
  <2>2. QED BY <1>b, <2>1
<1>20. ASSUME nvkms_init
      PROVE  KmsTimersKept
  <2>1. UNCHANGED kmsTimer /\ kms'.lock = kms.lock
    BY <1>20, <1>t DEF nvkms_init
  <2>2. QED BY <1>b, <2>1
<1>21. ASSUME ExitFlushes
      PROVE  KmsTimersKept
  <2>1. UNCHANGED kmsTimer /\ kms'.lock = kms.lock
    BY <1>21, <1>t DEF ExitFlushes
  <2>2. QED BY <1>b, <2>1
<1>22. ASSUME nvkms_exit
      PROVE  KmsTimersKept
  <2>1. UNCHANGED kmsTimer /\ kms'.lock = kms.lock
    BY <1>22, <1>t DEF nvkms_exit
  <2>2. QED BY <1>b, <2>1
<1>23. ASSUME NEW o \in KmsOpen, NEW type \in {"user", "kernel"}, nvkms_open_common(o, type)
      PROVE  KmsTimersKept
  <2>1. UNCHANGED kmsTimer /\ kms'.lock = kms.lock
    BY <1>23, <1>t DEF nvkms_open_common
  <2>2. QED BY <1>b, <2>1
<1>24. ASSUME NEW o \in KmsOpen, NEW e \in BOOLEAN, nvkms_event_queue_changed(o, e)
      PROVE  KmsTimersKept
  <2>1. UNCHANGED kmsTimer /\ kms'.lock = kms.lock
    BY <1>24, <1>t DEF nvkms_event_queue_changed
  <2>2. QED BY <1>b, <2>1
<1>25. ASSUME NEW o \in KmsOpen, EventWorkStarts(o)
      PROVE  KmsTimersKept
  <2>1. UNCHANGED kmsTimer /\ kms'.lock = kms.lock
    BY <1>25, <1>t DEF EventWorkStarts
  <2>2. QED BY <1>b, <2>1
<1>26. ASSUME NEW o \in KmsOpen, nvkms_kapi_event_work_queue_callback(o)
      PROVE  KmsTimersKept
  <2>1. UNCHANGED kmsTimer /\ kms'.lock = kms.lock
    BY <1>26, <1>t DEF nvkms_kapi_event_work_queue_callback
  <2>2. QED BY <1>b, <2>1
<1>27. ASSUME NEW o \in KmsOpen, nvkms_close_common(o)
      PROVE  KmsTimersKept
  <2>1. UNCHANGED kmsTimer /\ kms'.lock = kms.lock
    BY <1>27, <1>t DEF nvkms_close_common
  <2>2. QED BY <1>b, <2>1
<1>28. ASSUME NEW o \in KmsOpen, CloseFrees(o)
      PROVE  KmsTimersKept
  <2>1. UNCHANGED kmsTimer /\ kms'.lock = kms.lock
    BY <1>28, <1>t DEF CloseFrees
  <2>2. QED BY <1>b, <2>1
<1>29. ASSUME UNCHANGED kmsVars
      PROVE  KmsTimersKept
  <2>1. UNCHANGED kmsTimer /\ kms'.lock = kms.lock
    BY <1>29, <1>t DEF kmsVars
  <2>2. QED BY <1>b, <2>1
<1> HIDE DEF KmsInv
<1>30. QED
  BY <1>1, <1>2, <1>3, <1>4, <1>5, <1>6, <1>7, <1>8, <1>9, <1>10, <1>11, <1>12, <1>13, <1>14,
     <1>15, <1>16, <1>17, <1>18, <1>19, <1>20, <1>21, <1>22, <1>23, <1>24, <1>25, <1>26, <1>27,
     <1>28, <1>29
  DEF KmsNext

LEMMA KmsOpensStep ==
    KmsInv /\ [KmsNext]_kmsVars =>
      kmsOpen' \in [KmsOpen -> KmsOpenType] /\ \A o \in KmsOpen : KmsOpenShape(kmsOpen'[o])
<1> DEFINE Kept == kmsOpen' \in [KmsOpen -> KmsOpenType]
             /\ \A o \in KmsOpen : KmsOpenShape(kmsOpen'[o])
<1> SUFFICES ASSUME KmsInv, [KmsNext]_kmsVars
             PROVE  Kept
  OBVIOUS
<1>t. /\ kmsOpen \in [KmsOpen -> KmsOpenType]
      /\ \A o \in KmsOpen : kmsOpen[o] \in KmsOpenType /\ KmsOpenShape(kmsOpen[o])
  BY DEF KmsInv, KmsTypeOK
<1>a. ASSUME NEW o \in KmsOpen, NEW r \in KmsOpenType, kmsOpen' = [kmsOpen EXCEPT ![o] = r],
             KmsOpenShape(r)
      PROVE  Kept
  BY <1>a, <1>t
<1>b. ASSUME UNCHANGED kmsOpen
      PROVE  Kept
  BY <1>b, <1>t
<1> HIDE DEF Kept
<1>1. ASSUME NEW o \in KmsOpen, NEW type \in {"user", "kernel"},
             kmsOpen' = [kmsOpen EXCEPT ![o] = [NoOpen EXCEPT !.mem = "live", !.type = type, !.data = TRUE]]
      PROVE  Kept
  <2> DEFINE r == [NoOpen EXCEPT !.mem = "live", !.type = type, !.data = TRUE]
  <2>1. r \in KmsOpenType
    BY DEF NoOpen, KmsOpenType
  <2>2. r.mem = "live" /\ r.data /\ ~r.closing /\ ~r.queued /\ ~r.running
    BY DEF NoOpen
  <2>3. KmsOpenShape(r)
    BY <2>2 DEF KmsOpenShape
  <2>4. QED BY <1>1, <1>a, <2>1, <2>3
<1>2. ASSUME NEW o \in KmsOpen, kmsOpen[o].mem = "unused",
             kmsOpen' = [kmsOpen EXCEPT ![o].mem = "freed"]
      PROVE  Kept
  <2> DEFINE q == kmsOpen[o]
             r == [kmsOpen[o] EXCEPT !.mem = "freed"]
  <2>1. kmsOpen' = [kmsOpen EXCEPT ![o] = r]
    BY <1>2, <1>t
  <2>2. q.mem = "unused" /\ TRUE
    BY <1>2
  <2>3. q \in KmsOpenType /\ KmsOpenShape(q)
    BY <1>t
  <2>4. r \in KmsOpenType
    BY <1>2, <2>3 DEF KmsOpenType
  <2>5. r.mem = "freed"
    BY <2>3 DEF KmsOpenType
  <2>6. r.type = q.type /\ r.data = q.data /\ r.queued = q.queued /\ r.running = q.running
          /\ r.available = q.available /\ r.closing = q.closing
    BY <2>3 DEF KmsOpenType
  <2> HIDE DEF q, r
  <2>7. KmsOpenShape(r)
    BY <2>2, <2>3, <2>5, <2>6 DEF KmsOpenShape, KmsOpenType
  <2>8. QED BY <1>a, <2>1, <2>4, <2>7
<1>3. ASSUME NEW o \in KmsOpen, NEW type \in {"user", "kernel"}, nvkms_open_common(o, type)
      PROVE  Kept
  BY <1>3, <1>1, <1>2 DEF nvkms_open_common
<1>4. ASSUME NEW o \in KmsOpen, NEW e \in BOOLEAN, kmsOpen[o].type = "user",
             kmsOpen' = [kmsOpen EXCEPT ![o].available = e]
      PROVE  Kept
  <2> DEFINE q == kmsOpen[o]
             r == [kmsOpen[o] EXCEPT !.available = e]
  <2>1. kmsOpen' = [kmsOpen EXCEPT ![o] = r]
    BY <1>4, <1>t
  <2>2. q.type = "user" /\ TRUE
    BY <1>4
  <2>3. q \in KmsOpenType /\ KmsOpenShape(q)
    BY <1>t
  <2>4. r \in KmsOpenType
    BY <1>4, <2>3 DEF KmsOpenType
  <2>5. r.available = e
    BY <2>3 DEF KmsOpenType
  <2>6. r.mem = q.mem /\ r.type = q.type /\ r.data = q.data /\ r.queued = q.queued
          /\ r.running = q.running /\ r.closing = q.closing
    BY <2>3 DEF KmsOpenType
  <2> HIDE DEF q, r
  <2>7. KmsOpenShape(r)
    BY <2>2, <2>3, <2>5, <2>6 DEF KmsOpenShape, KmsOpenType
  <2>8. QED BY <1>a, <2>1, <2>4, <2>7
<1>5. ASSUME NEW o \in KmsOpen, kmsOpen[o].type # "user", kmsOpen[o].data,
             kmsOpen' = [kmsOpen EXCEPT ![o].queued = TRUE]
      PROVE  Kept
  <2> DEFINE q == kmsOpen[o]
             r == [kmsOpen[o] EXCEPT !.queued = TRUE]
  <2>1. kmsOpen' = [kmsOpen EXCEPT ![o] = r]
    BY <1>5, <1>t
  <2>2. q.type # "user" /\ q.data
    BY <1>5
  <2>3. q \in KmsOpenType /\ KmsOpenShape(q)
    BY <1>t
  <2>4. r \in KmsOpenType
    BY <1>5, <2>3 DEF KmsOpenType
  <2>5. r.queued = TRUE
    BY <2>3 DEF KmsOpenType
  <2>6. r.mem = q.mem /\ r.type = q.type /\ r.data = q.data /\ r.running = q.running
          /\ r.available = q.available /\ r.closing = q.closing
    BY <2>3 DEF KmsOpenType
  <2> HIDE DEF q, r
  <2>7. KmsOpenShape(r)
    BY <2>2, <2>3, <2>5, <2>6 DEF KmsOpenShape, KmsOpenType
  <2>8. QED BY <1>a, <2>1, <2>4, <2>7
<1>6. ASSUME NEW o \in KmsOpen, NEW e \in BOOLEAN, nvkms_event_queue_changed(o, e)
      PROVE  Kept
  BY <1>6, <1>4, <1>5, <1>b DEF nvkms_event_queue_changed
<1>7. ASSUME NEW o \in KmsOpen, EventWorkStarts(o)
      PROVE  Kept
  <2> DEFINE q == kmsOpen[o]
             r == [kmsOpen[o] EXCEPT !.queued = FALSE, !.running = TRUE]
  <2>1. kmsOpen' = [kmsOpen EXCEPT ![o] = r]
    BY <1>7, <1>t DEF EventWorkStarts
  <2>2. q.queued /\ TRUE
    BY <1>7 DEF EventWorkStarts
  <2>3. q \in KmsOpenType /\ KmsOpenShape(q)
    BY <1>t
  <2>4. r \in KmsOpenType
    BY <1>7, <2>3 DEF KmsOpenType
  <2>5. r.queued = FALSE /\ r.running = TRUE
    BY <2>3 DEF KmsOpenType
  <2>6. r.mem = q.mem /\ r.type = q.type /\ r.data = q.data /\ r.available = q.available
          /\ r.closing = q.closing
    BY <2>3 DEF KmsOpenType
  <2> HIDE DEF q, r
  <2>7. KmsOpenShape(r)
    BY <2>2, <2>3, <2>5, <2>6 DEF KmsOpenShape, KmsOpenType
  <2>8. QED BY <1>a, <2>1, <2>4, <2>7
<1>8. ASSUME NEW o \in KmsOpen, nvkms_kapi_event_work_queue_callback(o)
      PROVE  Kept
  <2> DEFINE q == kmsOpen[o]
             r == [kmsOpen[o] EXCEPT !.running = FALSE]
  <2>1. kmsOpen' = [kmsOpen EXCEPT ![o] = r]
    BY <1>8, <1>t DEF nvkms_kapi_event_work_queue_callback
  <2>2. q.running /\ TRUE
    BY <1>8 DEF nvkms_kapi_event_work_queue_callback
  <2>3. q \in KmsOpenType /\ KmsOpenShape(q)
    BY <1>t
  <2>4. r \in KmsOpenType
    BY <1>8, <2>3 DEF KmsOpenType
  <2>5. r.running = FALSE
    BY <2>3 DEF KmsOpenType
  <2>6. r.mem = q.mem /\ r.type = q.type /\ r.data = q.data /\ r.queued = q.queued
          /\ r.available = q.available /\ r.closing = q.closing
    BY <2>3 DEF KmsOpenType
  <2> HIDE DEF q, r
  <2>7. KmsOpenShape(r)
    BY <2>2, <2>3, <2>5, <2>6 DEF KmsOpenShape, KmsOpenType
  <2>8. QED BY <1>a, <2>1, <2>4, <2>7
<1>9. ASSUME NEW o \in KmsOpen, nvkms_close_common(o)
      PROVE  Kept
  <2> DEFINE q == kmsOpen[o]
             r == [kmsOpen[o] EXCEPT !.data = FALSE, !.closing = TRUE]
  <2>1. kmsOpen' = [kmsOpen EXCEPT ![o] = r]
    BY <1>9, <1>t DEF nvkms_close_common
  <2>2. q.data /\ TRUE
    BY <1>9 DEF nvkms_close_common
  <2>3. q \in KmsOpenType /\ KmsOpenShape(q)
    BY <1>t
  <2>4. r \in KmsOpenType
    BY <1>9, <2>3 DEF KmsOpenType
  <2>5. r.data = FALSE /\ r.closing = TRUE
    BY <2>3 DEF KmsOpenType
  <2>6. r.mem = q.mem /\ r.type = q.type /\ r.queued = q.queued /\ r.running = q.running
          /\ r.available = q.available
    BY <2>3 DEF KmsOpenType
  <2> HIDE DEF q, r
  <2>7. KmsOpenShape(r)
    BY <2>2, <2>3, <2>5, <2>6 DEF KmsOpenShape, KmsOpenType
  <2>8. QED BY <1>a, <2>1, <2>4, <2>7
<1>10. ASSUME NEW o \in KmsOpen, kmsOpen[o].closing,
              kmsOpen[o].type = "kernel" => ~kmsOpen[o].queued
              /\ ~kmsOpen[o].running, ~kmsOpen[o].data,
             kmsOpen' = [kmsOpen EXCEPT ![o].mem = "freed", ![o].closing = FALSE]
      PROVE  Kept
  <2> DEFINE q == kmsOpen[o]
             r == [kmsOpen[o] EXCEPT !.mem = "freed", !.closing = FALSE]
  <2>1. kmsOpen' = [kmsOpen EXCEPT ![o] = r]
    BY <1>10, <1>t
  <2>2. (q.type = "kernel" => ~q.queued /\ ~q.running) /\ ~q.data
    BY <1>10
  <2>3. q \in KmsOpenType /\ KmsOpenShape(q)
    BY <1>t
  <2>4. r \in KmsOpenType
    BY <1>10, <2>3 DEF KmsOpenType
  <2>5. r.mem = "freed" /\ r.closing = FALSE
    BY <2>3 DEF KmsOpenType
  <2>6. r.type = q.type /\ r.data = q.data /\ r.queued = q.queued /\ r.running = q.running
          /\ r.available = q.available
    BY <2>3 DEF KmsOpenType
  <2> HIDE DEF q, r
  <2>7. KmsOpenShape(r)
    BY <2>2, <2>3, <2>5, <2>6 DEF KmsOpenShape, KmsOpenType
  <2>8. QED BY <1>a, <2>1, <2>4, <2>7
<1>11. ASSUME NEW o \in KmsOpen, CloseFrees(o)
      PROVE  Kept
  <2>1. kmsOpen[o].mem = "live" /\ ~kmsOpen[o].data
    BY <1>11, <1>t DEF CloseFrees, KmsOpenShape
  <2>2. Freed(kmsOpen[o].mem) = "freed"
    BY <2>1 DEF Freed
  <2>3. QED BY <1>11, <1>10, <2>1, <2>2 DEF CloseFrees
<1>12. ASSUME NEW t \in KmsTimer,
             \/ \E usec \in {0, 1} : nvkms_alloc_timer(t, usec)
               \/ nvkms_alloc_timer_with_ref_ptr(t, usec)
             \/ nvkms_free_timer(t) \/ nvkms_timer_callback(t) \/ WorkUnlists(t)
               \/ WorkDelTimer(t) \/ WorkCalls(t) \/ WorkReturns(t)
               \/ nvkms_workqueue_callback(t) \/ ExitDeletes(t)
      PROVE  Kept
  BY <1>12, <1>b DEF nvkms_alloc_timer, nvkms_alloc_timer_with_ref_ptr, nvkms_free_timer,
     nvkms_timer_callback, WorkUnlists, WorkDelTimer, WorkCalls, WorkReturns,
     nvkms_workqueue_callback, ExitDeletes
<1>13. ASSUME nvkms_alloc_ref_ptr \/ nvkms_free_ref_ptr \/ nvkms_open_gpu \/ nvkms_close_gpu
              \/ nvkms_init \/ nvKmsModuleUnload \/ ExitFlushes \/ nvkms_exit
              \/ UNCHANGED kmsVars
      PROVE  Kept
  BY <1>13, <1>b DEF kmsVars, nvkms_alloc_ref_ptr, nvkms_free_ref_ptr, nvkms_open_gpu,
     nvkms_close_gpu, nvkms_init, nvKmsModuleUnload, ExitFlushes, nvkms_exit
<1> HIDE DEF KmsInv
<1>14. QED
  BY <1>1, <1>2, <1>3, <1>4, <1>5, <1>6, <1>7, <1>8, <1>9, <1>10, <1>11, <1>12, <1>13
  DEF KmsNext

LEMMA PendingFinite ==
    ASSUME NEW S, IsFiniteSet(S), NEW t
    PROVE  /\ t \notin S => IsFiniteSet(S \cup {t})
                /\ Cardinality(S \cup {t}) = Cardinality(S) + 1
           /\ t \in S => IsFiniteSet(S \ {t}) /\ Cardinality(S \ {t}) = Cardinality(S) - 1
           /\ Cardinality(S) \in Nat
BY FS_AddElement, FS_RemoveElement, FS_CardinalityType

LEMMA KmsRefsStep == KmsInv /\ [KmsNext]_kmsVars => kmsRef' \in KmsRefType /\ KmsRefShape'
<1> DEFINE Kept == kmsRef' \in KmsRefType /\ KmsRefShape'
           Refs == {"armed", "queued", "del_timer", "lock"}
<1> SUFFICES ASSUME KmsInv, [KmsNext]_kmsVars
             PROVE  Kept
  OBVIOUS
<1>t. /\ kmsTimer \in [KmsTimer -> KmsTimerType] /\ kmsRef \in KmsRefType /\ KmsRefShape
      /\ \A t \in KmsTimer : kmsTimer[t] \in KmsTimerType /\ KmsTimerShape(kmsTimer[t])
  BY DEF KmsInv, KmsTypeOK
<1>p. /\ IsFiniteSet(Pending(kmsTimer)) /\ Cardinality(Pending(kmsTimer)) \in Nat
      /\ kmsRef.count = One_if(kmsRef.owned) + Cardinality(Pending(kmsTimer))
      /\ ~kmsRef.used => kmsRef.count = 0
  BY <1>t, FS_CardinalityType DEF KmsRefShape
<1> DEFINE Same == Pending(kmsTimer') = Pending(kmsTimer)
\* The timers that hold a reference stay the same.
<1>s. ASSUME \A t \in KmsTimer : /\ kmsTimer'[t].ref = kmsTimer[t].ref
                                 /\ kmsTimer'[t].at \in Refs <=> kmsTimer[t].at \in Refs
      PROVE  Same
  BY <1>s DEF Pending
<1>e. ASSUME NEW t \in KmsTimer, NEW r, kmsTimer' = [kmsTimer EXCEPT ![t] = r],
             r.ref = kmsTimer[t].ref, r.at \in Refs <=> kmsTimer[t].at \in Refs
      PROVE  Same
  <2>1. \A u \in KmsTimer : kmsTimer'[u] = IF u = t THEN r ELSE kmsTimer[u]
    BY <1>e, <1>t
  <2>2. QED BY <1>e, <1>s, <2>1
<1> HIDE DEF Same
<1>b. ASSUME Same, UNCHANGED kmsRef
      PROVE  Kept
  BY <1>b, <1>t, <1>p DEF KmsRefShape, Same
<1> HIDE DEF Kept
<1>1. ASSUME NEW t \in KmsTimer, WorkUnlists(t)
      PROVE  Kept
  <2> DEFINE r == [kmsTimer[t] EXCEPT !.at = "del_timer", !.listed = FALSE]
  <2>1. kmsTimer' = [kmsTimer EXCEPT ![t] = r] /\ UNCHANGED kmsRef /\ kmsTimer[t].at = "queued"
    BY <1>1, <1>t DEF WorkUnlists
  <2>2. r.ref = kmsTimer[t].ref /\ r.at = "del_timer"
    BY <1>t DEF KmsTimerType
  <2>3. QED BY <1>b, <1>e, <2>1, <2>2
<1>2. ASSUME NEW t \in KmsTimer, WorkDelTimer(t)
      PROVE  Kept
  <2> DEFINE r == [kmsTimer[t] EXCEPT !.at = "lock"]
  <2>1. kmsTimer' = [kmsTimer EXCEPT ![t] = r] /\ UNCHANGED kmsRef
          /\ kmsTimer[t].at = "del_timer"
    BY <1>2, <1>t DEF WorkDelTimer
  <2>2. r.ref = kmsTimer[t].ref /\ r.at = "lock"
    BY <1>t DEF KmsTimerType
  <2>3. QED BY <1>b, <1>e, <2>1, <2>2
<1>3. ASSUME NEW t \in KmsTimer, WorkReturns(t)
      PROVE  Kept
  <2> DEFINE r == [kmsTimer[t] EXCEPT !.complete = TRUE, !.at = "end"]
  <2>1. kmsTimer' = [kmsTimer EXCEPT ![t] = r] /\ UNCHANGED kmsRef /\ kmsTimer[t].at = "proc"
    BY <1>3, <1>t DEF WorkReturns
  <2>2. r.ref = kmsTimer[t].ref /\ r.at = "end"
    BY <1>t DEF KmsTimerType
  <2>3. QED BY <1>b, <1>e, <2>1, <2>2
<1>4. ASSUME NEW t \in KmsTimer, nvkms_workqueue_callback(t)
      PROVE  Kept
  <2> DEFINE r == [kmsTimer[t] EXCEPT !.at = "none", !.mem = IF kmsTimer[t].ref \/ kmsTimer[t].cancel THEN Freed(@) ELSE @]
  <2>1. kmsTimer' = [kmsTimer EXCEPT ![t] = r] /\ UNCHANGED kmsRef /\ kmsTimer[t].at = "end"
    BY <1>4, <1>t DEF nvkms_workqueue_callback
  <2>2. r.ref = kmsTimer[t].ref /\ r.at = "none"
    BY <1>t DEF KmsTimerType
  <2>3. QED BY <1>b, <1>e, <2>1, <2>2
<1>5. ASSUME NEW t \in KmsTimer, nvkms_timer_callback(t)
      PROVE  Kept
  <2>1. UNCHANGED kmsRef
    BY <1>5 DEF nvkms_timer_callback
  <2>2. CASE kmsTimer[t].at = "armed"
               /\ kmsTimer' = [kmsTimer EXCEPT ![t].at = "queued", ![t].cb = TRUE]
    <3> DEFINE r == [kmsTimer[t] EXCEPT !.at = "queued", !.cb = TRUE]
    <3>1. r.ref = kmsTimer[t].ref /\ r.at = "queued" /\ kmsTimer' = [kmsTimer EXCEPT ![t] = r]
      BY <1>t, <2>2 DEF KmsTimerType
    <3>2. QED BY <1>b, <1>e, <2>1, <2>2, <3>1
  <2>3. CASE kmsTimer' = [kmsTimer EXCEPT ![t].cb = FALSE]
    <3> DEFINE r == [kmsTimer[t] EXCEPT !.cb = FALSE]
    <3>1. r.ref = kmsTimer[t].ref /\ r.at = kmsTimer[t].at
            /\ kmsTimer' = [kmsTimer EXCEPT ![t] = r]
      BY <1>t, <2>3 DEF KmsTimerType
    <3>2. QED BY <1>b, <1>e, <2>1, <3>1
  <2>4. QED BY <1>5, <2>2, <2>3 DEF nvkms_timer_callback
<1>6. ASSUME NEW S \in SUBSET KmsTimer, Release(S)
      PROVE  Same
  <2>1. \A t \in KmsTimer : kmsTimer'[t].ref = kmsTimer[t].ref
          /\ kmsTimer'[t].at = kmsTimer[t].at
    BY <1>6, <1>t DEF Release, KmsTimerType
  <2>2. QED BY <1>s, <2>1
<1>7. ASSUME NEW t \in KmsTimer, nvkms_free_timer(t)
      PROVE  Kept
  BY <1>7, <1>b, <1>6 DEF nvkms_free_timer
<1>8. ASSUME NEW t \in KmsTimer, NEW usec \in {0, 1}, nvkms_alloc_timer(t, usec)
      PROVE  Kept
  <2>1. PICK r : /\ r = [NoTimer EXCEPT !.mem = "live", !.listed = TRUE, !.ref = FALSE, !.handle = ~FALSE,
                                       !.created = usec # 0,
                                         !.at = IF usec = 0 THEN "queued" ELSE "armed"]
                 /\ kmsTimer' = [kmsTimer EXCEPT ![t] = r]
    BY <1>8 DEF nvkms_alloc_timer, nvkms_init_timer
  <2>2. ~r.ref
    BY <2>1 DEF NoTimer
  <2>3. kmsTimer[t].at = "none" /\ UNCHANGED kmsRef
    BY <1>8, <1>t DEF nvkms_alloc_timer, KmsTimerShape
  <2>4. \A u \in KmsTimer : kmsTimer'[u] = IF u = t THEN r ELSE kmsTimer[u]
    BY <2>1, <1>t
  <2>5. Pending(kmsTimer') = Pending(kmsTimer)
    BY <2>2, <2>3, <2>4 DEF Pending
  <2>6. QED BY <1>b, <2>3, <2>5 DEF Same
<1>9. ASSUME NEW t \in KmsTimer, NEW usec \in {0, 1}, nvkms_alloc_timer_with_ref_ptr(t, usec)
      PROVE  Kept
  <2>1. PICK r : /\ r = [NoTimer EXCEPT !.mem = "live", !.listed = TRUE, !.ref = TRUE, !.handle = ~TRUE,
                                       !.created = usec # 0,
                                         !.at = IF usec = 0 THEN "queued" ELSE "armed"]
                 /\ kmsTimer' = [kmsTimer EXCEPT ![t] = r]
    BY <1>9 DEF nvkms_alloc_timer_with_ref_ptr, nvkms_init_timer
  <2>2. r.ref /\ r.at \in Refs
    <3>1. r.ref
      BY <2>1 DEF NoTimer
    <3>2. CASE usec = 0
      BY <2>1, <3>2 DEF NoTimer
    <3>3. CASE usec # 0
      BY <2>1, <3>3 DEF NoTimer
    <3>4. QED BY <3>1, <3>2, <3>3
  <2>3. /\ kmsTimer[t].at = "none" /\ kmsRef.owned
        /\ kmsRef' = [kmsRef EXCEPT !.count = @ + 1]
    BY <1>9, <1>t DEF nvkms_alloc_timer_with_ref_ptr, KmsTimerShape
  <2>4. \A u \in KmsTimer : kmsTimer'[u] = IF u = t THEN r ELSE kmsTimer[u]
    BY <2>1, <1>t
  <2>5. Pending(kmsTimer') = Pending(kmsTimer) \cup {t} /\ t \notin Pending(kmsTimer)
    BY <2>2, <2>3, <2>4 DEF Pending
  <2>6. /\ IsFiniteSet(Pending(kmsTimer'))
        /\ Cardinality(Pending(kmsTimer')) = Cardinality(Pending(kmsTimer)) + 1
    BY <1>p, <2>5, PendingFinite
  <2>a. kmsRef.count \in Nat /\ kmsRef.count + 1 \in Nat
    BY <1>t DEF KmsRefType
  <2>7. /\ kmsRef' \in KmsRefType /\ kmsRef'.count = kmsRef.count + 1
        /\ kmsRef'.owned = kmsRef.owned /\ kmsRef'.used = kmsRef.used
    BY <1>t, <2>3, <2>a DEF KmsRefType
  <2>8. kmsRef.used
    BY <1>p, <2>3 DEF One_if
  <2>9. QED BY <1>p, <2>6, <2>7, <2>8 DEF Kept, KmsRefShape, KmsRefType, One_if
<1>10. ASSUME NEW t \in KmsTimer, NEW r, kmsTimer' = [kmsTimer EXCEPT ![t] = r],
             r.at \notin Refs, kmsTimer[t].at \in Refs,
             IF kmsTimer[t].ref THEN nvkms_dec_ref ELSE UNCHANGED kmsRef
      PROVE  Kept
  <2>1. \A u \in KmsTimer : kmsTimer'[u] = IF u = t THEN r ELSE kmsTimer[u]
    BY <1>10, <1>t
  <2>2. CASE ~kmsTimer[t].ref
    <3>1. Pending(kmsTimer') = Pending(kmsTimer)
      BY <1>10, <2>1, <2>2 DEF Pending
    <3>2. QED BY <1>10, <1>b, <2>2, <3>1 DEF Same
  <2>3. CASE kmsTimer[t].ref
    <3>1. Pending(kmsTimer') = Pending(kmsTimer) \ {t} /\ t \in Pending(kmsTimer)
      BY <1>10, <2>1, <2>3 DEF Pending
    <3>2. /\ IsFiniteSet(Pending(kmsTimer'))
          /\ Cardinality(Pending(kmsTimer')) = Cardinality(Pending(kmsTimer)) - 1
          /\ Cardinality(Pending(kmsTimer')) \in Nat
      BY <1>p, <3>1, PendingFinite, FS_CardinalityType
    <3>3. kmsRef' = [kmsRef EXCEPT !.count = @ - 1]
      BY <1>10, <2>3 DEF nvkms_dec_ref
    <3>4. kmsRef.count > 0 /\ kmsRef.used
      BY <1>p, <1>t, <3>2 DEF One_if, KmsRefType
    <3>a. kmsRef.count \in Nat /\ kmsRef.count - 1 \in Nat
      BY <1>t, <3>4 DEF KmsRefType
    <3>5. /\ kmsRef' \in KmsRefType /\ kmsRef'.count = kmsRef.count - 1
          /\ kmsRef'.owned = kmsRef.owned /\ kmsRef'.used = kmsRef.used
      BY <1>t, <3>3, <3>a DEF KmsRefType
    <3>6. QED BY <1>p, <3>2, <3>4, <3>5 DEF Kept, KmsRefShape, KmsRefType, One_if
  <2>4. QED BY <2>2, <2>3
<1>11. ASSUME NEW t \in KmsTimer, WorkCalls(t)
      PROVE  Kept
  <2>1. PICK c \in BOOLEAN :
           kmsTimer' = [kmsTimer EXCEPT ![t].cancel = c, ![t].at = IF c THEN "end" ELSE "proc"]
    BY <1>11 DEF WorkCalls
  <2> DEFINE r == [kmsTimer[t] EXCEPT !.cancel = c, !.at = IF c THEN "end" ELSE "proc"]
  <2>2. r.at \notin Refs
    <3>1. CASE c
      BY <1>t, <3>1 DEF KmsTimerType
    <3>2. CASE ~c
      BY <1>t, <3>2 DEF KmsTimerType
    <3>3. QED BY <3>1, <3>2
  <2>3. kmsTimer' = [kmsTimer EXCEPT ![t] = r]
    BY ONLY <2>1, <1>t DEF KmsTimerType
  <2> HIDE DEF r
  <2>4. kmsTimer[t].at = "lock" /\ (IF kmsTimer[t].ref THEN nvkms_dec_ref ELSE UNCHANGED kmsRef)
    BY <1>11 DEF WorkCalls
  <2>5. QED BY <1>10, <2>2, <2>3, <2>4
<1>12. ASSUME NEW t \in KmsTimer, ExitDeletes(t)
      PROVE  Kept
  <2> DEFINE r == [kmsTimer[t] EXCEPT !.listed = FALSE, !.at = "none", !.mem = Freed(@)]
  <2>1. /\ kmsTimer' = [kmsTimer EXCEPT ![t] = r] /\ kmsTimer[t].at = "armed"
        /\ IF kmsTimer[t].ref THEN nvkms_dec_ref ELSE UNCHANGED kmsRef
    BY <1>12, <1>t DEF ExitDeletes
  <2>2. r.at = "none"
    BY <1>t DEF KmsTimerType
  <2> HIDE DEF r
  <2>3. QED BY <1>10, <2>1, <2>2
<1>13. ASSUME nvkms_alloc_ref_ptr
      PROVE  Kept
  <2>1. /\ kmsRef' = [count |-> 1, ptr |-> TRUE, owned |-> TRUE, used |-> TRUE]
        /\ UNCHANGED kmsTimer /\ ~kmsRef.used
    BY <1>13 DEF nvkms_alloc_ref_ptr
  <2>2. Cardinality(Pending(kmsTimer)) = 0
    BY <1>p, <2>1 DEF One_if
  <2>3. QED BY <1>p, <2>1, <2>2 DEF Kept, KmsRefShape, KmsRefType, One_if
<1>14. ASSUME kmsRef.owned,
              kmsRef' = [kmsRef EXCEPT !.ptr = FALSE, !.owned = FALSE, !.count = @ - 1], Same
      PROVE  Kept
  <2>1. kmsRef.count > 0 /\ kmsRef.used
    BY <1>14, <1>p, <1>t DEF One_if, KmsRefType
  <2>a. kmsRef.count \in Nat /\ kmsRef.count - 1 \in Nat
    BY <1>t, <2>1 DEF KmsRefType
  <2>2. kmsRef' \in KmsRefType
    BY <1>14, <1>t, <2>a DEF KmsRefType
  <2>3. kmsRef'.count = kmsRef.count - 1 /\ ~kmsRef'.owned /\ kmsRef'.used = kmsRef.used
    BY <1>14, <1>t, <2>a DEF KmsRefType
  <2>4. QED BY <1>14, <1>p, <1>t, <2>1, <2>2, <2>3 DEF Kept, KmsRefShape, KmsRefType, One_if,
          Same
<1>15. ASSUME nvkms_free_ref_ptr
      PROVE  Kept
  BY <1>15, <1>14, <1>s DEF nvkms_free_ref_ptr
<1>16. ASSUME nvKmsModuleUnload
      PROVE  Kept
  <2>1. Same
    BY <1>16, <1>6 DEF nvKmsModuleUnload
  <2>2. kmsRef' = [kmsRef EXCEPT !.ptr = FALSE, !.owned = FALSE, !.count = IF kmsRef.owned THEN @ - 1 ELSE @]
    BY <1>16 DEF nvKmsModuleUnload
  <2>3. CASE kmsRef.owned
    BY <1>14, <2>1, <2>2, <2>3
  <2>4. CASE ~kmsRef.owned
    <3>1. kmsRef' \in KmsRefType
      BY <1>t, <2>2, <2>4 DEF KmsRefType
    <3>2. kmsRef'.count = kmsRef.count /\ ~kmsRef'.owned /\ kmsRef'.used = kmsRef.used
      BY <1>t, <2>2, <2>4 DEF KmsRefType
    <3>3. QED BY <1>p, <2>1, <2>4, <3>1, <3>2 DEF Kept, KmsRefShape, One_if, Same
  <2>5. QED BY <2>3, <2>4
<1>17. ASSUME nvkms_open_gpu \/ nvkms_close_gpu \/ nvkms_init \/ ExitFlushes \/ nvkms_exit
              \/ UNCHANGED kmsVars
      PROVE  Kept
  BY <1>17, <1>b, <1>s DEF kmsVars, nvkms_open_gpu, nvkms_close_gpu, nvkms_init, ExitFlushes,
     nvkms_exit
<1>18. ASSUME NEW o \in KmsOpen,
             \/ \E type \in {"user", "kernel"} : nvkms_open_common(o, type)
             \/ \E e \in BOOLEAN : nvkms_event_queue_changed(o, e)
             \/ EventWorkStarts(o) \/ nvkms_kapi_event_work_queue_callback(o)
               \/ nvkms_close_common(o) \/ CloseFrees(o)
      PROVE  Kept
  BY <1>18, <1>b, <1>s DEF nvkms_open_common, nvkms_event_queue_changed, EventWorkStarts,
     nvkms_kapi_event_work_queue_callback, nvkms_close_common, CloseFrees
<1> HIDE DEF KmsInv
<1>19. QED
  BY <1>1, <1>2, <1>3, <1>4, <1>5, <1>6, <1>7, <1>8, <1>9, <1>10, <1>11, <1>12, <1>13, <1>14,
     <1>15, <1>16, <1>17, <1>18
  DEF KmsNext

LEMMA KmsPhaseStep ==
    KmsInv /\ [KmsNext]_kmsVars => kms' \in KmsStateType /\ kmsSetup' = kmsSetup
      /\ KmsPhaseShape'
<1> DEFINE Kept == kms' \in KmsStateType /\ kmsSetup' = kmsSetup /\ KmsPhaseShape'
<1> SUFFICES ASSUME KmsInv, [KmsNext]_kmsVars
             PROVE  Kept
  OBVIOUS
<1>t. /\ kms \in KmsStateType /\ kmsTimer \in [KmsTimer -> KmsTimerType] /\ KmsPhaseShape
      /\ KmsTimer \cap KmsOpen = {}
  BY KmsAssumption DEF KmsInv, KmsTypeOK
<1>k. KmsTimersKept
  BY KmsTimersStep
<1>s. \A t \in KmsTimer : /\ KmsTimerShape(kmsTimer[t]) /\ kmsTimer[t] \in KmsTimerType
                          /\ kms.lock = t <=> kmsTimer[t].at \in {"proc", "end"}
  BY <1>t DEF KmsInv
<1>l. ~(InCore /\ kms.phase # "live") /\ (KmsLive => kms.phase = "live")
  BY DEF InCore, KmsLive
\* A step of another part, or of the core while it is live.
<1>a. ASSUME kmsSetup' = kmsSetup, kms' \in KmsStateType,
             kms'.phase = kms.phase, kms'.callbacks = kms.callbacks,
             \A t \in KmsTimer : t \in kms.flush
               /\ kmsTimer'[t].mem = "live" => t \in kms'.flush,
             kms'.asked = kms.asked /\ kms'.held = kms.held,
             kmsRef'.owned => kmsRef.owned \/ kms.phase = "live"
      PROVE  Kept
  BY <1>a, <1>t, <1>k DEF KmsPhaseShape, KmsTimersKept
<1>b. ASSUME kmsSetup' = kmsSetup, kms' = kms,
             kmsRef'.owned => kmsRef.owned \/ kms.phase = "live"
      PROVE  Kept
  BY <1>a, <1>b, <1>t
<1> HIDE DEF Kept
<1>1. ASSUME NEW t \in KmsTimer,
             \/ \E usec \in {0, 1} : nvkms_alloc_timer(t, usec)
             \/ nvkms_free_timer(t) \/ nvkms_timer_callback(t) \/ WorkUnlists(t)
               \/ WorkDelTimer(t) \/ WorkReturns(t)
      PROVE  Kept
  BY <1>1, <1>b DEF nvkms_alloc_timer, nvkms_free_timer, nvkms_timer_callback, WorkUnlists,
     WorkDelTimer, WorkReturns
<1>2. ASSUME NEW t \in KmsTimer, NEW usec \in {0, 1}, nvkms_alloc_timer_with_ref_ptr(t, usec)
      PROVE  Kept
  BY <1>2, <1>b DEF nvkms_alloc_timer_with_ref_ptr, KmsLive
<1>3. ASSUME NEW t \in KmsTimer, WorkCalls(t)
      PROVE  Kept
  <2>1. kms' = [kms EXCEPT !.lock = t] /\ kmsSetup' = kmsSetup
          /\ (kmsRef' = kmsRef \/ nvkms_dec_ref)
    BY <1>3 DEF WorkCalls
  <2>2. /\ kms' \in KmsStateType /\ kms'.phase = kms.phase /\ kms'.callbacks = kms.callbacks
        /\ kms'.flush = kms.flush /\ kms'.asked = kms.asked /\ kms'.held = kms.held
    BY <2>1, <1>t DEF KmsStateType
  <2>3. kmsRef'.owned = kmsRef.owned
    BY <2>1 DEF nvkms_dec_ref, KmsInv, KmsTypeOK, KmsRefType
  <2>4. QED BY <1>a, <2>1, <2>2, <2>3
<1>4. ASSUME NEW t \in KmsTimer, nvkms_workqueue_callback(t)
      PROVE  Kept
  <2>1. /\ kms' = [kms EXCEPT !.lock = KmsNone, !.flush = @ \ {t}]
        /\ kmsSetup' = kmsSetup /\ kmsRef' = kmsRef /\ kmsTimer[t].at = "end"
        /\ kmsTimer' = [kmsTimer EXCEPT ![t].at = "none",
                                        ![t].mem = IF kmsTimer[t].ref
                                          \/ kmsTimer[t].cancel THEN Freed(@) ELSE @]
    BY <1>4 DEF nvkms_workqueue_callback
  <2>2. /\ kms' \in KmsStateType /\ kms'.phase = kms.phase /\ kms'.callbacks = kms.callbacks
        /\ kms'.flush = kms.flush \ {t} /\ kms'.asked = kms.asked /\ kms'.held = kms.held
    BY <2>1, <1>t DEF KmsStateType
  <2>3. CASE kms.phase # "flushing"
    BY <1>t, <1>k, <2>1, <2>2, <2>3 DEF KmsPhaseShape, KmsTimersKept, Kept
  <2>4. CASE kms.phase = "flushing"
    <3>1. kmsTimer[t].ref \/ kmsTimer[t].cancel
      BY <2>1, <2>4, <1>t, <1>s DEF KmsPhaseShape, KmsTimerShape, KmsTimerType
    <3>2. kmsTimer[t].mem = "live"
      BY <2>1, <1>s DEF KmsTimerShape
    <3>3. kmsTimer' = [kmsTimer EXCEPT ![t].at = "none", ![t].mem = "freed"]
      BY ONLY <2>1, <3>1, <3>2, <1>t DEF Freed, KmsTimerType
    <3>4. kmsTimer'[t].mem = "freed"
      BY <3>3, <1>t DEF KmsTimerType
    <3>5. QED BY <1>a, <2>1, <2>2, <3>4
  <2>5. QED BY <2>3, <2>4
<1>5. ASSUME NEW t \in KmsTimer, ExitDeletes(t)
      PROVE  Kept
  <2>1. kms' = kms /\ kmsSetup' = kmsSetup /\ (kmsRef' = kmsRef \/ nvkms_dec_ref)
    BY <1>5 DEF ExitDeletes
  <2>2. kmsRef'.owned = kmsRef.owned
    BY <2>1 DEF nvkms_dec_ref, KmsInv, KmsTypeOK, KmsRefType
  <2>3. QED BY <1>b, <2>1, <2>2
<1>6. ASSUME nvkms_alloc_ref_ptr \/ nvkms_free_ref_ptr
      PROVE  Kept
  BY <1>6, <1>b, <1>l DEF nvkms_alloc_ref_ptr, nvkms_free_ref_ptr
<1>7. ASSUME NEW o \in KmsOpen,
             \/ \E type \in {"user", "kernel"} : nvkms_open_common(o, type)
             \/ \E e \in BOOLEAN : nvkms_event_queue_changed(o, e)
             \/ EventWorkStarts(o) \/ nvkms_close_common(o) \/ CloseFrees(o)
      PROVE  Kept
  BY <1>7, <1>b DEF nvkms_open_common, nvkms_event_queue_changed, EventWorkStarts,
     nvkms_close_common, CloseFrees
<1>8. ASSUME NEW o \in KmsOpen, nvkms_kapi_event_work_queue_callback(o)
      PROVE  Kept
  <2>1. PICK f \in {kms.flush, kms.flush \ {o}} : kms' = [kms EXCEPT !.flush = f]
    BY <1>8 DEF nvkms_kapi_event_work_queue_callback
  <2>2. UNCHANGED <<kmsTimer, kmsRef, kmsSetup>>
    BY <1>8 DEF nvkms_kapi_event_work_queue_callback
  <2>3. /\ kms' \in KmsStateType /\ kms'.phase = kms.phase /\ kms'.callbacks = kms.callbacks
        /\ kms'.flush = f /\ kms'.asked = kms.asked /\ kms'.held = kms.held
    BY <2>1, <1>t DEF KmsStateType
  <2>4. QED BY <1>a, <1>t, <2>2, <2>3
<1>9. ASSUME nvkms_open_gpu \/ nvkms_close_gpu
      PROVE  Kept
  <2>1. UNCHANGED <<kmsTimer, kmsRef, kmsSetup>> /\ kms.phase = "live"
    BY <1>9, <1>l DEF nvkms_open_gpu, nvkms_close_gpu
  <2>2. kms.asked \in Nat /\ kms.held \in Nat /\ kms.held >= kms.asked
    BY <1>t DEF KmsStateType, KmsPhaseShape
  <2>3. kmsSetup.fails \/ kms.held = kms.asked
    BY <1>t DEF KmsPhaseShape
  <2>4. ASSUME NEW a \in Nat, NEW h \in Nat, kms' = [kms EXCEPT !.asked = a, !.held = h],
               h >= a, kmsSetup.fails \/ h = a
        PROVE  Kept
    <3>1. /\ kms' \in KmsStateType /\ kms'.phase = "live" /\ kms'.asked = a /\ kms'.held = h
      BY <2>1, <2>4, <1>t DEF KmsStateType
    <3>2. QED BY <2>1, <2>4, <3>1 DEF KmsPhaseShape, Kept
  <2>5. CASE kms' = [kms EXCEPT !.asked = @ + 1, !.held = @ + 1]
    <3>1. /\ kms.asked + 1 \in Nat /\ kms.held + 1 \in Nat /\ kms.held + 1 >= kms.asked + 1
          /\ kmsSetup.fails \/ kms.held + 1 = kms.asked + 1
      BY <2>2, <2>3
    <3>2. kms' = [kms EXCEPT !.asked = kms.asked + 1, !.held = kms.held + 1]
      BY <2>5, <1>t DEF KmsStateType
    <3>3. QED BY <2>4, <3>1, <3>2
  <2>6. CASE kms.asked > 0 /\ kms' = [kms EXCEPT !.asked = @ - 1, !.held = @ - 1]
    <3>1. /\ kms.asked - 1 \in Nat /\ kms.held - 1 \in Nat /\ kms.held - 1 >= kms.asked - 1
          /\ kmsSetup.fails \/ kms.held - 1 = kms.asked - 1
      BY <2>2, <2>3, <2>6
    <3>2. kms' = [kms EXCEPT !.asked = kms.asked - 1, !.held = kms.held - 1]
      BY <2>6, <1>t DEF KmsStateType
    <3>3. QED BY <2>4, <3>1, <3>2
  <2>7. CASE kms.asked > 0 /\ kmsSetup.fails /\ kms' = [kms EXCEPT !.asked = @ - 1]
    <3>1. kms.asked - 1 \in Nat /\ kms.held >= kms.asked - 1
      BY <2>2, <2>7
    <3>2. kms' = [kms EXCEPT !.asked = kms.asked - 1, !.held = kms.held]
      BY <2>7, <1>t DEF KmsStateType
    <3>3. QED BY <2>2, <2>4, <2>7, <3>1, <3>2
  <2>8. QED BY <1>9, <2>5, <2>6, <2>7 DEF nvkms_open_gpu, nvkms_close_gpu
<1>10. ASSUME nvkms_init
      PROVE  Kept
  <2>1. UNCHANGED <<kmsTimer, kmsRef, kmsSetup>> /\ kms.phase = "unloaded"
    BY <1>10 DEF nvkms_init
  <2>2. CASE kms' = [kms EXCEPT !.phase = "live", !.callbacks = TRUE]
    <3>1. kms' \in KmsStateType /\ kms'.phase = "live" /\ kms'.asked = kms.asked
            /\ kms'.held = kms.held
      BY <1>t, <2>2 DEF KmsStateType
    <3>2. QED BY <1>t, <2>1, <3>1 DEF KmsPhaseShape, Kept
  <2>3. CASE kmsSetup.unregistered /\ kms' = [kms EXCEPT !.callbacks = TRUE]
    <3>1. kms' \in KmsStateType /\ kms'.phase = kms.phase /\ kms'.asked = kms.asked
            /\ kms'.held = kms.held
      BY <1>t, <2>3 DEF KmsStateType
    <3>2. QED BY <1>t, <2>1, <2>3, <3>1 DEF KmsPhaseShape, Kept
  <2>4. QED BY <1>10, <2>2, <2>3 DEF nvkms_init
<1>11. ASSUME nvKmsModuleUnload
      PROVE  Kept
  <2>1. /\ kms' = [kms EXCEPT !.phase = "draining", !.asked = 0, !.held = @ - kms.asked]
        /\ kmsSetup' = kmsSetup /\ kms.phase = "live"
        /\ kmsRef' = [kmsRef EXCEPT !.ptr = FALSE, !.owned = FALSE, !.count = IF kmsRef.owned THEN @ - 1 ELSE @]
    BY <1>11, <1>l DEF nvKmsModuleUnload
  <2>2. \A t \in KmsTimer : ~kmsTimer'[t].handle
    BY <1>11, <1>t DEF nvKmsModuleUnload, Release, KmsTimerType
  <2>3. ~kmsRef'.owned
    BY <2>1 DEF KmsInv, KmsTypeOK, KmsRefType
  <2>4. kms.held \in Nat /\ kms.asked \in Nat /\ kms.held >= kms.asked
          /\ kms.held - kms.asked \in Nat
    BY <1>t DEF KmsStateType, KmsPhaseShape
  <2>5. /\ kms' \in KmsStateType /\ kms'.phase = "draining" /\ kms'.asked = 0
        /\ kms'.held = kms.held - kms.asked
    BY <1>t, <2>1, <2>4 DEF KmsStateType
  <2>6. kmsSetup.fails \/ kms.held = kms.asked
    BY <1>t DEF KmsPhaseShape
  <2>7. QED BY <2>1, <2>2, <2>3, <2>4, <2>5, <2>6 DEF KmsPhaseShape, Kept
<1>12. ASSUME ExitFlushes
      PROVE  Kept
  <2>1. /\ kms' = [kms EXCEPT !.phase = "flushing", !.flush = Scheduled]
        /\ UNCHANGED <<kmsTimer, kmsRef, kmsSetup>> /\ kms.phase = "draining"
        /\ \A t \in KmsTimer : kmsTimer[t].listed => kmsTimer[t].at # "armed"
    BY <1>12 DEF ExitFlushes
  <2>2. /\ kms' \in KmsStateType /\ kms'.phase = "flushing" /\ kms'.flush = Scheduled
        /\ kms'.asked = kms.asked /\ kms'.held = kms.held
    BY <1>t, <2>1 DEF KmsStateType, Scheduled
  <2>3. ASSUME NEW t \in KmsTimer, kmsTimer[t].mem = "live"
        PROVE  t \in Scheduled
    <3>1. ~kmsTimer[t].handle
      BY <1>t, <2>1 DEF KmsPhaseShape
    <3>2. kmsTimer[t].at # "none" /\ kmsTimer[t].at # "armed"
      BY <1>s, <2>1, <2>3, <3>1 DEF KmsTimerShape
    <3>3. QED BY <3>2 DEF Scheduled
  <2>4. QED BY <1>t, <2>1, <2>2, <2>3 DEF KmsPhaseShape, Kept
<1>13. ASSUME nvkms_exit
      PROVE  Kept
  <2>1. /\ kms' = [kms EXCEPT !.phase = "unloaded", !.callbacks = FALSE]
        /\ UNCHANGED <<kmsTimer, kmsRef, kmsSetup>> /\ kms.phase = "flushing" /\ kms.flush = {}
    BY <1>13 DEF nvkms_exit
  <2>2. /\ kms' \in KmsStateType /\ kms'.phase = "unloaded" /\ kms'.callbacks = FALSE
        /\ kms'.asked = kms.asked /\ kms'.held = kms.held
    BY <1>t, <2>1 DEF KmsStateType
  <2>3. QED BY <1>t, <2>1, <2>2 DEF KmsPhaseShape, Kept
<1>14. CASE UNCHANGED kmsVars
  BY <1>14, <1>b DEF kmsVars
<1> HIDE DEF KmsInv
<1>15. QED
  BY <1>1, <1>2, <1>3, <1>4, <1>5, <1>6, <1>7, <1>8, <1>9, <1>10, <1>11, <1>12, <1>13, <1>14
  DEF KmsNext

LEMMA KmsStepInv == KmsInv /\ [KmsNext]_kmsVars => KmsInv'
<1> SUFFICES ASSUME KmsInv, [KmsNext]_kmsVars
             PROVE  KmsInv'
  OBVIOUS
<1>1. KmsTimersKept /\ kmsSetup \in KmsSetups
  BY KmsTimersStep DEF KmsInv, KmsTypeOK
<1>2. kmsOpen' \in [KmsOpen -> KmsOpenType] /\ \A o \in KmsOpen : KmsOpenShape(kmsOpen'[o])
  BY KmsOpensStep
<1>3. kmsRef' \in KmsRefType /\ KmsRefShape'
  BY KmsRefsStep
<1>4. kms' \in KmsStateType /\ kmsSetup' = kmsSetup /\ KmsPhaseShape'
  BY KmsPhaseStep
<1>5. QED BY <1>1, <1>2, <1>3, <1>4 DEF KmsInv, KmsTypeOK, KmsTimersKept

(***************************************************************************)
(* For any number of timers, clients and references: nvidia-modeset.ko     *)
(* frees a timer once, after everyone has let go of it, keeps a reference  *)
(* pointer for exactly the timers that will use it, never runs the work of *)
(* a freed client, and leaves nothing behind when it is unloaded.          *)
(***************************************************************************)
THEOREM NothingRunsUnloaded == KmsSpec => []ModesetExact
<1>1. ASSUME KmsInv
      PROVE  TimersExact
  <2>1. \A t \in KmsTimer : kmsTimer[t] \in KmsTimerType /\ KmsTimerShape(kmsTimer[t])
    BY <1>1 DEF KmsInv, KmsTypeOK
  <2>2. KmsRefShape
    BY <1>1 DEF KmsInv
  <2>3. QED BY <2>1, <2>2 DEF TimersExact, KmsTimerType, KmsTimerShape, KmsRefShape, Pending,
          One_if
<1>2. ASSUME KmsInv
      PROVE  UnloadedRunsNothing
  <2>1. \A o \in KmsOpen : kmsOpen[o] \in KmsOpenType /\ KmsOpenShape(kmsOpen[o])
    BY <1>2 DEF KmsInv, KmsTypeOK
  <2>2. \A o \in KmsOpen : /\ kmsOpen[o].mem # "live" => ~kmsOpen[o].queued
                                /\ ~kmsOpen[o].running
                           /\ kmsOpen[o].mem # "broken"
    BY <2>1 DEF KmsOpenType, KmsOpenShape
  <2>3. ASSUME kms.phase = "unloaded"
        PROVE  /\ \A t \in KmsTimer : kmsTimer[t].mem # "live"
               /\ kmsRef.count = 0 /\ kms.lock = KmsNone
               /\ kmsSetup.fails \/ kms.held = 0
               /\ kmsSetup.unregistered \/ ~kms.callbacks
    <3>1. /\ \A t \in KmsTimer : kmsTimer[t].mem # "live"
          /\ kmsSetup.unregistered \/ ~kms.callbacks
          /\ kmsSetup.fails \/ kms.held = 0
          /\ ~kmsRef.owned
      BY <1>2, <2>3 DEF KmsInv, KmsPhaseShape
    <3>2. \A t \in KmsTimer : kmsTimer[t].at = "none" /\ kms.lock # t
      BY <1>2, <3>1 DEF KmsInv, KmsTimerShape
    <3>3. Pending(kmsTimer) = {}
      BY <3>2 DEF Pending
    <3>4. kmsRef.count = 0
      BY <1>2, <3>1, <3>3, FS_EmptySet DEF KmsInv, KmsRefShape, One_if
    <3>5. kms.lock = KmsNone
      BY <1>2, <3>2 DEF KmsInv, KmsTypeOK, KmsStateType
    <3>6. QED BY <3>1, <3>4, <3>5
  <2>4. QED BY <2>2, <2>3 DEF UnloadedRunsNothing
<1>3. QED BY <1>1, <1>2, KmsInitInv, KmsStepInv, PTL DEF KmsSpec, ModesetExact


(***************************************************************************)
(* nvidia-drm.ko's displays.                                               *)
(***************************************************************************)
DrmEvents == ({"display"} \X DrmDisplay) \union {<<"flip", DrmNone>>}
DrmDevType ==
    [phase : {"none", "up", "unloaded"}, kapi : BOOLEAN, enabled : BOOLEAN, interest : BOOLEAN,
     posted : SUBSET DrmEvents, master : BOOLEAN, owner : BOOLEAN, oops : BOOLEAN]
DrmConf ==
    [mode : DrmTask \union {DrmNone}, display : DrmDisplay \union {DrmNone},
     surface : DrmTask \union {DrmNone}]
DrmCrtcType == [requested : DrmConf, shown : DrmConf, flip : BOOLEAN, pending : BOOLEAN]
DrmTaskType ==
    [at : {"none", "flip", "pending", "apply", "finish", "done", "failed"}, async : BOOLEAN,
     conf : DrmConf]
DrmEncoderType == [added : BOOLEAN, connected : BOOLEAN, edid : 0..DrmMaxEdid]
DrmConnectorType ==
    [added : BOOLEAN, status : BOOLEAN, edid : 0..DrmMaxEdid,
     detected : DrmDisplay \union {DrmNone}, override : BOOLEAN]

\* What the phase says of the device.
DrmDevShape(dev) ==
    /\ dev \in DrmDevType
    /\ dev.kapi <=> dev.phase = "up"
    /\ dev.enabled <=> dev.phase = "up"
    /\ dev.interest <=> dev.phase = "up"
    /\ dev.owner => dev.master
    /\ dev.master => dev.phase = "up"
    /\ ~dev.oops
    /\ dev.phase = "none" => dev.posted = {}

\* A surface is shown on a display only.
DrmLit(conf) == conf \in DrmConf /\ (conf.surface # DrmNone => conf.display # DrmNone)

\* With synchronous commits there is one in its caller; unless one fails, the
\* screen is behind from the swap of the states to the call of NVKMS only.
DrmShownShape ==
    /\ drmCrtc \in DrmCrtcType /\ DrmLit(drmCrtc.requested) /\ DrmLit(drmCrtc.shown)
    /\ drmTask \in [DrmTask -> DrmTaskType] /\ \A t \in DrmTask : DrmLit(drmTask[t].conf)
    /\ drmDev.phase # "up" => \A t \in DrmTask : drmTask[t].at \in {"none", "done", "failed"}
    /\ ~drmSetup.async =>
         /\ \A t \in DrmTask : ~drmTask[t].async
         /\ \A t, u \in DrmTask : InCaller(t) /\ InCaller(u) => t = u
    /\ ~drmSetup.async /\ ~drmSetup.fails =>
         /\ \A t \in DrmTask : drmTask[t].at = "apply" => drmCrtc.requested = drmTask[t].conf
         /\ (\A t \in DrmTask : drmTask[t].at # "apply") => drmCrtc.shown = drmCrtc.requested

\* Each EDID that was read is one encoder's, as long as no pointer to an EDID
\* that was given back is kept.
DrmRefs(out, i) ==
    (IF \E d \in DrmDisplay : out.enc[d].edid = i THEN 1 ELSE 0)
    + (IF out.con.edid = i THEN 1 ELSE 0)
DrmCounted(out) ==
    /\ \A i \in 1..DrmMaxEdid : out.edid[i] = DrmRefs(out, i)
    /\ \A d \in DrmDisplay : /\ out.enc[d].edid <= out.read
                             /\ out.enc[d].edid # 0 => out.enc[d].added
    /\ \A d, e \in DrmDisplay : out.enc[d].edid = out.enc[e].edid
         => out.enc[d].edid = 0 \/ d = e
    /\ out.con.edid <= out.read /\ (out.con.edid # 0 => out.con.added)
DrmSound(out) == ~out.stale => DrmCounted(out)

DrmOutShape(out) ==
    /\ out = [enc |-> out.enc, con |-> out.con, edid |-> out.edid, read |-> out.read,
              plugged |-> out.plugged, stale |-> out.stale]
    /\ out.enc \in [DrmDisplay -> DrmEncoderType] /\ out.con \in DrmConnectorType
    /\ out.read \in 0..DrmMaxEdid /\ out.stale \in BOOLEAN
    /\ DOMAIN out.edid = 1..DrmMaxEdid /\ out.edid = [i \in 1..DrmMaxEdid |-> out.edid[i]]
    /\ \A d \in DrmDisplay : out.enc[d].added => out.con.added

DrmGone(out) == out.enc = [d \in DrmDisplay |-> NoEncoder] /\ out.con = NoConnector

DrmInv ==
    /\ drmSetup \in DrmSetups /\ DrmDevShape(drmDev) /\ DrmShownShape
    /\ DrmOutShape(drmOut) /\ DrmSound(drmOut)
    /\ drmDev.phase # "up" => DrmGone(drmOut)

\* Without outputs there are no references.
LEMMA DrmGoneCounted ==
    ASSUME NEW out, DrmGone(out), out.edid = [i \in 1..DrmMaxEdid |-> 0], out.read \in Nat
    PROVE  DrmCounted(out)
<1>1. \A d \in DrmDisplay : out.enc[d].edid = 0
  BY DEF DrmGone, NoEncoder
<1>2. out.con.edid = 0
  BY DEF DrmGone, NoConnector
<1>3. \A i \in 1..DrmMaxEdid : DrmRefs(out, i) = 0 /\ out.edid[i] = 0
  BY <1>1, <1>2, DrmAssumption DEF DrmRefs
<1> QED
  BY <1>1, <1>2, <1>3 DEF DrmCounted

LEMMA DrmEncoderChanged ==
    ASSUME NEW e \in DrmEncoderType, NEW connected \in BOOLEAN, NEW n \in 0..DrmMaxEdid
    PROVE  /\ [e EXCEPT !.connected = connected, !.edid = n] \in DrmEncoderType
           /\ [e EXCEPT !.connected = connected, !.edid = n].edid = n
           /\ e.added => [e EXCEPT !.connected = connected, !.edid = n].added
BY DEF DrmEncoderType

\* An encoder reads its EDID anew, or gives it back: then its pointer is stale,
\* unless there was none.
LEMMA DrmUpdated ==
    ASSUME NEW out, DrmOutShape(out), NEW d \in DrmDisplay, NEW connected \in BOOLEAN,
           NEW override \in BOOLEAN, out.enc[d].added, connected => out.read < DrmMaxEdid
    PROVE  LET new == update_dynamic_information(out, d, connected, override)
           IN  DrmOutShape(new) /\ (DrmSound(out) => DrmSound(new))
<1> DEFINE old == out.enc[d].edid
           n == out.read + 1
           dropped == edid_unref(out.edid, old)
<1>1. /\ out.enc \in [DrmDisplay -> DrmEncoderType] /\ out.con \in DrmConnectorType
      /\ out.read \in 0..DrmMaxEdid /\ DrmMaxEdid \in Nat /\ out.stale \in BOOLEAN
      /\ DOMAIN out.edid = 1..DrmMaxEdid /\ out.edid = [i \in 1..DrmMaxEdid |-> out.edid[i]]
      /\ \A e \in DrmDisplay : out.enc[e].added => out.con.added
  BY DrmAssumption DEF DrmOutShape
<1>2. /\ old \in 0..DrmMaxEdid
      /\ dropped = [i \in 1..DrmMaxEdid |-> IF old # 0 /\ i = old
                                            THEN IF out.edid[i] = 0 THEN 9 ELSE out.edid[i] - 1
                                            ELSE out.edid[i]]
  <2>1. old \in 0..DrmMaxEdid
    BY <1>1 DEF DrmEncoderType
  <2> HIDE DEF old
  <2>2. CASE old = 0
    BY <1>1, <2>1, <2>2 DEF edid_unref
  <2>3. CASE old # 0
    BY <1>1, <2>1, <2>3 DEF edid_unref
  <2> QED
    BY <2>1, <2>2, <2>3
<1> HIDE DEF dropped
<1>3. CASE connected /\ ~override
  <2> DEFINE e == [out.enc[d] EXCEPT !.connected = TRUE, !.edid = n]
             enc == [out.enc EXCEPT ![d] = e]
             counts == [dropped EXCEPT ![n] = @ + 1]
             new == [enc |-> enc, con |-> out.con, edid |-> counts, read |-> n,
                     plugged |-> out.plugged, stale |-> out.stale]
  <2>1. update_dynamic_information(out, d, connected, override) = new
    BY <1>3 DEF update_dynamic_information, DrmOutShape, edid_ref, dropped
  <2>n. n \in 1..DrmMaxEdid
    BY <1>1, <1>3
  <2>e. out.enc[d] \in DrmEncoderType
    BY <1>1
  <2>2. e \in DrmEncoderType /\ e.edid = n /\ e.added
    <3> HIDE DEF n
    <3>1. n \in 0..DrmMaxEdid /\ TRUE \in BOOLEAN
      BY <2>n
    <3> QED
      BY <2>e, <3>1, DrmEncoderChanged, Zenon
  <2> HIDE DEF e
  <2>3. /\ \A f \in DrmDisplay : enc[f] = IF f = d THEN e ELSE out.enc[f]
        /\ enc \in [DrmDisplay -> DrmEncoderType]
    BY <1>1, <2>2
  <2>4. counts = [i \in 1..DrmMaxEdid |-> IF i = n THEN dropped[i] + 1 ELSE dropped[i]]
    <3> HIDE DEF n
    <3>1. DOMAIN dropped = 1..DrmMaxEdid /\ dropped = [i \in 1..DrmMaxEdid |-> dropped[i]]
      BY <1>2
    <3> QED
      BY <2>n, <3>1
  <2> HIDE DEF enc, counts
  <2>5. DrmOutShape(new)
    BY <1>1, <2>n, <2>2, <2>3, <2>4 DEF DrmOutShape
  <2>6. ASSUME DrmCounted(out)
        PROVE  DrmCounted(new)
    <3>1. /\ \A i \in 1..DrmMaxEdid : out.edid[i] = DrmRefs(out, i)
          /\ \A f \in DrmDisplay : /\ out.enc[f].edid \in 0..out.read
                                   /\ out.enc[f].edid # 0 => out.enc[f].added
          /\ \A f, g \in DrmDisplay : out.enc[f].edid = out.enc[g].edid
               => out.enc[f].edid = 0 \/ f = g
          /\ out.con.edid \in 0..out.read /\ (out.con.edid # 0 => out.con.added)
      BY <1>1, <2>6 DEF DrmCounted, DrmEncoderType, DrmConnectorType
    <3>2. \A i \in 1..DrmMaxEdid : counts[i] = DrmRefs(new, i)
      <4> SUFFICES ASSUME NEW i \in 1..DrmMaxEdid
                   PROVE  counts[i] = DrmRefs(new, i)
        OBVIOUS
      <4>1. out.edid[i] = DrmRefs(out, i)
        BY <3>1
      <4>2. CASE i = n
        <5>1. DrmRefs(out, i) = 0 /\ i # old
          BY <1>1, <3>1, <4>2 DEF DrmRefs
        <5>2. DrmRefs(new, i) = 1
          BY <1>1, <2>2, <2>3, <3>1, <4>2 DEF DrmRefs
        <5> QED
          BY <1>2, <2>4, <4>1, <4>2, <5>1, <5>2
      <4>3. CASE i # n /\ i = old
        <5>1. ~\E f \in DrmDisplay : enc[f].edid = i
          BY <2>2, <2>3, <3>1, <4>3
        <5>2. DrmRefs(new, i) = DrmRefs(out, i) - 1 /\ DrmRefs(out, i) \in {1, 2}
          BY <4>3, <5>1 DEF DrmRefs
        <5>3. counts[i] = dropped[i] /\ old # 0
          BY <2>4, <4>3
        <5>4. dropped[i] = IF out.edid[i] = 0 THEN 9 ELSE out.edid[i] - 1
          BY <1>2, <4>3, <5>3
        <5> QED
          BY <4>1, <5>2, <5>3, <5>4
      <4>4. CASE i # n /\ i # old
        <5>1. (\E f \in DrmDisplay : enc[f].edid = i)
                <=> \E f \in DrmDisplay : out.enc[f].edid = i
          BY <2>2, <2>3, <4>4
        <5>2. DrmRefs(new, i) = DrmRefs(out, i)
          BY <5>1 DEF DrmRefs
        <5> QED
          BY <1>2, <2>4, <4>1, <4>4, <5>2
      <4> QED
        BY <4>2, <4>3, <4>4
    <3>3. \A f \in DrmDisplay : /\ enc[f].edid <= n
                                /\ enc[f].edid # 0 => enc[f].added
      <4> SUFFICES ASSUME NEW f \in DrmDisplay
                   PROVE  /\ enc[f].edid <= n
                          /\ enc[f].edid # 0 => enc[f].added
        OBVIOUS
      <4>1. CASE f = d
        <5>1. enc[f] = e
          BY <2>3, <4>1
        <5>2. e.edid = n /\ e.added /\ n <= n
          BY <2>2, <2>n
        <5> QED
          BY <4>1, <5>1, <5>2, Zenon
      <4>2. CASE f # d
        <5>1. enc[f] = out.enc[f] /\ out.enc[f].edid \in 0..out.read
          BY <2>3, <3>1, <4>2
        <5> QED
          BY <1>1, <3>1, <5>1
      <4> QED
        BY <4>1, <4>2
    <3>4. \A f, g \in DrmDisplay : enc[f].edid = enc[g].edid => enc[f].edid = 0 \/ f = g
      BY <1>1, <2>2, <2>3, <3>1
    <3>5. out.con.edid <= n
      BY <1>1, <3>1
    <3> QED
      BY <3>1, <3>2, <3>3, <3>4, <3>5 DEF DrmCounted
  <2> QED
    BY <2>1, <2>5, <2>6 DEF DrmSound
<1>4. CASE ~(connected /\ ~override)
  <2> DEFINE e == [out.enc[d] EXCEPT !.connected = connected]
             enc == [out.enc EXCEPT ![d] = e]
             stale == out.stale \/ old # 0
             new == [enc |-> enc, con |-> out.con, edid |-> dropped, read |-> out.read,
                     plugged |-> out.plugged, stale |-> stale]
  <2>1. update_dynamic_information(out, d, connected, override) = new
    <3>1. update_dynamic_information(out, d, connected, override)
          = [out EXCEPT !.enc[d].connected = connected, !.edid = dropped,
                        !.stale = @ \/ old # 0]
      BY <1>4, Zenon DEF update_dynamic_information, dropped
    <3> HIDE DEF dropped, old
    <3> QED
      BY <3>1 DEF DrmOutShape
  <2>2. e \in DrmEncoderType /\ e.edid = old /\ (e.added <=> out.enc[d].added)
    BY <1>1 DEF DrmEncoderType
  <2> HIDE DEF e
  <2>3. /\ \A f \in DrmDisplay : enc[f] = IF f = d THEN e ELSE out.enc[f]
        /\ enc \in [DrmDisplay -> DrmEncoderType]
    BY <1>1, <2>2
  <2>4. stale \in BOOLEAN /\ (~stale => ~out.stale /\ old = 0)
    BY <1>1
  <2> HIDE DEF enc, stale
  <2>5. DrmOutShape(new)
    BY <1>1, <1>2, <2>2, <2>3, <2>4 DEF DrmOutShape
  <2>6. ASSUME DrmCounted(out), old = 0
        PROVE  DrmCounted(new)
    <3>2. dropped = out.edid
      BY <1>1, <1>2, <2>6
    <3>3. \A f \in DrmDisplay : enc[f].edid = out.enc[f].edid
            /\ (enc[f].added <=> out.enc[f].added)
      BY <2>2, <2>3
    <3>4. \A i : DrmRefs(new, i) = DrmRefs(out, i)
      BY <3>3 DEF DrmRefs
    <3> QED
      BY <2>6, <3>2, <3>3, <3>4 DEF DrmCounted
  <2> QED
    BY <2>1, <2>4, <2>5, <2>6 DEF DrmSound
<1> QED
  BY <1>3, <1>4

\* One encoder at most refers to an EDID.
LEMMA DrmHolders ==
    ASSUME NEW out, DrmCounted(out), NEW i \in 1..DrmMaxEdid
    PROVE  LET holders == {d \in DrmDisplay : out.enc[d].added /\ out.enc[d].edid = i}
           IN  /\ holders # {} => Cardinality(holders) = 1
               /\ holders = {} <=> ~\E d \in DrmDisplay : out.enc[d].edid = i
<1> DEFINE holders == {d \in DrmDisplay : out.enc[d].added /\ out.enc[d].edid = i}
<1>1. i # 0
  BY DrmAssumption
<1>2. holders = {} <=> ~\E d \in DrmDisplay : out.enc[d].edid = i
  BY <1>1 DEF DrmCounted
<1>3. \A d, e \in holders : d = e
  BY <1>1 DEF DrmCounted
<1> HIDE DEF holders
<1>4. ASSUME holders # {}
      PROVE  Cardinality(holders) = 1
  <2>1. PICK d : holders = {d}
    BY <1>3, <1>4
  <2> QED
    BY <2>1, FS_Singleton
<1> QED
  BY <1>2, <1>4 DEF holders

\* The first encoder of the connector brings it.
LEMMA DrmAdded ==
    ASSUME NEW out, DrmOutShape(out), NEW d \in DrmDisplay
    PROVE  LET new == [out EXCEPT !.enc[d].added = TRUE, !.con.added = TRUE]
           IN  /\ DrmOutShape(new) /\ new.read = out.read
               /\ new.enc[d].added /\ (DrmSound(out) => DrmSound(new))
<1>c. SUFFICES ASSUME NEW yes \in BOOLEAN, yes
               PROVE  LET new == [out EXCEPT !.enc[d].added = yes, !.con.added = yes]
                      IN  /\ DrmOutShape(new) /\ new.read = out.read
                          /\ new.enc[d].added /\ (DrmSound(out) => DrmSound(new))
  OBVIOUS
<1> DEFINE e == [out.enc[d] EXCEPT !.added = yes]
           enc == [out.enc EXCEPT ![d] = e]
           con == [out.con EXCEPT !.added = yes]
           new == [enc |-> enc, con |-> con, edid |-> out.edid, read |-> out.read,
                   plugged |-> out.plugged, stale |-> out.stale]
<1>1. [out EXCEPT !.enc[d].added = yes, !.con.added = yes] = new
  <2>1. out = [enc |-> out.enc, con |-> out.con, edid |-> out.edid, read |-> out.read,
               plugged |-> out.plugged, stale |-> out.stale]
    BY DEF DrmOutShape
  <2>2. [out EXCEPT !.enc[d].added = yes, !.con.added = yes] = [out EXCEPT !.enc = enc, !.con = con]
    BY <2>1
  <2> HIDE DEF enc, con
  <2>3. PICK changed : changed = [out EXCEPT !.enc = enc, !.con = con]
    OBVIOUS
  <2>4. changed = new
    BY <2>1, <2>3
  <2> QED
    BY <2>2, <2>3, <2>4, Zenon
<1>2. out.enc \in [DrmDisplay -> DrmEncoderType] /\ out.con \in DrmConnectorType
  BY DEF DrmOutShape
<1>3. e \in DrmEncoderType /\ e.edid = out.enc[d].edid /\ e.added = yes
  BY <1>2 DEF DrmEncoderType
<1>4. con \in DrmConnectorType /\ con.edid = out.con.edid /\ con.added = yes
  BY <1>2 DEF DrmConnectorType
<1> HIDE DEF e, con
<1>5. /\ enc \in [DrmDisplay -> DrmEncoderType]
      /\ \A f \in DrmDisplay : enc[f] = IF f = d THEN e ELSE out.enc[f]
  BY <1>2, <1>3
<1> HIDE DEF enc
<1>6. DrmOutShape(new)
  BY <1>4, <1>5, <1>c DEF DrmOutShape
<1>7. new.enc[d].added
  BY <1>3, <1>5, <1>c
<1>8. ASSUME DrmCounted(out)
      PROVE  DrmCounted(new)
  <2>1. \A f \in DrmDisplay : enc[f].edid = out.enc[f].edid
          /\ (out.enc[f].added => enc[f].added)
    BY <1>3, <1>5, <1>c
  <2>2. \A i : DrmRefs(new, i) = DrmRefs(out, i)
    BY <2>1, <1>4 DEF DrmRefs
  <2>3. con.added
    BY <1>4, <1>c
  <2> QED
    BY <1>4, <1>8, <2>1, <2>2, <2>3 DEF DrmCounted
<1> QED
  BY <1>1, <1>6, <1>7, <1>8 DEF DrmSound

\* The connector gives its EDID back and takes that of the encoder it finds,
\* or none if its own is overridden.
LEMMA DrmDetected ==
    ASSUME NEW out, DrmOutShape(out)
    PROVE  LET new == nvidia_connector_detect(out)
           IN  DrmOutShape(new) /\ (DrmSound(out) => DrmSound(new))
<1> DEFINE old == out.con.edid
           counts == edid_unref(out.edid, old)
           found == {d \in DrmDisplay : out.enc[d].added /\ out.enc[d].connected}
<1>1. /\ out.enc \in [DrmDisplay -> DrmEncoderType] /\ out.con \in DrmConnectorType
      /\ out.read \in 0..DrmMaxEdid /\ DrmMaxEdid \in Nat
      /\ DOMAIN out.edid = 1..DrmMaxEdid /\ out.edid = [i \in 1..DrmMaxEdid |-> out.edid[i]]
      /\ \A e \in DrmDisplay : out.enc[e].added => out.con.added
  BY DrmAssumption DEF DrmOutShape
<1>2. /\ old \in 0..DrmMaxEdid
      /\ counts = [i \in 1..DrmMaxEdid |-> IF old # 0 /\ i = old
                                           THEN IF out.edid[i] = 0 THEN 9 ELSE out.edid[i] - 1
                                           ELSE out.edid[i]]
  <2>1. old \in 0..DrmMaxEdid
    BY <1>1 DEF DrmConnectorType
  <2> HIDE DEF old
  <2>2. CASE old = 0
    BY <1>1, <2>1, <2>2 DEF edid_unref
  <2>3. CASE old # 0
    BY <1>1, <2>1, <2>3 DEF edid_unref
  <2> QED
    BY <2>1, <2>2, <2>3
<1> HIDE DEF counts
\* The connector takes the EDID n.
<1>3. ASSUME NEW con \in DrmConnectorType, NEW n \in 0..DrmMaxEdid, con.edid = n,
             con.added = out.con.added, NEW edid,
             edid = [i \in 1..DrmMaxEdid |-> IF i = n THEN counts[i] + 1 ELSE counts[i]],
             n # 0 => \E d \in DrmDisplay : out.enc[d].added /\ out.enc[d].edid = n
      PROVE  LET new == [enc |-> out.enc, con |-> con, edid |-> edid, read |-> out.read,
                         plugged |-> out.plugged, stale |-> out.stale]
             IN  DrmOutShape(new) /\ (DrmSound(out) => DrmSound(new))
  <2> DEFINE new == [enc |-> out.enc, con |-> con, edid |-> edid, read |-> out.read,
                     plugged |-> out.plugged, stale |-> out.stale]
  <2>1. DrmOutShape(new)
    BY <1>1, <1>3 DEF DrmOutShape
  <2>2. ASSUME DrmCounted(out)
        PROVE  DrmCounted(new)
    <3>1. \A i \in 1..DrmMaxEdid : edid[i] = DrmRefs(new, i)
      <4> SUFFICES ASSUME NEW i \in 1..DrmMaxEdid
                   PROVE  edid[i] = DrmRefs(new, i)
        OBVIOUS
      <4> DEFINE encoders == IF \E d \in DrmDisplay : out.enc[d].edid = i THEN 1 ELSE 0
      <4>1. /\ out.edid[i] = encoders + (IF old = i THEN 1 ELSE 0)
            /\ DrmRefs(new, i) = encoders + (IF n = i THEN 1 ELSE 0)
            /\ encoders \in {0, 1}
        BY <1>3, <2>2 DEF DrmCounted, DrmRefs
      <4> HIDE DEF encoders
      <4>2. counts[i] = encoders
        <5>1. CASE old = i
          BY <1>2, <4>1, <5>1
        <5>2. CASE old # i
          BY <1>2, <4>1, <5>2
        <5> QED
          BY <5>1, <5>2
      <4>3. edid[i] = IF i = n THEN counts[i] + 1 ELSE counts[i]
        BY <1>3
      <4> QED
        BY <4>1, <4>2, <4>3
    <3>2. n <= out.read /\ (n # 0 => con.added)
      BY <1>1, <1>3, <2>2 DEF DrmCounted
    <3> QED
      BY <1>3, <2>2, <3>1, <3>2 DEF DrmCounted
  <2> QED
    BY <2>1, <2>2 DEF DrmSound
<1>4. CASE found = {}
  <2>c. SUFFICES ASSUME NEW no \in BOOLEAN, no = FALSE
                 PROVE  LET new == nvidia_connector_detect(out)
                        IN  DrmOutShape(new) /\ (DrmSound(out) => DrmSound(new))
    OBVIOUS
  <2> DEFINE con == [out.con EXCEPT !.edid = 0, !.status = no]
             new == [enc |-> out.enc, con |-> con, edid |-> counts, read |-> out.read,
                     plugged |-> out.plugged, stale |-> out.stale]
  <2>1. nvidia_connector_detect(out) = new
    <3>1. nvidia_connector_detect(out)
          = [out EXCEPT !.edid = counts, !.con.edid = 0, !.con.status = no]
      BY <1>4, <2>c, Zenon DEF nvidia_connector_detect, counts
    <3> QED
      BY <3>1 DEF DrmOutShape
  <2>4. 0 \in 0..DrmMaxEdid /\ ~(0 # 0)
    BY <1>1
  <2>2. con \in DrmConnectorType /\ con.edid = 0 /\ con.added = out.con.added
    BY <1>1, <2>4 DEF DrmConnectorType
  <2> HIDE DEF con
  <2>3. counts = [i \in 1..DrmMaxEdid |-> IF i = 0 THEN counts[i] + 1 ELSE counts[i]]
    BY <1>2
  <2> QED
    BY <1>3, <2>1, <2>2, <2>3, <2>4
<1>5. CASE found # {}
  <2>c. SUFFICES ASSUME NEW yes \in BOOLEAN, yes = TRUE
                 PROVE  LET new == nvidia_connector_detect(out)
                        IN  DrmOutShape(new) /\ (DrmSound(out) => DrmSound(new))
    OBVIOUS
  <2> DEFINE d == CHOOSE x \in found : TRUE
             n == IF out.con.override THEN 0 ELSE out.enc[d].edid
             con == [out.con EXCEPT !.edid = n, !.status = yes, !.detected = d]
             edid == IF n = 0 THEN counts ELSE edid_ref(counts, n)
             new == [enc |-> out.enc, con |-> con, edid |-> edid, read |-> out.read,
                     plugged |-> out.plugged, stale |-> out.stale]
  <2>1. nvidia_connector_detect(out) = new
    <3>1. nvidia_connector_detect(out)
          = [out EXCEPT !.edid = edid, !.con.edid = n, !.con.status = yes, !.con.detected = d]
      BY <1>5, <2>c, Zenon DEF nvidia_connector_detect, counts
    <3> HIDE DEF d, n, edid
    <3> QED
      BY <3>1 DEF DrmOutShape
  <2>2. d \in DrmDisplay /\ out.enc[d].added
    BY <1>5
  <2> HIDE DEF d
  <2>3. n \in 0..DrmMaxEdid
    BY <1>1, <2>2, DrmAssumption DEF DrmEncoderType
  <2>4. edid = [i \in 1..DrmMaxEdid |-> IF i = n THEN counts[i] + 1 ELSE counts[i]]
    <3> HIDE DEF n
    <3>1. DOMAIN counts = 1..DrmMaxEdid /\ counts = [i \in 1..DrmMaxEdid |-> counts[i]]
      BY <1>2
    <3>2. CASE n = 0
      BY <1>1, <3>1, <3>2
    <3>3. CASE n # 0
      BY <2>3, <3>1, <3>3 DEF edid_ref
    <3> QED
      BY <3>2, <3>3
  <2>5. n # 0 => \E x \in DrmDisplay : out.enc[x].added /\ out.enc[x].edid = n
    BY <2>2
  <2> HIDE DEF n, edid
  <2>6. con \in DrmConnectorType /\ con.edid = n /\ con.added = out.con.added
    BY <1>1, <2>2, <2>3 DEF DrmConnectorType
  <2> HIDE DEF con
  <2> QED
    BY <1>3, <2>1, <2>3, <2>4, <2>5, <2>6
<1> QED
  BY <1>4, <1>5

\* The destructors leave no reference.
LEMMA DrmDestroyed ==
    ASSUME NEW out, DrmOutShape(out)
    PROVE  LET new == DestroyOutputs(out)
           IN  DrmOutShape(new) /\ DrmGone(new) /\ (DrmSound(out) => DrmSound(new))
<1> DEFINE holders(i) == {e \in DrmDisplay : out.enc[e].added /\ out.enc[e].edid = i}
           encoders == [i \in DOMAIN out.edid |->
                           IF holders(i) = {} THEN out.edid[i]
                           ELSE IF out.edid[i] = 0 THEN 9
                           ELSE out.edid[i] - Cardinality(holders(i))]
           old == out.con.edid
           edid == edid_unref(encoders, old)
           new == [enc |-> [d \in DrmDisplay |-> NoEncoder], con |-> NoConnector, edid |-> edid,
                   read |-> out.read, plugged |-> out.plugged, stale |-> out.stale]
<1>1. DestroyOutputs(out) = new
  <2>1. DestroyOutputs(out)
        = [NoOutputs EXCEPT !.edid = edid, !.read = out.read, !.plugged = out.plugged,
                            !.stale = out.stale]
    BY Zenon DEF DestroyOutputs
  <2> HIDE DEF edid
  <2> QED
    BY <2>1 DEF NoOutputs
<1>2. /\ DOMAIN out.edid = 1..DrmMaxEdid /\ old \in 0..DrmMaxEdid /\ DrmMaxEdid \in Nat
      /\ out.read \in 0..DrmMaxEdid /\ out.stale \in BOOLEAN
  BY DrmAssumption DEF DrmOutShape, DrmConnectorType
<1>3. /\ DOMAIN encoders = 1..DrmMaxEdid
      /\ \A i \in 1..DrmMaxEdid :
            encoders[i] = IF holders(i) = {} THEN out.edid[i]
                          ELSE IF out.edid[i] = 0 THEN 9
                          ELSE out.edid[i] - Cardinality(holders(i))
  BY <1>2
<1> HIDE DEF encoders
<1>4. /\ DOMAIN edid = 1..DrmMaxEdid /\ edid = [i \in 1..DrmMaxEdid |-> edid[i]]
      /\ \A i \in 1..DrmMaxEdid :
            edid[i] = IF i = old THEN IF encoders[i] = 0 THEN 9 ELSE encoders[i] - 1 ELSE encoders[i]
  <2>1. encoders = [i \in 1..DrmMaxEdid |-> encoders[i]]
    BY <1>3 DEF encoders
  <2>2. CASE old = 0
    BY <1>2, <1>3, <2>1, <2>2 DEF edid_unref
  <2>3. CASE old # 0
    BY <1>2, <1>3, <2>1, <2>3 DEF edid_unref
  <2> QED
    BY <2>2, <2>3
<1> HIDE DEF edid
<1>5. NoEncoder \in DrmEncoderType /\ ~NoEncoder.added /\ NoConnector \in DrmConnectorType
  BY <1>2 DEF NoEncoder, DrmEncoderType, NoConnector, DrmConnectorType
<1>6. DrmOutShape(new) /\ DrmGone(new)
  <2>1. /\ new.enc \in [DrmDisplay -> DrmEncoderType]
        /\ \A d \in DrmDisplay : ~new.enc[d].added
    BY <1>5
  <2> QED
    BY <1>2, <1>4, <1>5, <2>1 DEF DrmOutShape, DrmGone
<1>7. ASSUME DrmCounted(out)
      PROVE  DrmCounted(new)
  <2>1. ASSUME NEW i \in 1..DrmMaxEdid
        PROVE  edid[i] = 0
    <3>1. out.edid[i] = (IF holders(i) = {} THEN 0 ELSE 1) + (IF old = i THEN 1 ELSE 0)
      BY <1>7 DEF DrmCounted, DrmRefs
    <3>2. holders(i) # {} => Cardinality(holders(i)) = 1
      BY <1>7, DrmHolders
    <3>3. encoders[i] = IF old = i THEN 1 ELSE 0
      BY <1>3, <3>1, <3>2
    <3> QED
      BY <1>4, <3>3
  <2>2. edid = [i \in 1..DrmMaxEdid |-> 0]
    BY <1>4, <2>1
  <2>3. new.read \in Nat /\ new.edid = edid
    BY <1>2
  <2> QED
    BY <1>6, <2>2, <2>3, DrmGoneCounted
<1> QED
  BY <1>1, <1>6, <1>7 DEF DrmSound

LEMMA DrmNoOutputs ==
    ASSUME NEW out, NEW plugged, out = [NoOutputs EXCEPT !.plugged = plugged]
    PROVE  /\ DrmOutShape(out) /\ DrmGone(out) /\ out.edid = [i \in 1..DrmMaxEdid |-> 0]
           /\ out.read = 0
<1>1. /\ out.stale = FALSE
      /\ out.enc = [d \in DrmDisplay |-> NoEncoder] /\ out.con = NoConnector /\ out.read = 0
      /\ out.edid = [i \in 1..DrmMaxEdid |-> 0]
      /\ out = [enc |-> out.enc, con |-> out.con, edid |-> out.edid, read |-> out.read,
                plugged |-> out.plugged, stale |-> out.stale]
  BY DEF NoOutputs
<1>2. NoEncoder \in DrmEncoderType /\ ~NoEncoder.added
  BY DrmAssumption DEF NoEncoder, DrmEncoderType
<1>3. NoConnector \in DrmConnectorType
  BY DrmAssumption DEF NoConnector, DrmConnectorType
<1>4. out.enc \in [DrmDisplay -> DrmEncoderType] /\ \A d \in DrmDisplay : ~out.enc[d].added
  BY <1>1, <1>2
<1>5. out.read \in 0..DrmMaxEdid
  BY <1>1, DrmAssumption
<1>6. out.stale \in BOOLEAN
  BY <1>1, Zenon
<1> QED
  BY <1>1, <1>3, <1>4, <1>5, <1>6 DEF DrmOutShape, DrmGone

LEMMA DrmInitInv == DrmInit => DrmInv
<1> SUFFICES ASSUME DrmInit
             PROVE  DrmInv
  OBVIOUS
<1>1. /\ drmSetup \in DrmSetups /\ drmCrtc = DarkCrtc
      /\ drmDev = [phase |-> "none", kapi |-> FALSE, enabled |-> FALSE, interest |-> FALSE,
                   posted |-> {}, master |-> FALSE, owner |-> FALSE, oops |-> FALSE]
      /\ drmTask = [t \in DrmTask |-> [at |-> "none", async |-> FALSE, conf |-> Dark]]
  BY DEF DrmInit
<1>2. DrmDevShape(drmDev)
  BY <1>1 DEF DrmDevShape, DrmDevType
<1>3. Dark \in DrmConf /\ DrmLit(Dark)
  BY DEF Dark, DrmConf, DrmLit
<1>4. DrmShownShape
  <2>1. drmCrtc \in DrmCrtcType /\ DrmLit(drmCrtc.requested) /\ DrmLit(drmCrtc.shown)
        /\ drmCrtc.shown = drmCrtc.requested
    BY <1>1, <1>3 DEF DarkCrtc, DrmCrtcType
  <2>2. drmTask \in [DrmTask -> DrmTaskType]
    BY <1>1, <1>3 DEF DrmTaskType
  <2>3. \A t \in DrmTask : /\ DrmLit(drmTask[t].conf) /\ drmTask[t].at = "none"
                           /\ ~drmTask[t].async
    BY <1>1, <1>3
  <2>4. \A t \in DrmTask : ~InCaller(t)
    BY <2>3 DEF InCaller
  <2> QED
    BY <2>1, <2>2, <2>3, <2>4 DEF DrmShownShape
<1>5. \E plugged : drmOut = [NoOutputs EXCEPT !.plugged = plugged]
  <2>1. drmOut = [NoOutputs EXCEPT !.plugged = IF drmSetup.displays THEN {}
                                               ELSE {CHOOSE d \in DrmDisplay : TRUE}]
    BY DEF DrmInit
  <2> QED
    BY <2>1
<1>6. /\ DrmOutShape(drmOut) /\ DrmGone(drmOut) /\ drmOut.edid = [i \in 1..DrmMaxEdid |-> 0]
      /\ drmOut.read = 0
  BY <1>5, DrmNoOutputs
<1>7. DrmCounted(drmOut)
  <2>1. drmOut.read \in Nat
    BY <1>6
  <2> QED
    BY <1>6, <2>1, DrmGoneCounted
<1> QED
  BY <1>1, <1>2, <1>4, <1>6, <1>7 DEF DrmInv, DrmSound

\* A display's encoder, new or known, and the connector that it belongs to.
LEMMA DrmEncoderAdded ==
    ASSUME NEW out, DrmOutShape(out), NEW d \in DrmDisplay, out.read < DrmMaxEdid
    PROVE  LET new == nvidia_drm_add_encoder(out, d, d \in out.plugged)
           IN  DrmOutShape(new) /\ (DrmSound(out) => DrmSound(new))
<1> DEFINE added == [out EXCEPT !.enc[d].added = TRUE, !.con.added = TRUE]
           c == d \in out.plugged
<1>1. /\ DrmOutShape(added) /\ added.read = out.read
      /\ added.enc[d].added /\ (DrmSound(out) => DrmSound(added))
  BY DrmAdded
<1>2. nvidia_drm_add_encoder(out, d, c) = update_dynamic_information(added, d, c, FALSE)
  BY Zenon DEF nvidia_drm_add_encoder
<1>3. c \in BOOLEAN /\ FALSE \in BOOLEAN
  OBVIOUS
<1> HIDE DEF added, c
<1>4. LET new == update_dynamic_information(added, d, c, FALSE)
      IN  DrmOutShape(new) /\ (DrmSound(added) => DrmSound(new))
  <2>1. c => added.read < DrmMaxEdid
    BY <1>1
  <2> QED
    BY <1>1, <1>3, <2>1, DrmUpdated
<1>5. LET new == nvidia_drm_add_encoder(out, d, c)
      IN  DrmOutShape(new) /\ (DrmSound(out) => DrmSound(new))
  BY <1>1, <1>2, <1>4
<1> QED
  BY <1>5 DEF c

LEMMA DrmDisplayChanged ==
    ASSUME NEW d \in DrmDisplay, DrmOutShape(drmOut), DrmRoom,
           nvidia_drm_handle_display_change(d)
    PROVE  DrmOutShape(drmOut') /\ (DrmSound(drmOut) => DrmSound(drmOut'))
<1> DEFINE c == d \in drmOut.plugged
           o == drmOut.con.override
           updated == IF drmOut.enc[d].added THEN update_dynamic_information(drmOut, d, c, o)
                      ELSE nvidia_drm_add_encoder(drmOut, d, c)
<1>1. drmOut.read < DrmMaxEdid
  BY DEF DrmRoom
<1>2. DrmOutShape(updated) /\ (DrmSound(drmOut) => DrmSound(updated))
  <2>1. CASE drmOut.enc[d].added
    <3>1. c \in BOOLEAN /\ o \in BOOLEAN
      BY DEF DrmOutShape, DrmConnectorType
    <3> HIDE DEF c, o
    <3>2. LET new == update_dynamic_information(drmOut, d, c, o)
          IN  DrmOutShape(new) /\ (DrmSound(drmOut) => DrmSound(new))
      BY <1>1, <2>1, <3>1, DrmUpdated
    <3> QED
      BY <2>1, <3>2
  <2>2. CASE ~drmOut.enc[d].added
    BY <1>1, <2>2, DrmEncoderAdded
  <2> QED
    BY <2>1, <2>2
<1>3. drmOut' = nvidia_connector_detect(updated) \/ drmOut' = drmOut
  BY Zenon DEF nvidia_drm_handle_display_change, handle_dynamic_display_connected
<1> HIDE DEF updated
<1>4. CASE drmOut' = nvidia_connector_detect(updated)
  BY <1>2, <1>4, DrmDetected
<1>5. CASE drmOut' = drmOut
  BY <1>5
<1> QED
  BY <1>3, <1>4, <1>5

\* Displays come and go, and the user overrides an EDID: no reference changes.
LEMMA DrmPlugged ==
    ASSUME NEW out, DrmOutShape(out), NEW plugged
    PROVE  LET new == [out EXCEPT !.plugged = plugged]
           IN  DrmOutShape(new) /\ (DrmSound(out) => DrmSound(new))
<1> DEFINE new == [out EXCEPT !.plugged = plugged]
<1>1. new = [enc |-> out.enc, con |-> out.con, edid |-> out.edid, read |-> out.read,
             plugged |-> plugged, stale |-> out.stale]
  <2>1. out = [enc |-> out.enc, con |-> out.con, edid |-> out.edid, read |-> out.read,
               plugged |-> out.plugged, stale |-> out.stale]
    BY DEF DrmOutShape
  <2> QED
    BY <2>1
<1>2. /\ new.enc = out.enc /\ new.con = out.con /\ new.edid = out.edid /\ new.read = out.read
      /\ new.plugged = plugged /\ new.stale = out.stale
  BY <1>1
<1> HIDE DEF new
<1>3. DrmOutShape(new)
  BY <1>1, <1>2 DEF DrmOutShape
<1>4. DrmSound(out) => DrmSound(new)
  BY <1>2 DEF DrmCounted, DrmRefs, DrmSound
<1> QED
  BY <1>3, <1>4 DEF new

LEMMA DrmOverridden ==
    ASSUME NEW out, DrmOutShape(out), NEW override \in BOOLEAN
    PROVE  LET new == [out EXCEPT !.con.override = override]
           IN  DrmOutShape(new) /\ (DrmSound(out) => DrmSound(new))
<1> DEFINE con == [out.con EXCEPT !.override = override]
           new == [enc |-> out.enc, con |-> con, edid |-> out.edid, read |-> out.read,
                   plugged |-> out.plugged, stale |-> out.stale]
<1>1. [out EXCEPT !.con.override = override] = new
  <2>1. out = [enc |-> out.enc, con |-> out.con, edid |-> out.edid, read |-> out.read,
               plugged |-> out.plugged, stale |-> out.stale]
    BY DEF DrmOutShape
  <2>2. [out EXCEPT !.con.override = override] = [out EXCEPT !.con = con]
    BY <2>1
  <2> HIDE DEF con
  <2> QED
    BY <2>1, <2>2
<1>2. con \in DrmConnectorType /\ con.edid = out.con.edid /\ (con.added <=> out.con.added)
  BY DEF DrmOutShape, DrmConnectorType
<1> HIDE DEF con
<1>3. DrmOutShape(new)
  BY <1>2 DEF DrmOutShape
<1>4. DrmSound(out) => DrmSound(new)
  BY <1>2 DEF DrmCounted, DrmRefs, DrmSound
<1> QED
  BY <1>1, <1>3, <1>4

\* The outputs: every step counts their EDIDs, and there are none without a device.
LEMMA DrmOutStep ==
    ASSUME DrmInv, [DrmNext]_drmVars
    PROVE  /\ DrmOutShape(drmOut') /\ DrmSound(drmOut')
           /\ drmDev'.phase # "up" => DrmGone(drmOut')
<1>1. /\ DrmOutShape(drmOut) /\ DrmSound(drmOut)
      /\ (drmDev.phase # "up" => DrmGone(drmOut)) /\ DrmDevShape(drmDev)
  BY DEF DrmInv
<1>d. drmDev \in DrmDevType
  BY <1>1 DEF DrmDevShape
<1>2. CASE UNCHANGED drmOut
             /\ (drmDev.phase = "up" => drmDev'.phase = "up")
  BY <1>1, <1>2
<1>3. ASSUME NEW d \in DrmDisplay, Plug(d)
      PROVE  /\ DrmOutShape(drmOut') /\ DrmSound(drmOut')
             /\ drmDev'.phase # "up" => DrmGone(drmOut')
  <2>1. drmOut' = [drmOut EXCEPT !.plugged = {d} \ drmOut.plugged] /\ drmDev.phase = "up"
    BY <1>3 DEF Plug, DrmUp
  <2>2. drmDev'.phase = "up"
    BY <1>3, <1>d DEF Plug, DrmUp, DrmDevType
  <2> QED
    BY <1>1, <2>1, <2>2, DrmPlugged
<1>4. ASSUME NEW e \in drmDev.posted, nvidia_drm_event_callback(e)
      PROVE  /\ DrmOutShape(drmOut') /\ DrmSound(drmOut')
             /\ drmDev'.phase # "up" => DrmGone(drmOut')
  <2>1. UNCHANGED drmSetup /\ drmDev'.phase = drmDev.phase
    BY <1>4, <1>d DEF nvidia_drm_event_callback, DrmDevType
  <2>2. CASE drmDev.enabled /\ e[1] = "display"
    <3>1. drmDev'.phase = "up"
      BY <1>1, <2>1, <2>2 DEF DrmDevShape
    <3>2. e[2] \in DrmDisplay
      BY <1>d, <2>2 DEF DrmDevType, DrmEvents
    <3>3. DrmRoom /\ nvidia_drm_handle_display_change(e[2])
      BY <1>4, <2>2 DEF nvidia_drm_event_callback
    <3> QED
      BY <1>1, <2>1, <3>1, <3>2, <3>3, DrmDisplayChanged
  <2>3. CASE ~(drmDev.enabled /\ e[1] = "display")
    <3>1. UNCHANGED drmOut
      BY <1>4, <2>3 DEF nvidia_drm_event_callback
    <3> QED
      BY <1>2, <2>1, <3>1
  <2> QED
    BY <2>2, <2>3
<1>5. ASSUME NEW S \in {{}} \union {{d} : d \in DrmDisplay}, nvidia_drm_load(S)
      PROVE  /\ DrmOutShape(drmOut') /\ DrmSound(drmOut')
             /\ drmDev'.phase # "up" => DrmGone(drmOut')
  <2>1. CASE UNCHANGED <<drmDev, drmOut, drmSetup>>
    BY <1>2, <2>1
  <2>2. CASE ~UNCHANGED <<drmDev, drmOut, drmSetup>>
    <3>1. /\ drmDev' = [drmDev EXCEPT !.phase = "up", !.kapi = TRUE, !.enabled = TRUE, !.interest = TRUE]
          /\ UNCHANGED drmSetup /\ drmOut.read + Cardinality(S) <= DrmMaxEdid
          /\ drmOut' = IF S = {} THEN drmOut
                       ELSE LET d == CHOOSE x \in S : TRUE
                            IN  nvidia_connector_detect(nvidia_drm_add_encoder(drmOut, d, d \in drmOut.plugged))
      BY <1>5, <2>2 DEF nvidia_drm_load
    <3>2. drmDev'.phase = "up"
      BY <1>d, <3>1 DEF DrmDevType
    <3>3. CASE S = {}
      BY <1>1, <3>1, <3>2, <3>3
    <3>4. CASE S # {}
      <4>1. PICK d \in DrmDisplay : S = {d}
        BY <3>4
      <4>2. drmOut.read < DrmMaxEdid
        <5>1. Cardinality(S) = 1
          BY <4>1, FS_Singleton
        <5>2. drmOut.read \in 0..DrmMaxEdid /\ DrmMaxEdid \in Nat
          BY <1>1, DrmAssumption DEF DrmOutShape
        <5> QED
          BY <3>1, <5>1, <5>2
      <4> DEFINE added == nvidia_drm_add_encoder(drmOut, d, d \in drmOut.plugged)
      <4>3. drmOut' = nvidia_connector_detect(added)
        <5>1. (CHOOSE x \in S : TRUE) = d
          BY <4>1
        <5> QED
          BY <3>1, <3>4, <5>1
      <4>4. DrmOutShape(added) /\ (DrmSound(drmOut) => DrmSound(added))
        BY <1>1, <4>2, DrmEncoderAdded
      <4> HIDE DEF added
      <4> QED
        BY <1>1, <3>1, <3>2, <4>3, <4>4, DrmDetected
    <3> QED
      BY <3>3, <3>4
  <2> QED
    BY <2>1, <2>2
<1>6. CASE nvidia_drm_unload
  <2>1. drmOut' = DestroyOutputs(drmOut) /\ UNCHANGED drmSetup
    BY <1>6 DEF nvidia_drm_unload
  <2> QED
    BY <1>1, <2>1, DrmDestroyed
<1>7. CASE \E d \in DrmDisplay : Replug(d)
  BY <1>2, <1>7, <1>d DEF Replug, DrmDevType
<1>8. CASE \E t \in DrmTask :
              \/ \E changed \in {"mode", "flip"},
                async \in BOOLEAN : nvidia_drm_atomic_commit(t, changed, async)
              \/ nvidia_drm_wait_pending_flip(t) \/ nvidia_drm_wait_for_pending_commit(t)
              \/ applyModeSetConfig(t) \/ nvidia_drm_atomic_commit_task_callback(t)
  BY <1>2, <1>8 DEF nvidia_drm_atomic_commit, nvidia_drm_wait_pending_flip,
     nvidia_drm_wait_for_pending_commit,
     applyModeSetConfig, nvidia_drm_atomic_commit_task_callback
<1>9. CASE FlipOccurs
  BY <1>2, <1>9, <1>d DEF FlipOccurs, DrmDevType
<1>10. CASE freeDevice
  BY <1>2, <1>10, <1>d DEF freeDevice, DrmDevType
<1>11. CASE nvidia_drm_master_set \/ nvidia_drm_master_drop
              \/ nvidia_drm_migrate_modeset_ownership
  BY <1>2, <1>11, <1>d DEF nvidia_drm_master_set, nvidia_drm_master_drop,
     nvidia_drm_migrate_modeset_ownership,
     DrmDevType
<1>12. CASE UNCHANGED drmVars
  BY <1>2, <1>12 DEF drmVars
<1>13. CASE override_edid
  <2>1. /\ drmOut' = [drmOut EXCEPT !.con.override = ~drmOut.con.override]
        /\ drmDev'.phase = "up"
    BY <1>13 DEF override_edid, DrmUp
  <2>2. (~drmOut.con.override) \in BOOLEAN
    OBVIOUS
  <2> QED
    BY <1>1, <2>1, <2>2, DrmOverridden
<1> QED
  BY <1>3, <1>4, <1>5, <1>6, <1>7, <1>8, <1>9, <1>10, <1>11, <1>12, <1>13 DEF DrmNext

\* The device: what its phase says of it.
LEMMA DrmDevStep ==
    ASSUME DrmInv, [DrmNext]_drmVars
    PROVE  DrmDevShape(drmDev') /\ drmSetup' \in DrmSetups
<1>1. DrmDevShape(drmDev) /\ drmDev \in DrmDevType /\ drmSetup \in DrmSetups
  BY DEF DrmInv, DrmDevShape
<1>2. UNCHANGED drmSetup
  BY DEF DrmNext, drmVars, Plug, Replug, override_edid, nvidia_drm_atomic_commit, nvidia_drm_wait_pending_flip,
     nvidia_drm_wait_for_pending_commit, applyModeSetConfig,
       nvidia_drm_atomic_commit_task_callback,
     FlipOccurs, nvidia_drm_event_callback, nvidia_drm_load, nvidia_drm_unload, freeDevice,
     nvidia_drm_master_set, nvidia_drm_master_drop, nvidia_drm_migrate_modeset_ownership
<1> SUFFICES DrmDevShape(drmDev')
  BY <1>1, <1>2
\* NVKMS posts an event, or it is delivered.
<1>3. ASSUME NEW posted \in SUBSET DrmEvents, drmDev' = [drmDev EXCEPT !.posted = posted],
             drmDev.phase = "none" => posted = {}
      PROVE  DrmDevShape(drmDev')
  BY <1>1, <1>3 DEF DrmDevShape, DrmDevType
<1>4. ASSUME NEW d \in DrmDisplay, Plug(d)
      PROVE  DrmDevShape(drmDev')
  <2>1. drmDev.phase = "up" /\ <<"display", d>> \in DrmEvents
    BY <1>4 DEF Plug, DrmUp, DrmEvents
  <2>2. PICK posted : /\ posted = IF drmDev.interest THEN drmDev.posted \union {<<"display", d>>}
                                  ELSE drmDev.posted
                      /\ drmDev' = [drmDev EXCEPT !.posted = posted]
    BY <1>4 DEF Plug
  <2>3. posted \in SUBSET DrmEvents
    BY <1>1, <2>1, <2>2 DEF DrmDevType
  <2> QED
    BY <1>3, <2>1, <2>2, <2>3
<1>5. ASSUME NEW d \in DrmDisplay, Replug(d)
      PROVE  DrmDevShape(drmDev')
  <2>1. drmDev.phase = "up" /\ <<"display", d>> \in DrmEvents
    BY <1>5 DEF Replug, DrmUp, DrmEvents
  <2>2. PICK posted : /\ posted = drmDev.posted \union {<<"display", d>>}
                      /\ drmDev' = [drmDev EXCEPT !.posted = posted]
    BY <1>5 DEF Replug
  <2>3. posted \in SUBSET DrmEvents
    BY <1>1, <2>1, <2>2 DEF DrmDevType
  <2> QED
    BY <1>3, <2>1, <2>2, <2>3
<1>6. CASE FlipOccurs
  <2>1. <<"flip", DrmNone>> \in DrmEvents
    BY DEF DrmEvents
  <2>2. PICK posted : /\ posted = IF drmDev.interest THEN drmDev.posted \union {<<"flip", DrmNone>>}
                                  ELSE drmDev.posted
                      /\ drmDev' = [drmDev EXCEPT !.posted = posted]
    BY <1>6 DEF FlipOccurs
  <2>3. posted \in SUBSET DrmEvents
    BY <1>1, <2>1, <2>2 DEF DrmDevType
  <2>4. drmDev.phase = "none" => posted = {}
    BY <1>1, <2>2 DEF DrmDevShape
  <2> QED
    BY <1>3, <2>2, <2>3, <2>4
<1>7. ASSUME NEW e \in drmDev.posted, nvidia_drm_event_callback(e)
      PROVE  DrmDevShape(drmDev')
  <2>1. PICK posted, oops : /\ posted = drmDev.posted \ {e}
                            /\ oops = (drmDev.oops \/ (drmDev.enabled /\ ~drmDev.kapi))
                            /\ drmDev' = [drmDev EXCEPT !.posted = posted, !.oops = oops]
    BY <1>7 DEF nvidia_drm_event_callback
  <2>2. oops = drmDev.oops
    BY <1>1, <2>1 DEF DrmDevShape, DrmDevType
  <2>3. [drmDev EXCEPT !.posted = posted, !.oops = oops] = [drmDev EXCEPT !.posted = posted]
    BY <1>1, <2>2 DEF DrmDevType
  <2>4. posted \in SUBSET DrmEvents /\ (drmDev.phase = "none" => posted = {})
    BY <1>1, <2>1 DEF DrmDevShape, DrmDevType
  <2> QED
    BY <1>3, <2>1, <2>3, <2>4
<1>8. ASSUME NEW S, nvidia_drm_load(S)
      PROVE  DrmDevShape(drmDev')
  <2>1. CASE UNCHANGED drmDev
    BY <1>1, <2>1
  <2>2. CASE /\ drmDev' = [drmDev EXCEPT !.phase = "up", !.kapi = TRUE, !.enabled = TRUE, !.interest = TRUE]
             /\ drmDev.phase = "none"
    BY <1>1, <2>2 DEF DrmDevShape, DrmDevType
  <2> QED
    BY <1>8, <2>1, <2>2 DEF nvidia_drm_load
<1>9. CASE nvidia_drm_unload
  <2>1. /\ drmDev.phase = "up" /\ ~drmDev.master
        /\ drmDev' = [drmDev EXCEPT !.phase = "unloaded", !.enabled = FALSE, !.interest = FALSE, !.kapi = FALSE]
    BY <1>9 DEF nvidia_drm_unload, DrmUp
  <2> QED
    BY <1>1, <2>1 DEF DrmDevShape, DrmDevType
<1>10. CASE freeDevice
  <2>1. /\ drmDev.phase = "unloaded" /\ drmDev.posted = {}
        /\ drmDev' = [drmDev EXCEPT !.phase = "none"]
    BY <1>10 DEF freeDevice
  <2> QED
    BY <1>1, <2>1 DEF DrmDevShape, DrmDevType
<1>11. CASE nvidia_drm_master_set
  <2>1. drmDev.phase = "up" /\ drmDev' = [drmDev EXCEPT !.master = TRUE, !.owner = TRUE]
    BY <1>11 DEF nvidia_drm_master_set, DrmUp
  <2> QED
    BY <1>1, <2>1 DEF DrmDevShape, DrmDevType
<1>12. CASE nvidia_drm_master_drop \/ nvidia_drm_migrate_modeset_ownership
  <2>1. drmDev' = [drmDev EXCEPT !.master = FALSE, !.owner = FALSE]
    BY <1>12 DEF nvidia_drm_master_drop, nvidia_drm_migrate_modeset_ownership
  <2> QED
    BY <1>1, <2>1 DEF DrmDevShape, DrmDevType
<1>13. CASE \E t \in DrmTask :
              \/ \E changed \in {"mode", "flip"},
                async \in BOOLEAN : nvidia_drm_atomic_commit(t, changed, async)
              \/ nvidia_drm_wait_pending_flip(t) \/ nvidia_drm_wait_for_pending_commit(t)
              \/ applyModeSetConfig(t) \/ nvidia_drm_atomic_commit_task_callback(t)
  <2>1. UNCHANGED drmDev
    BY <1>13 DEF nvidia_drm_atomic_commit, nvidia_drm_wait_pending_flip,
       nvidia_drm_wait_for_pending_commit,
       applyModeSetConfig, nvidia_drm_atomic_commit_task_callback
  <2> QED
    BY <1>1, <2>1
<1>14. CASE override_edid \/ UNCHANGED drmVars
  BY <1>1, <1>14 DEF override_edid, drmVars
<1> QED
  BY <1>4, <1>5, <1>6, <1>7, <1>8, <1>9, <1>10, <1>11, <1>12, <1>13, <1>14 DEF DrmNext

\* One commit moves on.
LEMMA DrmTaskMoved ==
    ASSUME DrmShownShape, NEW t \in DrmTask, NEW r \in DrmTaskType, DrmLit(r.conf),
           drmTask' = [drmTask EXCEPT ![t] = r], UNCHANGED <<drmDev, drmSetup>>,
           drmCrtc' \in DrmCrtcType, DrmLit(drmCrtc'.requested), DrmLit(drmCrtc'.shown),
           drmDev.phase # "up" => r.at \in {"none", "done", "failed"},
           ~drmSetup.async =>
             /\ ~r.async
             /\ r.at \in {"flip", "pending", "apply", "finish"}
                  => \A u \in DrmTask : InCaller(u) => u = t,
           ~drmSetup.async /\ ~drmSetup.fails =>
             /\ r.at = "apply" => drmCrtc'.requested = r.conf
             /\ \A u \in DrmTask : u # t /\ drmTask[u].at = "apply"
                  => drmCrtc'.requested = drmCrtc.requested
             /\ r.at # "apply" /\ (\A u \in DrmTask : u # t => drmTask[u].at # "apply")
                => drmCrtc'.shown = drmCrtc'.requested
    PROVE  DrmShownShape'
<1>1. /\ drmTask' \in [DrmTask -> DrmTaskType] /\ drmTask'[t] = r
      /\ \A u \in DrmTask : u # t => drmTask'[u] = drmTask[u]
  BY DEF DrmShownShape
<1>2. \A u \in DrmTask : DrmLit(drmTask'[u].conf)
  BY <1>1 DEF DrmShownShape
<1>3. drmDev'.phase # "up" => \A u \in DrmTask : drmTask'[u].at \in {"none", "done", "failed"}
  BY <1>1 DEF DrmShownShape
<1>4. ASSUME ~drmSetup'.async
      PROVE  /\ \A u \in DrmTask : ~drmTask'[u].async
             /\ \A u, v \in DrmTask : InCaller(u)' /\ InCaller(v)' => u = v
  <2>1. /\ \A u \in DrmTask : ~drmTask[u].async
        /\ \A u, v \in DrmTask : InCaller(u) /\ InCaller(v) => u = v
        /\ ~drmSetup.async
    BY <1>4 DEF DrmShownShape
  <2>2. \A u \in DrmTask : ~drmTask'[u].async
    BY <1>1, <2>1
  <2>3. \A u \in DrmTask : u # t => (InCaller(u)' <=> InCaller(u))
    BY <1>1 DEF InCaller
  <2>4. InCaller(t)' => \A u \in DrmTask : InCaller(u) => u = t
    BY <1>1, <2>1 DEF InCaller
  <2>5. \A u, v \in DrmTask : InCaller(u)' /\ InCaller(v)' => u = v
    BY <2>1, <2>3, <2>4
  <2> QED
    BY <2>2, <2>5
<1>5. ASSUME ~drmSetup'.async, ~drmSetup'.fails
      PROVE  /\ \A u \in DrmTask : drmTask'[u].at = "apply"
                  => drmCrtc'.requested = drmTask'[u].conf
             /\ (\A u \in DrmTask : drmTask'[u].at # "apply")
                  => drmCrtc'.shown = drmCrtc'.requested
  <2>1. ~drmSetup.async /\ ~drmSetup.fails
    BY <1>5
  <2>2. \A u \in DrmTask : drmTask[u].at = "apply" => drmCrtc.requested = drmTask[u].conf
    BY <2>1 DEF DrmShownShape
  <2>3. \A u \in DrmTask : drmTask'[u].at = "apply" => drmCrtc'.requested = drmTask'[u].conf
    BY <1>1, <2>1, <2>2
  <2>4. (\A u \in DrmTask : drmTask'[u].at # "apply") => drmCrtc'.shown = drmCrtc'.requested
    BY <1>1, <2>1
  <2> QED
    BY <2>3, <2>4
<1> QED
  BY <1>1, <1>2, <1>3, <1>4, <1>5 DEF DrmShownShape, DrmLit

\* The commits and the screen.
LEMMA DrmShownStep ==
    ASSUME DrmInv, [DrmNext]_drmVars
    PROVE  DrmShownShape'
<1> DEFINE sync == ~drmSetup.async
           exact == ~drmSetup.async /\ ~drmSetup.fails
<1>1. /\ drmCrtc \in DrmCrtcType /\ DrmLit(drmCrtc.requested) /\ DrmLit(drmCrtc.shown)
      /\ drmTask \in [DrmTask -> DrmTaskType] /\ \A t \in DrmTask : DrmLit(drmTask[t].conf)
      /\ drmDev.phase # "up" => \A t \in DrmTask : drmTask[t].at \in {"none", "done", "failed"}
      /\ DrmShownShape /\ drmDev \in DrmDevType
  BY DEF DrmInv, DrmShownShape, DrmDevShape
<1>2. sync =>
        /\ \A t \in DrmTask : ~drmTask[t].async
        /\ \A t, u \in DrmTask : InCaller(t) /\ InCaller(u) => t = u
  BY <1>1 DEF DrmShownShape
<1>e. exact =>
        /\ sync
        /\ \A t \in DrmTask : drmTask[t].at = "apply" => drmCrtc.requested = drmTask[t].conf
        /\ (\A t \in DrmTask : drmTask[t].at # "apply") => drmCrtc.shown = drmCrtc.requested
  BY <1>1 DEF DrmShownShape
<1>3. \A t \in DrmTask : /\ drmTask[t].at \in {"flip", "pending"} => InCaller(t)
                         /\ sync /\ drmTask[t].at \in {"apply", "finish"} => InCaller(t)
  BY <1>2 DEF InCaller
\* No commit moves and the configurations stay.
<1>4. ASSUME UNCHANGED <<drmTask, drmSetup>>, drmCrtc' \in DrmCrtcType,
             drmCrtc'.requested = drmCrtc.requested, drmCrtc'.shown = drmCrtc.shown,
             drmDev'.phase # "up" => drmDev.phase # "up"
      PROVE  DrmShownShape'
  BY <1>1, <1>4 DEF DrmShownShape, DrmLit, InCaller
\* No commit is under way and the screen goes dark.
<1>5. ASSUME UNCHANGED <<drmTask, drmSetup>>, drmCrtc' \in DrmCrtcType,
             drmCrtc'.requested = Dark, drmCrtc'.shown = Dark,
               sync => \A t \in DrmTask : ~InCaller(t),
             drmDev'.phase # "up"
               => \A t \in DrmTask : drmTask[t].at \in {"none", "done", "failed"}
      PROVE  DrmShownShape'
  <2>1. DrmLit(Dark)
    BY DEF DrmLit, Dark, DrmConf
  <2>2. sync => \A t \in DrmTask : drmTask[t].at # "apply"
    BY <1>3, <1>5
  <2> QED
    BY <1>1, <1>2, <1>5, <2>1, <2>2 DEF DrmShownShape, DrmLit, InCaller
<1>d. DarkCrtc \in DrmCrtcType /\ DarkCrtc.requested = Dark /\ DarkCrtc.shown = Dark
  BY DEF DarkCrtc, DrmCrtcType, Dark, DrmConf
<1>6. ASSUME NEW t \in DrmTask, NEW changed \in {"mode", "flip"}, NEW async \in BOOLEAN,
             DrmInv, nvidia_drm_atomic_commit(t, changed, async)
      PROVE  DrmShownShape'
  <2> DEFINE head == head_requested_config(drmCrtc.requested, changed, t)
             conf == plane_requested_config(head, t)
             r == [at |-> "flip", async |-> async, conf |-> conf]
  <2>1. /\ DrmUp /\ drmTask[t].at = "none" /\ (\A u \in DrmTask : ~InCaller(u))
        /\ async => drmSetup.async
        /\ drmTask' = [drmTask EXCEPT ![t] = r] /\ UNCHANGED <<drmDev, drmCrtc, drmSetup>>
    BY <1>6 DEF nvidia_drm_atomic_commit
  <2>2. head \in DrmConf
    <3>1. drmOut.con.detected \in DrmDisplay \union {DrmNone}
      BY DEF DrmInv, DrmOutShape, DrmConnectorType
    <3>2. drmCrtc.requested \in DrmConf
      BY <1>1 DEF DrmLit
    <3> QED
      BY <3>1, <3>2 DEF head_requested_config, DrmConf
  <2> HIDE DEF head
  <2>3. DrmLit(conf)
    BY <2>2 DEF plane_requested_config, DrmLit, DrmConf
  <2> HIDE DEF conf
  <2>4. r \in DrmTaskType /\ r.conf = conf /\ r.at = "flip" /\ r.async = async
    BY <2>3 DEF DrmTaskType, DrmLit
  <2> HIDE DEF r
  <2>5. sync => \A u \in DrmTask : drmTask[u].at # "apply"
    BY <1>3, <2>1
  <2>6. drmDev.phase = "up"
    BY <2>1 DEF DrmUp
  <2> QED
    BY <1>1, <1>2, <1>e, <2>1, <2>3, <2>4, <2>5, <2>6, DrmTaskMoved
\* A commit that was admitted goes on.
<1>7. ASSUME NEW t \in DrmTask, NEW at \in {"pending", "apply", "finish", "done", "failed"},
             drmTask[t].at \in {"flip", "pending", "apply", "finish"}, DrmGoto(t, at),
             UNCHANGED <<drmDev, drmSetup>>,
             drmCrtc' \in DrmCrtcType, DrmLit(drmCrtc'.requested), DrmLit(drmCrtc'.shown),
             exact => /\ at = "apply" => drmCrtc'.requested = drmTask[t].conf
                      /\ at # "apply" => drmCrtc'.shown = drmCrtc'.requested
      PROVE  DrmShownShape'
  <2> DEFINE r == [drmTask[t] EXCEPT !.at = at]
  <2>1. /\ r \in DrmTaskType /\ r.at = at /\ r.conf = drmTask[t].conf
             /\ r.async = drmTask[t].async
        /\ drmTask' = [drmTask EXCEPT ![t] = r]
    BY <1>1, <1>7 DEF DrmTaskType, DrmGoto
  <2> HIDE DEF r
  <2>2. drmDev.phase = "up"
    BY <1>1, <1>7
  <2>3. sync => \A u \in DrmTask : InCaller(u) => u = t
    BY <1>2, <1>3, <1>7
  <2>4. sync => \A u \in DrmTask : u # t => drmTask[u].at # "apply"
    BY <1>3, <2>3
  <2>5. /\ sync => ~r.async /\ \A u \in DrmTask : InCaller(u) => u = t
        /\ exact => /\ r.at = "apply" => drmCrtc'.requested = r.conf
                    /\ r.at # "apply" => drmCrtc'.shown = drmCrtc'.requested
                    /\ \A u \in DrmTask : u # t => drmTask[u].at # "apply"
    BY <1>2, <1>7, <2>1, <2>3, <2>4
  <2>6. DrmLit(r.conf) /\ UNCHANGED <<drmDev, drmSetup>> /\ DrmShownShape
    BY <1>1, <1>7, <2>1
  <2> QED
    BY <1>7, <2>1, <2>2, <2>5, <2>6, DrmTaskMoved
<1>8. ASSUME NEW t \in DrmTask, nvidia_drm_wait_pending_flip(t)
      PROVE  DrmShownShape'
  <2>1. PICK at \in {"pending", "failed"} : DrmGoto(t, at)
    BY <1>8 DEF nvidia_drm_wait_pending_flip
  <2>2. drmTask[t].at = "flip" /\ UNCHANGED <<drmDev, drmCrtc, drmSetup>>
    BY <1>8 DEF nvidia_drm_wait_pending_flip
  <2>3. exact => drmCrtc.shown = drmCrtc.requested
    BY <1>2, <1>e, <1>3, <2>2
  <2> QED
    BY <1>1, <1>7, <2>1, <2>2, <2>3
<1>9. ASSUME NEW t \in DrmTask, nvidia_drm_wait_for_pending_commit(t)
      PROVE  DrmShownShape'
  <2>1. drmTask[t].at = "pending" /\ UNCHANGED <<drmDev, drmSetup>>
    BY <1>9 DEF nvidia_drm_wait_for_pending_commit
  <2>2. CASE drmCrtc' = [drmCrtc EXCEPT !.requested = drmTask[t].conf] /\ DrmGoto(t, "apply")
    <3>1. /\ drmCrtc' \in DrmCrtcType /\ drmCrtc'.requested = drmTask[t].conf
          /\ drmCrtc'.shown = drmCrtc.shown
      BY <1>1, <2>2 DEF DrmCrtcType, DrmLit
    <3> QED
      BY <1>1, <1>7, <2>1, <2>2, <3>1
  <2>3. CASE drmSetup.fails /\ DrmGoto(t, "failed") /\ UNCHANGED drmCrtc
    BY <1>1, <1>7, <2>1, <2>3
  <2> QED
    BY <1>9, <2>2, <2>3 DEF nvidia_drm_wait_for_pending_commit
<1>10. ASSUME NEW t \in DrmTask, applyModeSetConfig(t)
       PROVE  DrmShownShape'
  <2>1. drmTask[t].at = "apply" /\ DrmGoto(t, "finish") /\ UNCHANGED <<drmDev, drmSetup>>
    BY <1>10 DEF applyModeSetConfig
  <2>2. CASE drmCrtc' = [drmCrtc EXCEPT !.shown = drmTask[t].conf, !.flip = TRUE]
    <3>1. /\ drmCrtc' \in DrmCrtcType /\ drmCrtc'.requested = drmCrtc.requested
          /\ drmCrtc'.shown = drmTask[t].conf
      BY <1>1, <2>2 DEF DrmCrtcType, DrmLit
    <3> QED
      BY <1>1, <1>e, <1>7, <2>1, <3>1
  <2>3. CASE drmSetup.fails /\ UNCHANGED drmCrtc
    BY <1>1, <1>7, <2>1, <2>3
  <2> QED
    BY <1>10, <2>2, <2>3 DEF applyModeSetConfig
<1>11. ASSUME NEW t \in DrmTask, nvidia_drm_atomic_commit_task_callback(t)
       PROVE  DrmShownShape'
  <2>1. /\ drmTask[t].at = "finish" /\ DrmGoto(t, "done") /\ UNCHANGED <<drmDev, drmSetup>>
        /\ drmCrtc' = [drmCrtc EXCEPT !.pending = FALSE]
    BY <1>11 DEF nvidia_drm_atomic_commit_task_callback
  <2>2. /\ drmCrtc' \in DrmCrtcType /\ drmCrtc'.requested = drmCrtc.requested
        /\ drmCrtc'.shown = drmCrtc.shown
    BY <1>1, <2>1 DEF DrmCrtcType
  <2>3. exact => drmCrtc.shown = drmCrtc.requested
    BY <1>2, <1>e, <1>3, <2>1
  <2> QED
    BY <1>1, <1>7, <2>1, <2>2, <2>3
<1>12. CASE FlipOccurs
  <2>1. drmCrtc' = [drmCrtc EXCEPT !.flip = FALSE] /\ UNCHANGED <<drmTask, drmSetup>>
    BY <1>12 DEF FlipOccurs
  <2>2. /\ drmCrtc' \in DrmCrtcType /\ drmCrtc'.requested = drmCrtc.requested
        /\ drmCrtc'.shown = drmCrtc.shown
    BY <1>1, <2>1 DEF DrmCrtcType
  <2>3. drmDev'.phase = drmDev.phase
    BY <1>1, <1>12 DEF FlipOccurs, DrmDevType
  <2> QED
    BY <1>4, <2>1, <2>2, <2>3
<1>13. ASSUME NEW S, nvidia_drm_load(S)
       PROVE  DrmShownShape'
  <2>1. drmDev.phase = "none" /\ drmCrtc' = DarkCrtc /\ UNCHANGED <<drmTask, drmSetup>>
    BY <1>13 DEF nvidia_drm_load
  <2>2. \A t \in DrmTask : drmTask[t].at \in {"none", "done", "failed"}
    BY <1>1, <2>1
  <2>3. \A t \in DrmTask : ~InCaller(t)
    BY <2>2 DEF InCaller
  <2> QED
    BY <1>5, <1>d, <2>1, <2>2, <2>3
<1>14. CASE nvidia_drm_unload
  BY <1>5, <1>14, <1>d DEF nvidia_drm_unload
<1>15. CASE nvidia_drm_master_drop
  <2>1. /\ drmDev' = [drmDev EXCEPT !.master = FALSE, !.owner = FALSE] /\ DrmUp
        /\ UNCHANGED <<drmTask, drmSetup>> /\ \A t \in DrmTask : ~InCaller(t)
    BY <1>15 DEF nvidia_drm_master_drop
  <2>2. drmDev'.phase = "up"
    BY <1>1, <2>1 DEF DrmDevType, DrmUp
  <2>3. CASE drmCrtc' = [drmCrtc EXCEPT !.requested = Dark, !.shown = Dark]
    <3>1. drmCrtc' \in DrmCrtcType /\ drmCrtc'.requested = Dark /\ drmCrtc'.shown = Dark
      BY <1>1, <2>3 DEF DrmCrtcType, Dark, DrmConf
    <3> QED
      BY <1>5, <2>1, <2>2, <3>1
  <2>4. CASE UNCHANGED drmCrtc
    BY <1>1, <1>4, <2>1, <2>2, <2>4
  <2> QED
    BY <1>15, <2>3, <2>4 DEF nvidia_drm_master_drop
<1>16. CASE \/ \E d \in DrmDisplay : Plug(d) \/ Replug(d)
            \/ override_edid
            \/ \E e \in drmDev.posted : nvidia_drm_event_callback(e)
            \/ freeDevice \/ nvidia_drm_master_set \/ nvidia_drm_migrate_modeset_ownership
  <2>1. UNCHANGED <<drmCrtc, drmTask, drmSetup>>
    BY <1>16 DEF Plug, Replug, override_edid, nvidia_drm_event_callback, freeDevice, nvidia_drm_master_set,
       nvidia_drm_migrate_modeset_ownership
  <2>2. drmDev'.phase # "up" => drmDev.phase # "up"
    BY <1>1, <1>16 DEF Plug, Replug, override_edid, nvidia_drm_event_callback, freeDevice,
       nvidia_drm_master_set,
       nvidia_drm_migrate_modeset_ownership, DrmDevType
  <2> QED
    BY <1>1, <1>4, <2>1, <2>2
<1>17. CASE UNCHANGED drmVars
  BY <1>1, <1>4, <1>17 DEF drmVars
<1> QED
  BY <1>6, <1>8, <1>9, <1>10, <1>11, <1>12, <1>13, <1>14, <1>15, <1>16, <1>17 DEF DrmNext

LEMMA DrmStepInv == DrmInv /\ [DrmNext]_drmVars => DrmInv'
<1> SUFFICES ASSUME DrmInv, [DrmNext]_drmVars
             PROVE  DrmInv'
  OBVIOUS
<1>1. DrmDevShape(drmDev') /\ drmSetup' \in DrmSetups
  BY DrmDevStep
<1>2. DrmShownShape'
  BY DrmShownStep
<1>3. /\ DrmOutShape(drmOut') /\ DrmSound(drmOut')
      /\ drmDev'.phase # "up" => DrmGone(drmOut')
  BY DrmOutStep
<1> QED
  BY <1>1, <1>2, <1>3 DEF DrmInv

LEMMA DrmInvExact == DrmInv => DisplaysExact
<1> SUFFICES ASSUME DrmInv
             PROVE  DisplaysExact
  OBVIOUS
<1>1. ShownIsRequested
  <2>1. drmCrtc.shown.surface # DrmNone => drmCrtc.shown.display # DrmNone
    BY DEF DrmInv, DrmShownShape, DrmLit
  <2>2. ~drmSetup.async /\ ~drmSetup.fails
          /\ Committing = {} => drmCrtc.shown = drmCrtc.requested
    BY DEF DrmInv, DrmShownShape, Committing
  <2> QED
    BY <2>1, <2>2 DEF ShownIsRequested
<1>2. EdidsCountedUntilStale
  <2> SUFFICES ASSUME ~drmOut.stale, NEW i \in 1..DrmMaxEdid
               PROVE  drmOut.edid[i]
                      = Cardinality({d \in DrmDisplay : drmOut.enc[d].added /\ drmOut.enc[d].edid = i})
                        + (IF drmOut.con.added /\ drmOut.con.edid = i THEN 1 ELSE 0)
    BY DEF EdidsCountedUntilStale, EdidsCounted
  <2> DEFINE holders == {d \in DrmDisplay : drmOut.enc[d].added /\ drmOut.enc[d].edid = i}
  <2>1. DrmCounted(drmOut)
    BY DEF DrmInv, DrmSound
  <2>2. /\ holders # {} => Cardinality(holders) = 1
        /\ holders = {} <=> ~\E d \in DrmDisplay : drmOut.enc[d].edid = i
    BY <2>1, DrmHolders
  <2>3. drmOut.edid[i] = DrmRefs(drmOut, i)
    BY <2>1 DEF DrmCounted
  <2>4. drmOut.con.edid = i => drmOut.con.added
    <3>1. i # 0
      BY DrmAssumption
    <3> QED
      BY <2>1, <3>1 DEF DrmCounted
  <2> HIDE DEF holders
  <2>5. Cardinality(holders) = IF \E d \in DrmDisplay : drmOut.enc[d].edid = i THEN 1 ELSE 0
    BY <2>2, FS_EmptySet
  <2>6. drmOut.edid[i] = Cardinality(holders)
                         + (IF drmOut.con.added /\ drmOut.con.edid = i THEN 1 ELSE 0)
    BY <2>3, <2>4, <2>5 DEF DrmRefs
  <2> QED
    BY <2>6 DEF holders
<1>3. DrmQuietWhenGone
  <2>1. DrmDevShape(drmDev) /\ (drmDev.phase # "up" => DrmGone(drmOut))
    BY DEF DrmInv
  <2>2. NoOutputs.enc = [d \in DrmDisplay |-> NoEncoder]
    BY DEF NoOutputs
  <2>3. ~drmDev.oops /\ (drmDev.phase = "none" => drmDev.posted = {})
    BY <2>1 DEF DrmDevShape
  <2>4. ~drmDev.kapi => drmDev.phase # "up" /\ ~drmDev.owner
    BY <2>1 DEF DrmDevShape
  <2> QED
    BY <2>1, <2>2, <2>3, <2>4 DEF DrmQuietWhenGone, DrmGone
<1>4. CommitsSerialized
  <2>1. ~drmSetup.async => \A t \in Committing : t \in DrmTask /\ InCaller(t)
    BY DEF DrmInv, DrmShownShape, Committing, InCaller
  <2> QED
    BY <2>1 DEF DrmInv, DrmShownShape, CommitsSerialized
<1> QED
  BY <1>1, <1>2, <1>3, <1>4 DEF DisplaysExact

\* For any number of commits, displays and EDIDs, in every setup, with displays
\* that come and go, EDIDs that are overridden, calls that fail and devices that
\* are loaded and unloaded: synchronous commits of a CRTC are serialized, the
\* screen shows what was asked for last and no surface without a display; an
\* EDID has one reference for each pointer to it, until
\* nvidia_enocder_update_dynamic_information keeps a pointer to an EDID that it
\* gave back; and no event of NVKMS reaches a device whose outputs
\* nvidia_drm_unload has destroyed.
THEOREM DisplaysAreExact == DrmSpec => []DisplaysExact
<1>1. DrmInit => DrmInv
  BY DrmInitInv
<1>2. DrmInv /\ [DrmNext]_drmVars => DrmInv'
  BY DrmStepInv
<1>3. DrmInv => DisplaysExact
  BY DrmInvExact
<1> QED
  BY <1>1, <1>2, <1>3, PTL DEF DrmSpec
===============================================================================
