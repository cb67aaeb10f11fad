---------------------------------- MODULE P2P ----------------------------------
(***************************************************************************)
(* GPUDirect RDMA (nv-p2p.c): a third-party driver pins GPU pages with     *)
(* nvidia_p2p_get_pages and maps them for its device; RM may take them     *)
(* back at any time by calling the driver's free_callback, in which it     *)
(* frees the tables itself.                                                *)
(***************************************************************************)
EXTENDS Naturals

CONSTANTS P2PTable,    \* page tables; none is used twice
          P2PEntries,  \* pages of the range
          P2PSetups    \* the setups to explore, see P2PAssumption

(* fails: allocations of stacks and arrays, and RM, may fail; pages: so    *)
(* may that of a struct nvidia_p2p_page; maps: so may DMA mapping; early:  *)
(* RM may take the pages back before nvidia_p2p_get_pages has returned.    *)
ASSUME P2PAssumption ==
    /\ P2PEntries \in Nat \ {0}
    /\ \A s \in P2PSetups : {s.fails, s.pages, s.maps, s.early} \subseteq BOOLEAN

VARIABLES
    p2pTable,  \* [P2PTable -> the page table, and what its user and RM believe]
    p2pMap,    \* [P2PTable -> the DMA mapping of the table]
    p2pSetup

p2pVars == <<p2pTable, p2pMap, p2pSetup>>

(* mem: *page_table; array: its pages; structs: how many of them are       *)
(* allocated; entries: what the table says; rm: RM's view; user: none, in  *)
(* nvidia_p2p_get_pages, a holder, or in free_callback; at: the place in   *)
(* nvidia_p2p_get_pages.                                                   *)
NoTable == [mem |-> "unused", array |-> FALSE, structs |-> 0, entries |-> 0,
            rm |-> "none", user |-> "none", at |-> "none"]
NoMap == [mem |-> "unused", addresses |-> FALSE, mapped |-> FALSE, user |-> FALSE]

P2PInit ==
    /\ p2pTable = [t \in P2PTable |-> NoTable]
    /\ p2pMap = [t \in P2PTable |-> NoMap]
    /\ p2pSetup \in P2PSetups

Outcomes(mayFail) == IF mayFail THEN BOOLEAN ELSE {TRUE}
FreeOf(m) == IF m = "live" THEN "freed" ELSE "broken"

(***************************************************************************)
(* nvidia_p2p_get_pages                                                    *)
(***************************************************************************)
(* The table and the three scratch arrays; a failure frees what there is.  *)
GetAllocates(t) ==
    /\ p2pTable[t].mem = "unused"
    /\ \/ p2pTable' = [p2pTable EXCEPT ![t].mem = "live", ![t].user = "getting", ![t].at = "rm"]
       \/ p2pSetup.fails /\ p2pTable' = [p2pTable EXCEPT ![t].mem = "freed"]
    /\ UNCHANGED <<p2pMap, p2pSetup>>

(* The path "failed": the structs and the pages RM gave are returned, then *)
(* the array and the table.  user: what the return value tells the caller. *)
GetFails(t, user) ==
    p2pTable' = [p2pTable EXCEPT ![t] = [NoTable EXCEPT !.mem = FreeOf(p2pTable[t].mem), !.user = user]]

rm_p2p_get_pages(t) ==
    /\ p2pTable[t].at = "rm"
    /\ \/ p2pTable' = [p2pTable EXCEPT ![t].rm = "held", ![t].at = "array"]
       \/ p2pSetup.fails /\ GetFails(t, "none")
    /\ UNCHANGED <<p2pMap, p2pSetup>>

GetArray(t) ==
    /\ p2pTable[t].at = "array"
    /\ \/ p2pTable' = [p2pTable EXCEPT ![t].array = TRUE, ![t].at = "fill"]
       \/ p2pSetup.fails /\ GetFails(t, "none")
    /\ UNCHANGED <<p2pMap, p2pSetup>>

(* A failed struct jumps to "failed" with status still NV_OK.              *)
GetFills(t) ==
    /\ p2pTable[t].at = "fill" /\ p2pTable[t].structs < P2PEntries
    /\ \E ok \in Outcomes(p2pSetup.pages) :
         IF ok THEN p2pTable' = [p2pTable EXCEPT ![t].structs = @ + 1] ELSE GetFails(t, "has")
    /\ UNCHANGED <<p2pMap, p2pSetup>>

nvidia_p2p_get_pages(t) ==
    /\ p2pTable[t].at = "fill" /\ p2pTable[t].structs = P2PEntries
    /\ p2pTable' = [p2pTable EXCEPT ![t].entries = P2PEntries, ![t].at = "none",
                                    ![t].user = "has"]
    /\ UNCHANGED <<p2pMap, p2pSetup>>

(* RM calls free_callback when the memory is freed under the table.        *)
RmRevokes(t) ==
    /\ p2pTable[t].rm = "held"
    /\ p2pTable[t].user \in IF p2pSetup.early THEN {"has", "getting"} ELSE {"has"}
    /\ p2pTable' = [p2pTable EXCEPT ![t].rm = "revoked", ![t].user = "callback"]
    /\ UNCHANGED <<p2pMap, p2pSetup>>

(***************************************************************************)
(* Giving tables and mappings back                                         *)
(***************************************************************************)
(* Mutant: the last struct is forgotten.                                   *)
free_forgets_last(t) ==
    p2pTable' = [p2pTable EXCEPT ![t] = [NoTable EXCEPT
        !.mem = FreeOf(p2pTable[t].mem), !.at = p2pTable[t].at,
        !.structs = p2pTable[t].structs - (p2pTable[t].entries - 1)]]

(* entries of the array's structs, the array and the table.                *)
nvidia_p2p_free_page_table(t) ==
    p2pTable' = [p2pTable EXCEPT ![t] = [NoTable EXCEPT
        !.mem = FreeOf(p2pTable[t].mem), !.at = p2pTable[t].at,
        !.structs = p2pTable[t].structs - p2pTable[t].entries]]

(* A table RM has taken back is not RM's any more: it refuses, and the     *)
(* table is left for free_callback.                                        *)
nvidia_p2p_put_pages(t) ==
    /\ p2pTable[t].user = "has" /\ ~p2pMap[t].user
    /\ p2pTable[t].rm = "held"
    /\ nvidia_p2p_free_page_table(t)
    /\ UNCHANGED <<p2pMap, p2pSetup>>

CallbackFrees(t) ==
    /\ p2pTable[t].user = "callback" /\ ~p2pMap[t].user
    /\ nvidia_p2p_free_page_table(t)
    /\ UNCHANGED <<p2pMap, p2pSetup>>

(* A failure frees the scratch array and, for *dma_mapping, dma_mapping:   *)
(* the mapping is lost and the caller's own variable is freed.             *)
nvidia_p2p_dma_map_pages(t) ==
    /\ p2pTable[t].user = "has" /\ p2pMap[t].mem = "unused"
    /\ \E ok \in Outcomes(p2pSetup.maps) :
         p2pMap' = [p2pMap EXCEPT ![t] = IF ok THEN [mem |-> "live", addresses |-> TRUE, mapped |-> TRUE, user |-> TRUE]
                                         ELSE [NoMap EXCEPT !.mem = "broken"]]
    /\ UNCHANGED <<p2pTable, p2pSetup>>

nvidia_p2p_free_dma_mapping(t, mapped) ==
    p2pMap' = [p2pMap EXCEPT ![t] = [NoMap EXCEPT !.mem = FreeOf(p2pMap[t].mem), !.mapped = mapped]]

nvidia_p2p_dma_unmap_pages(t) ==
    /\ p2pTable[t].user = "has" /\ p2pMap[t].user
    /\ nvidia_p2p_free_dma_mapping(t, FALSE)
    /\ UNCHANGED <<p2pTable, p2pSetup>>

(* In free_callback RM has removed the mapping already.                    *)
CallbackFreesMapping(t) ==
    /\ p2pTable[t].user = "callback" /\ p2pMap[t].user
    /\ nvidia_p2p_free_dma_mapping(t, FALSE)
    /\ UNCHANGED <<p2pTable, p2pSetup>>

P2PNext ==
    \E t \in P2PTable :
      \/ GetAllocates(t) \/ rm_p2p_get_pages(t) \/ GetArray(t) \/ GetFills(t) \/ nvidia_p2p_get_pages(t)
      \/ RmRevokes(t)
      \/ nvidia_p2p_put_pages(t) \/ CallbackFrees(t)
      \/ nvidia_p2p_dma_map_pages(t) \/ nvidia_p2p_dma_unmap_pages(t) \/ CallbackFreesMapping(t)

P2PSpec == P2PInit /\ [][P2PNext]_p2pVars

(***************************************************************************)
(* Properties                                                              *)
(***************************************************************************)
(* Nothing is freed twice or by the wrong party: a table that its user     *)
(* holds, or RM has pages for, is allocated and complete, a table nobody   *)
(* has is freed with everything in it, and a mapping never outlives its    *)
(* table (every exit of nvidia_p2p_get_pages, nvidia_p2p_put_pages against *)
(* free_callback).                                                         *)
P2PExact ==
    \A t \in P2PTable : LET r == p2pTable[t]  m == p2pMap[t] IN
      /\ "broken" \notin {r.mem, m.mem}
      /\ r.user # "none" \/ r.rm = "held" => r.mem = "live"
      /\ r.user = "has" => r.array /\ r.structs = r.entries
      /\ r.user = "none" => r.mem # "live"
      /\ r.mem # "live" => ~r.array /\ r.structs = 0
      /\ m.mem = "live" <=> m.user
      /\ m.user => r.mem = "live" /\ m.addresses
================================================================================
