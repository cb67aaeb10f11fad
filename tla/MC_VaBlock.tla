---------------------------- MODULE MC_VaBlock ----------------------------
(***************************************************************************)
(* Instances of VaBlock and Swizzle.  The two share no state: a behaviour  *)
(* is one of the one or one of the other.                                  *)
(*                                                                         *)
(* Swizzle: two GPUs, and one push that is not executed when an operation  *)
(* begins; pages mapped together are in one memory, and tables are had.    *)
(***************************************************************************)
EXTENDS VaBlock, Swizzle

CONSTANTS g1, g2

VARIABLE part

(* Two GPUs that are no peers, and no policy.                              *)
Plain ==
  [pages |-> {0}, peers |-> {}, copyPeers |-> {}, nvlinkPeers |-> {}, atomicPeers |-> {}, atomicsOff |-> {},
   locations |-> {}, accessibleBy |-> {}, readDup |-> {}, prefetch |-> FALSE,
   operations |-> {"gpu_fault", "cpu_fault", "evict"}, failures |-> {}]

(* Batches of faults with prefetched pages, and migrations.                *)
Batches ==
  [Plain EXCEPT !.pages = {0, 1}, !.prefetch = TRUE, !.operations = {"gpu_fault", "evict", "migrate"}]

(* NVLink peers with native atomics, pages that stay at a preferred        *)
(* location, the CPU or a GPU, and are mapped remotely, and mapping calls  *)
(* that fail.                                                              *)
Remote ==
  [Plain EXCEPT
     !.peers = {{1, 2}}, !.nvlinkPeers = {{1, 2}}, !.atomicPeers = {{1, 2}}, !.locations = {0},
     !.operations = @ \cup {"direct_write"},
     !.failures = {"unmap", "revoke", "map", "cpu_map", "populate"}]
RemoteGpu == [Remote EXCEPT !.locations = {1}, !.accessibleBy = {2}]

(* Read duplication among peers, with retries after failed calls.          *)
Duplicating ==
  [Plain EXCEPT
     !.peers = {{1, 2}}, !.copyPeers = {{1, 2}}, !.locations = {0},
     !.readDup = {"enabled", "disabled"},
     !.operations = @ \cup {"direct_write", "migrate"},
     !.failures = {"map", "populate"}]

(* Copies that fail half way, with a GPU that has system-wide atomics off. *)
FailingCopies ==
  [Plain EXCEPT
     !.atomicsOff = {2}, !.locations = {1}, !.accessibleBy = {1},
     !.operations = @ \cup {"direct_write", "migrate"},
     !.failures = {"stage", "copy", "cpu_map", "revoke"}]

AllSetups == {Batches, Remote, RemoteGpu, Duplicating, FailingCopies}

SwInOrder == <<g1, g2>>
SwAsked == {{1}, {1, 2}, {1, 3}}
SwParts == {[tables |-> "yes", other |-> x, mixed |-> FALSE] : x \in BOOLEAN}

MCInit ==
    /\ part \in {"block", "swizzle"}
    /\ Init /\ SwInit
    /\ (part = "block" => ~swSetup.other) /\ (part = "swizzle" => setup = Batches)
mcVars == <<part, vars, swVars>>
(* Only VaBlock never stops.                                               *)
MCNext ==
    \/ part = "block" /\ Next /\ UNCHANGED <<part, swVars>>
    \/ part = "swizzle" /\ SwNext /\ UNCHANGED <<part, vars>>
    \/ part = "swizzle" /\ UNCHANGED mcVars
MCSpec == MCInit /\ [][MCNext]_mcVars
============================================================================
