---------------------------- MODULE MC_AddressSpace ----------------------------
(***************************************************************************)
(* Instances of VaSpace and Ranges.  The two share no state: a behaviour   *)
(* is one of the one or one of the other.                                  *)
(*                                                                         *)
(* VaSpace: two GPUs, of which the second may get address spaces with      *)
(* another big page size, one channel, and two threads, so that each       *)
(* two-section call can be cut in two by any other.                        *)
(*                                                                         *)
(* Ranges: two pages of one block, so that a span can cover half of it,    *)
(* one group, a GPU without faults, and two threads, or one thread and     *)
(* accessed-by calls; then policies set in the middle of four pages of two *)
(* blocks, so that a call splits a range and a block at both ends of its   *)
(* span, and either split may fail.                                        *)
(***************************************************************************)
EXTENDS VaSpace, Ranges, TLC

CONSTANTS g1, g2, c1, t1, t2, o1, o2, u1, group

VARIABLE part

Sizes == [g \in VsGpu |-> IF g = g1 THEN {1} ELSE {1, 2}]
OnG1 == [c \in VsChannel |-> g1]
Access == (RgCpu :> {RgCpu, g1}) @@ (g1 :> {g1})
Calls == [maps |-> {<<0, 1>>, <<0, 0>>}, spans |-> {<<0, 1>>, <<0, 0>>}, locations |-> {g1},
          accessors |-> {}, targets |-> {g1}, groups |-> {group}, threads |-> {t1, t2}]
RangeSetups ==
    {Calls,
     [Calls EXCEPT !.accessors = {g1}, !.threads = {t1}],
     [Calls EXCEPT !.accessors = {g1}, !.threads = {t1}, !.maps = {<<0, 3>>},
                   !.spans = {<<1, 2>>}, !.targets = {}, !.groups = {}]}
Symmetric == Permutations({t1, t2}) \union Permutations(GpuVaSpace)

MCInit ==
    /\ VsInit /\ RgInit /\ part \in {"va_space", "ranges"}
    /\ part = "ranges" \/ rgSetup = Calls
MCNext ==
    \/ part = "va_space" /\ VsNext /\ UNCHANGED <<part, rgVars>>
    \/ part = "ranges" /\ RgNext /\ UNCHANGED <<part, vsVars>>
MCSpec == MCInit /\ [][MCNext]_<<part, vsVars, rgVars>>

(* What VA spaces and their ranges keep holds (VaSpace, Ranges).           *)
AddressSpacesExact == (part = "va_space" => VaSpaceExact) /\ (part = "ranges" => RangesExact)
================================================================================
