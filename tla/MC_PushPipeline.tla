-------------------------- MODULE MC_PushPipeline --------------------------
(***************************************************************************)
(* Instances of the push pipeline: small rings and chunks in which every   *)
(* boundary is reached within a few pushes.                                *)
(***************************************************************************)
EXTENDS PushPipeline, TLC

CONSTANTS c1, c2, t1, t2

OneChannel == <<c1>>
TwoChannels == <<c1, c2>>
Symmetry == Permutations(Threads)
=============================================================================
