--------------------------- MODULE CompletionSpec ---------------------------
(***************************************************************************)
(* What a channel's tracking semaphore promises its users, with the        *)
(* representation left out: the driver numbers the pushes of a channel 1,  *)
(* 2, 3, ..., the GPU finishes them in that order, and what the driver     *)
(* knows of the GPU's progress only grows and is never ahead of the GPU.   *)
(* The driver queues a push only while fewer than Window pushes are not    *)
(* known to be finished.                                                   *)
(***************************************************************************)
EXTENDS Integers

CONSTANT Window      \* pushes that may be pending at once

VARIABLES queued,    \* pushes handed to the GPU
          released,  \* pushes the GPU has finished
          known      \* pushes the driver knows to be finished

cvars == <<queued, released, known>>

CInit == queued = 0 /\ released = 0 /\ known = 0

Queue ==
    /\ queued - known < Window
    /\ queued' = queued + 1
    /\ UNCHANGED <<released, known>>

Release ==
    /\ released < queued
    /\ released' = released + 1
    /\ UNCHANGED <<queued, known>>

Observe ==
    /\ known < released
    /\ known' \in (known + 1) .. released
    /\ UNCHANGED <<queued, released>>

CNext == Queue \/ Release \/ Observe

CSpec == CInit /\ [][CNext]_cvars
=============================================================================
