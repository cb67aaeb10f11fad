------------------------------ MODULE ChunkRing ------------------------------
(***************************************************************************)
(* Where a chunk of the pushbuffer can take its next push (update_chunk in *)
(* uvm8_pushbuffer.c).  A chunk is roughly a ring: the space from the      *)
(* first pending push to the end of the last one is in use, a push never   *)
(* wraps, and a push is given UVM_MAX_PUSH_SIZE to be written in.          *)
(***************************************************************************)
EXTENDS Integers, Sequences

CONSTANTS ChunkSize,    \* UVM_PUSHBUFFER_CHUNK_SIZE
          MaxPushSize   \* UVM_MAX_PUSH_SIZE

ASSUME ChunkRingAssumption ==
    /\ MaxPushSize \in Nat \ {0}
    /\ ChunkSize \in Nat
    /\ MaxPushSize <= ChunkSize

NoSpace == -1

\* chunk_get_gpu_get and chunk_get_cpu_put of a list of [start, size, ...]
chunk_get_gpu_get(list) == list[1].start
chunk_get_cpu_put(list) == list[Len(list)].start + list[Len(list)].size

\* The next push's start, or NoSpace.
SpaceFor(list) ==
    LET get == chunk_get_gpu_get(list)
        put == chunk_get_cpu_put(list)
    IN  IF list = <<>> THEN 0
        ELSE IF get = put THEN NoSpace
        ELSE IF get > put THEN IF get - put >= MaxPushSize THEN put ELSE NoSpace
        ELSE IF ChunkSize >= put + MaxPushSize THEN put
        ELSE IF get >= MaxPushSize THEN 0
        ELSE NoSpace
=============================================================================
