-------------------------------- MODULE DrmGem --------------------------------
(***************************************************************************)
(* nvidia-drm.ko's buffers (nvidia-drm-gem.c, -fb.c, -mmap.c, -linux.c):   *)
(* dumb buffers, imported NVKMS and user memory, their handles,            *)
(* framebuffers, user mappings and exports.                                *)
(*                                                                         *)
(* A reference is held by every handle, framebuffer, mapping and dma_buf,  *)
(* by a creation until its handle is published, and by a lookup under way. *)
(* drm_gem_object_unreference_unlocked takes struct_mutex only to free the *)
(* object with the last reference.                                         *)
(***************************************************************************)
EXTENDS Naturals, FiniteSets

CONSTANTS GemObj,      \* buffers
          GemNone,     \* no buffer
          GemMaxRefs,  \* bound on handles, and on mappings, of one buffer
          GemSetups    \* the setups to explore, see GemAssumption

(* meet: a handle may be closed while another thread creates it or looks   *)
(* it up.                                                                  *)
ASSUME GemAssumption ==
    /\ GemNone \notin GemObj /\ GemMaxRefs \in Nat \ {0}
    /\ \A s \in GemSetups : s.meet \in BOOLEAN

VARIABLES
    gem,      \* [GemObj -> struct nvidia_drm_gem_object and who refers to it]
    gemLock,  \* struct_mutex: [op, of], the call that holds it and its buffer
    gemSetup

gemVars == <<gem, gemLock, gemSetup>>

(* at: "none", "backed" (memory, no object yet) or "live"; new: where      *)
(* nvidia_drm_gem_new is; fb: "none", "making", "up" or "going"; mem:      *)
(* NVKMS's memory or the pinned pages; bad: the use of a freed object.     *)
NoGem == [at |-> "none", kind |-> "dumb", new |-> "no", refs |-> 0, handles |-> 0, fb |-> "none",
          surface |-> FALSE, vmas |-> 0, exported |-> FALSE, mem |-> FALSE, mapped |-> FALSE, bad |-> FALSE]

GemInit ==
    /\ gem = [o \in GemObj |-> NoGem]
    /\ gemLock = [op |-> "none", of |-> GemNone]
    /\ gemSetup \in GemSetups

GemUnlocked == gemLock.op = "none"
IsLive(o) == gem[o].at = "live"

(* nvidia_drm_gem_free: NVKMS's mapping and memory are given back, or the  *)
(* user's pages are unpinned.  Whoever is still inside keeps its place.    *)
nvidia_drm_gem_free(g) == [NoGem EXCEPT !.new = g.new, !.fb = g.fb, !.surface = g.surface, !.bad = g.bad \/ ~g.mem]

(* drm_gem_object_unreference_unlocked by a thread without struct_mutex    *)
(* waits for it if the reference is the last.                              *)
CanUnreference(o) == gem[o].refs > 1 \/ GemUnlocked
unreference(g) == IF g.refs = 1 THEN nvidia_drm_gem_free(g) ELSE [g EXCEPT !.refs = @ - 1]

(***************************************************************************)
(* Creating a buffer                                                       *)
(***************************************************************************)
Back(o, kind) ==
    /\ gem[o] = NoGem
    /\ gem' = [gem EXCEPT ![o] = [NoGem EXCEPT !.at = "backed", !.kind = kind, !.mem = TRUE, !.mapped = kind = "dumb"]]
    /\ UNCHANGED <<gemLock, gemSetup>>

(* Allocates and maps, imports, or pins all of the user's pages: a failure *)
(* leaves nothing.                                                         *)
nvidia_drm_dumb_create(o) == Back(o, "dumb")
nvidia_drm_gem_import_nvkms_memory(o) == Back(o, "nvkms")
nvidia_drm_gem_import_userspace_memory(o) == Back(o, "user")

(* nvidia_drm_gem_new, until drm_gem_handle_create has published the       *)
(* handle.  Without a handle the caller gives the memory back.             *)
nvidia_drm_gem_new(o) ==
    /\ gem[o].at = "backed"
    /\ \/ gem' = [gem EXCEPT ![o].at = "live", ![o].refs = 2, ![o].handles = 1, ![o].new = "unreference"]
       \/ gem' = [gem EXCEPT ![o] = NoGem]
    /\ UNCHANGED <<gemLock, gemSetup>>

(* The creation's own reference goes ...                                   *)
GemNewUnreferences(o) ==
    /\ gem[o].new = "unreference" /\ CanUnreference(o)
    /\ gem' = [gem EXCEPT ![o] = [unreference(gem[o]) EXCEPT !.new = "write"]]
    /\ UNCHANGED <<gemLock, gemSetup>>

(* ... before the handle is written into the object.                       *)
GemNewWritesHandle(o) ==
    /\ gem[o].new = "write"
    /\ gem' = [gem EXCEPT ![o].new = "no", ![o].bad = @ \/ gem[o].at # "live"]
    /\ UNCHANGED <<gemLock, gemSetup>>

(* The user closes a handle (drm_gem_handle_delete).                       *)
GemClose(o) ==
    /\ IsLive(o) /\ gem[o].handles > 0 /\ CanUnreference(o)
    /\ gemSetup.meet \/ (gem[o].new = "no" /\ gemLock.of # o)
    /\ gem' = [gem EXCEPT ![o] = unreference([gem[o] EXCEPT !.handles = @ - 1])]
    /\ UNCHANGED <<gemLock, gemSetup>>

(***************************************************************************)
(* Mapping it, under struct_mutex                                          *)
(***************************************************************************)
nvidia_drm_dumb_map_offset(o) ==
    /\ GemUnlocked /\ IsLive(o) /\ gem[o].handles > 0
    /\ gemLock' = [op |-> "offset", of |-> o]
    /\ gem' = [gem EXCEPT ![o].refs = @ + 1]
    /\ UNCHANGED gemSetup

(* nvidia_drm_gem_mmap finds the buffer by its address among the caller's  *)
(* handles.                                                                *)
nvidia_drm_gem_mmap(o) ==
    /\ GemUnlocked /\ IsLive(o) /\ gem[o].handles > 0 /\ gem[o].mapped /\ gem[o].vmas < GemMaxRefs
    /\ gemLock' = [op |-> "mmap", of |-> o]
    /\ gem' = [gem EXCEPT ![o].refs = @ + 1]
    /\ UNCHANGED gemSetup

(* The mapping takes the reference over.                                   *)
GemMapped ==
    /\ gemLock.op = "mmap"
    /\ gem' = [gem EXCEPT ![gemLock.of].vmas = @ + 1]
    /\ gemLock' = [op |-> "none", of |-> GemNone]
    /\ UNCHANGED gemSetup

(* nvidia_drm_dumb_map_offset always, and nvidia_drm_gem_mmap when it      *)
(* fails, drop their reference with struct_mutex held: the last one waits  *)
(* for the mutex of its own thread.                                        *)
UnreferenceLocked ==
    /\ gemLock.op \in {"offset", "mmap"}
    /\ IF gem[gemLock.of].refs = 1
       THEN gemLock' = [gemLock EXCEPT !.op = "stuck"] /\ UNCHANGED gem
       ELSE /\ gem' = [gem EXCEPT ![gemLock.of].refs = @ - 1]
            /\ gemLock' = [op |-> "none", of |-> GemNone]
    /\ UNCHANGED gemSetup

(* fork, and the end of a mapping.                                         *)
nvidia_drm_vma_open(o) ==
    /\ IsLive(o) /\ gem[o].vmas \in 1..(GemMaxRefs - 1)
    /\ gem' = [gem EXCEPT ![o].vmas = @ + 1, ![o].refs = @ + 1]
    /\ UNCHANGED <<gemLock, gemSetup>>

nvidia_drm_vma_release(o) ==
    /\ IsLive(o) /\ gem[o].vmas > 0 /\ CanUnreference(o)
    /\ gem' = [gem EXCEPT ![o] = unreference([gem[o] EXCEPT !.vmas = @ - 1])]
    /\ UNCHANGED <<gemLock, gemSetup>>

(***************************************************************************)
(* Framebuffers and exports                                                *)
(***************************************************************************)
(* internal_framebuffer_create keeps the lookup's reference, if the buffer *)
(* is NVKMS's ...                                                          *)
FramebufferLooksUp(o) ==
    /\ IsLive(o) /\ gem[o].handles > 0 /\ gem[o].fb = "none"
    /\ gem' = [gem EXCEPT ![o].fb = "making", ![o].refs = @ + 1]
    /\ UNCHANGED <<gemLock, gemSetup>>

FramebufferUp(o) == gem[o].kind # "user" /\ gem' = [gem EXCEPT ![o].fb = "up", ![o].surface = TRUE]

(* Mutant: the lookup's reference is kept whatever happens.                *)
failure_keeps_reference(o) ==
    /\ gem[o].fb = "making" /\ CanUnreference(o)
    /\ FramebufferUp(o) \/ gem' = [gem EXCEPT ![o].fb = "none"]
    /\ UNCHANGED <<gemLock, gemSetup>>

(* ... and gives it back when the framebuffer or its surface fails.        *)
internal_framebuffer_create(o) ==
    /\ gem[o].fb = "making" /\ CanUnreference(o)
    /\ \/ FramebufferUp(o)
       \/ gem' = [gem EXCEPT ![o] = unreference([gem[o] EXCEPT !.fb = "none"])]
    /\ UNCHANGED <<gemLock, gemSetup>>

nvidia_framebuffer_create_handle(o) ==
    /\ gem[o].fb = "up" /\ gem[o].handles < GemMaxRefs
    /\ gem' = [gem EXCEPT ![o].handles = @ + 1, ![o].refs = @ + 1]
    /\ UNCHANGED <<gemLock, gemSetup>>

(* nvidia_framebuffer_destroy: the buffer's reference goes first, then the *)
(* surface that shows it.                                                  *)
nvidia_framebuffer_destroy(o) ==
    /\ gem[o].fb = "up" /\ CanUnreference(o)
    /\ gem' = [gem EXCEPT ![o] = unreference([gem[o] EXCEPT !.fb = "going"])]
    /\ UNCHANGED <<gemLock, gemSetup>>

destroySurface(o) ==
    /\ gem[o].fb = "going"
    /\ gem' = [gem EXCEPT ![o].fb = "none", ![o].surface = FALSE]
    /\ UNCHANGED <<gemLock, gemSetup>>

(* Only user memory is exported; the dma_buf holds a reference.            *)
nvidia_drm_gem_prime_export(o) ==
    /\ IsLive(o) /\ gem[o].handles > 0 /\ gem[o].kind = "user" /\ ~gem[o].exported
    /\ gem' = [gem EXCEPT ![o].exported = TRUE, ![o].refs = @ + 1]
    /\ UNCHANGED <<gemLock, gemSetup>>

DmaBufReleased(o) ==
    /\ IsLive(o) /\ gem[o].exported /\ CanUnreference(o)
    /\ gem' = [gem EXCEPT ![o] = unreference([gem[o] EXCEPT !.exported = FALSE])]
    /\ UNCHANGED <<gemLock, gemSetup>>

GemNext ==
    \/ \E o \in GemObj :
         \/ nvidia_drm_dumb_create(o) \/ nvidia_drm_gem_import_nvkms_memory(o)
         \/ nvidia_drm_gem_import_userspace_memory(o)
         \/ nvidia_drm_gem_new(o) \/ GemNewUnreferences(o) \/ GemNewWritesHandle(o) \/ GemClose(o)
         \/ nvidia_drm_dumb_map_offset(o) \/ nvidia_drm_gem_mmap(o)
         \/ nvidia_drm_vma_open(o) \/ nvidia_drm_vma_release(o)
         \/ FramebufferLooksUp(o) \/ internal_framebuffer_create(o)
         \/ nvidia_framebuffer_create_handle(o) \/ nvidia_framebuffer_destroy(o) \/ destroySurface(o)
         \/ nvidia_drm_gem_prime_export(o) \/ DmaBufReleased(o)
    \/ GemMapped \/ UnreferenceLocked

GemSpec == GemInit /\ [][GemNext]_gemVars

(***************************************************************************)
(* Properties                                                              *)
(***************************************************************************)
One_if(b) == IF b THEN 1 ELSE 0

(* A buffer lives exactly as long as a handle, framebuffer, mapping,       *)
(* export, creation or lookup refers to it, its memory as long as it, and  *)
(* unless a handle is closed under another thread's feet nobody touches a  *)
(* freed buffer and nobody waits for a mutex of its own                    *)
(* (drm_gem_object_unreference_unlocked in nvidia_drm_dumb_map_offset and  *)
(* nvidia_drm_gem_mmap, the handle that nvidia_drm_gem_new writes last).   *)
GemExact ==
    /\ \A o \in GemObj :
         /\ gem[o].refs = gem[o].handles + gem[o].vmas + One_if(gem[o].fb \in {"making", "up"})
                          + One_if(gem[o].exported) + One_if(gem[o].new = "unreference")
                          + One_if(gemLock.of = o)
         /\ IsLive(o) <=> gem[o].refs > 0
         /\ gem[o].mem <=> gem[o].at # "none"
         /\ gem[o].surface => gem[o].fb \in {"up", "going"}
    /\ ~gemSetup.meet => gemLock.op # "stuck" /\ \A o \in GemObj : ~gem[o].bad
================================================================================
