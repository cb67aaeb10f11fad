-------------------------------- MODULE VaSpace --------------------------------
(***************************************************************************)
(* A UVM VA space (uvm8_va_space.c) with what can be registered in it: the *)
(* GPUs, their RM address spaces (uvm_gpu_va_space_t), the peers, the      *)
(* user's channels (uvm8_user_channel.c) and the external allocations      *)
(* (uvm8_map_external.c), against the reference counts that keep GPUs and  *)
(* objects alive while the VA space lock is dropped between two sections   *)
(* of one call.                                                            *)
(*                                                                         *)
(* Every section under the VA space lock in write mode, or in read_rm mode *)
(* (read mode plus serialize_writers_lock), excludes every other such      *)
(* section: a section is one action.  A call that drops and takes the lock *)
(* again is several actions, and between them the other threads run.  So   *)
(* is the list of objects a call frees once the lock is dropped.           *)
(***************************************************************************)
EXTENDS Naturals, FiniteSets, FiniteSetsExt

CONSTANTS VsThread,      \* threads inside the driver
          VsGpu,         \* GPUs
          VsChannel,     \* channels of the user, by their RM handles
          ChannelGpu,    \* the GPU each of them runs on
          GpuVaSpace,    \* uvm_gpu_va_space_t objects
          UserChannel,   \* uvm_user_channel_t objects
          Faultable,     \* GPUs with handling_replayable_faults
          BigPageSize,   \* big page sizes RM may give to an address space of a GPU
          PeerCopies, PeerNvlink, PeerAtomics,  \* what RM reports of two GPUs
          NoObject, UVM_CPU_ID, SYSMEM

ASSUME VsAssumption ==
    /\ ChannelGpu \in [VsChannel -> VsGpu]
    /\ Faultable \subseteq VsGpu
    /\ BigPageSize \in [VsGpu -> SUBSET Nat]
    /\ {PeerCopies, PeerNvlink, PeerAtomics} \subseteq BOOLEAN
    /\ NoObject \notin GpuVaSpace \union UserChannel \union VsThread
    /\ UVM_CPU_ID \notin VsGpu /\ SYSMEM \notin VsGpu

VARIABLES
    vaSpace,      \* the fields of uvm_va_space_t
    gpuVaSpace,   \* [GpuVaSpace -> its fields]
    userChannel,  \* [UserChannel -> its fields]
    instancePtrs, \* instance_ptr_table of the GPUs: channels that have an entry
    retained,     \* [VsGpu -> retained_count]; 0: the GPU is not there
    peerRefs,     \* [pair of GPUs -> registered_ref_count of its capabilities]
    vsCall        \* [VsThread -> the call it is in]

vsVars == <<vaSpace, gpuVaSpace, userChannel, instancePtrs, retained, peerRefs, vsCall>>

Processor == VsGpu \union {UVM_CPU_ID}
Pairs == {p \in SUBSET VsGpu : Cardinality(p) = 2}
MaskNames == {"can_access", "accessible_from", "can_copy_from", "has_nvlink_to",
              "has_nvlink_from", "has_native_atomics"}
PeerMasks == {"can_access", "accessible_from"}
             \union (IF PeerCopies THEN {"can_copy_from"} ELSE {})
             \union (IF PeerNvlink THEN {"has_nvlink_to", "has_nvlink_from"} ELSE {})
             \union (IF PeerAtomics THEN {"has_native_atomics"} ELSE {})

(***************************************************************************)
(* State.  ext is the external range of the model: ext.on[g] is the GPU    *)
(* that owns the memory g maps (or SYSMEM), NoObject when g maps nothing.  *)
(***************************************************************************)
NewMasks == [m \in MaskNames |-> [p \in Processor |->
                IF p = UVM_CPU_ID /\ m \notin {"has_nvlink_to", "has_nvlink_from"}
                THEN {UVM_CPU_ID} ELSE {}]]
NoExternal == [here |-> FALSE, on |-> [g \in VsGpu |-> NoObject]]

uvm_va_space_create ==
    [open |-> TRUE, registered_gpus |-> {}, in_progress |-> {}, peers |-> {},
     gpu_va_spaces |-> [g \in VsGpu |-> NoObject], masks |-> NewMasks,
     faultable |-> {UVM_CPU_ID}, atomics |-> {UVM_CPU_ID}, stopped |-> FALSE,
     ext |-> NoExternal]

FreeGvs == [kref |-> 0, gpu |-> NoObject, attached |-> FALSE, rm |-> FALSE,
            size |-> 0, disallow |-> FALSE, local |-> 0, local_mapped |-> FALSE]
FreeChannel == [kref |-> 0, chan |-> NoObject, gvs |-> NoObject, listed |-> FALSE,
                bound |-> FALSE, rm |-> FALSE, ranges |-> FALSE]
Idle == [at |-> "idle", gpu |-> NoObject, obj |-> NoObject, free |-> {},
         then |-> "release", gpus |-> {}, pairs |-> {}]

VsInit ==
    /\ vaSpace = uvm_va_space_create
    /\ gpuVaSpace = [o \in GpuVaSpace |-> FreeGvs]
    /\ userChannel = [u \in UserChannel |-> FreeChannel]
    /\ instancePtrs = {}
    /\ retained = [g \in VsGpu |-> 0]
    /\ peerRefs = [p \in Pairs |-> 0]
    /\ vsCall = [t \in VsThread |-> Idle]

(***************************************************************************)
(* uvm_gpu_retain*, uvm_gpu_release*: n[g] references more or less.        *)
(***************************************************************************)
One(G) == [g \in VsGpu |-> IF g \in G THEN 1 ELSE 0]
uvm_gpu_retain(r, n) == [g \in VsGpu |-> r[g] + n[g]]
uvm_gpu_release(r, n) == [g \in VsGpu |-> r[g] - n[g]]

(***************************************************************************)
(* The functions below work on w, the parts of the state that a section    *)
(* under the lock changes, with the list of objects to free afterwards.    *)
(***************************************************************************)
World == [vs |-> vaSpace, gv |-> gpuVaSpace, uc |-> userChannel, ip |-> instancePtrs,
          ret |-> retained, free |-> {}]
Become(w) == /\ vaSpace' = w.vs /\ gpuVaSpace' = w.gv /\ userChannel' = w.uc
             /\ instancePtrs' = w.ip /\ retained' = w.ret

PutGvs(gv, o) == [gv EXCEPT ![o] = IF @.kref = 1 THEN FreeGvs ELSE [@ EXCEPT !.kref = @ - 1]]
PutChannel(uc, u) == [uc EXCEPT ![u] = IF @.kref = 1 THEN FreeChannel ELSE [@ EXCEPT !.kref = @ - 1]]

(* uvm_user_channel_detach of the channels U, all of one GPU VA space o:   *)
(* their instance pointers leave the table, their ranges drop a reference  *)
(* of the range they share (destroyed, with its PTEs, at zero).            *)
uvm_user_channel_detach(w, o, U) ==
    LET left == w.gv[o].local - Cardinality({u \in U : w.uc[u].ranges}) IN
    [w EXCEPT !.ip = @ \ {w.uc[u].chan : u \in U},
              !.uc = [u \in UserChannel |->
                        IF u \in U THEN [@[u] EXCEPT !.listed = FALSE, !.gvs = NoObject, !.ranges = FALSE]
                                   ELSE @[u]],
              !.gv[o].local = left,
              !.gv[o].local_mapped = @ /\ left > 0,
              !.free = @ \union {<<"channel", u>> : u \in U}]

(* Mutant: the owner is not retained while its handle waits to be freed.   *)
ext_map_owner_not_retained(w, G) ==
    LET M == {g \in G : w.vs.ext.on[g] # NoObject} IN
    [w EXCEPT !.vs.ext.on = [g \in VsGpu |-> IF g \in M THEN NoObject ELSE @[g]],
              !.free = @ \union {<<"external", m, w.vs.ext.on[m]>> : m \in M}]

(* uvm_ext_gpu_map_destroy with a list: the owner is retained until the    *)
(* duplicated handle is freed.                                             *)
uvm_ext_gpu_map_destroy(w, G) ==
    LET M == {g \in G : w.vs.ext.on[g] # NoObject} IN
    [w EXCEPT !.vs.ext.on = [g \in VsGpu |-> IF g \in M THEN NoObject ELSE @[g]],
              !.ret = [g \in VsGpu |-> @[g] + Cardinality({m \in M : w.vs.ext.on[m] = g})],
              !.free = @ \union {<<"external", m, w.vs.ext.on[m]>> : m \in M}]

remove_gpu_va_space(w, o) ==
    IF o = NoObject \/ ~w.gv[o].attached THEN w ELSE
    LET g == w.gv[o].gpu
        d == uvm_user_channel_detach(w, o, {u \in UserChannel : w.uc[u].listed /\ w.uc[u].gvs = o})
        e == uvm_ext_gpu_map_destroy(d, {g})
    IN [e EXCEPT !.vs.gpu_va_spaces[g] = NoObject,
                 !.gv[o].attached = FALSE,
                 !.free = @ \union {<<"gpu_va_space", o>>}]

(* disable_peers: external maps through the peer aperture go first.        *)
disable_peers(w, g, h) ==
    IF {g, h} \notin w.vs.peers THEN w ELSE
    LET e == uvm_ext_gpu_map_destroy(w, {m \in {g, h} : w.vs.ext.on[m] \in {g, h} \ {m}})
    IN [e EXCEPT !.vs.peers = @ \ {{g, h}},
                 !.vs.masks = [m \in MaskNames |->
                    [@[m] EXCEPT ![g] = @ \ {h}, ![h] = @ \ {g}]]]

disable_all_peers(w, g) ==
    FoldSet(LAMBDA h, v : disable_peers(v, g, h), w, w.vs.registered_gpus \ {g})

unregister_gpu(w, g) ==
    LET a == remove_gpu_va_space(w, w.vs.gpu_va_spaces[g])
        b == uvm_ext_gpu_map_destroy(a, {m \in VsGpu : a.vs.ext.on[m] = g})
        c == disable_all_peers(b, g)
        m == c.vs.masks
    IN [c EXCEPT !.vs.faultable = IF g \in Faultable THEN @ \ {g} ELSE @,
                 !.vs.atomics = @ \ {g},
                 !.vs.masks = [m EXCEPT
                    !["can_access"][g] = @ \ {g, UVM_CPU_ID},
                    !["accessible_from"] = [m["accessible_from"] EXCEPT ![g] = @ \ {g}, ![UVM_CPU_ID] = @ \ {g}],
                    !["can_copy_from"] = [m["can_copy_from"] EXCEPT ![g] = @ \ {g}, ![UVM_CPU_ID] = @ \ {g}],
                    !["has_native_atomics"][g] = @ \ {g}],
                 !.vs.registered_gpus = @ \ {g}]

(* uvm_user_channel_stop of the channels of the GPU VA spaces O.           *)
uvm_user_channel_stop(uc, O) ==
    [u \in UserChannel |-> IF uc[u].listed /\ uc[u].gvs \in O
                           THEN [uc[u] EXCEPT !.bound = FALSE] ELSE uc[u]]

Goto(t, c) == vsCall' = [vsCall EXCEPT ![t] = c]
At(t, l) == vsCall[t].at = l
Return(t) == Goto(t, Idle)
Callable(t) == At(t, "idle") /\ vaSpace.open

(***************************************************************************)
(* uvm_va_space_register_gpu and uvm_va_space_unregister_gpu               *)
(***************************************************************************)
register_gpu_retain(t, g) ==
    /\ Callable(t)
    /\ retained' = uvm_gpu_retain(retained, One({g}))
    /\ Goto(t, [Idle EXCEPT !.at = "register_gpu", !.gpu = g])
    /\ UNCHANGED <<vaSpace, gpuVaSpace, userChannel, instancePtrs, peerRefs>>

uvm_va_space_register_gpu(t) ==
    LET g == vsCall[t].gpu
        m == vaSpace.masks
    IN
    /\ At(t, "register_gpu")
    /\ IF g \in vaSpace.registered_gpus
       THEN retained' = uvm_gpu_release(retained, One({g})) /\ UNCHANGED vaSpace
       ELSE /\ vaSpace' = [vaSpace EXCEPT
                 !.registered_gpus = @ \union {g},
                 !.faultable = @ \union ({g} \intersect Faultable),
                 !.atomics = @ \union ({g} \intersect Faultable),
                 !.masks = [m EXCEPT
                    !["can_access"][g] = @ \union {g, UVM_CPU_ID},
                    !["accessible_from"] = [m["accessible_from"] EXCEPT ![g] = @ \union {g}, ![UVM_CPU_ID] = @ \union {g}],
                    !["can_copy_from"] = [m["can_copy_from"] EXCEPT ![g] = @ \union {g}, ![UVM_CPU_ID] = @ \union {g}],
                    !["has_native_atomics"][g] = @ \union {g}]]
            /\ UNCHANGED retained
    /\ Return(t)
    /\ UNCHANGED <<gpuVaSpace, userChannel, instancePtrs, peerRefs>>

(* First section: mark the GPU, stop its channels, forbid new ones.        *)
unregister_gpu_stop(t, g) ==
    LET o == vaSpace.gpu_va_spaces[g] IN
    /\ Callable(t)
    /\ g \in vaSpace.registered_gpus \ vaSpace.in_progress
    /\ vaSpace' = [vaSpace EXCEPT !.in_progress = @ \union {g}]
    /\ userChannel' = uvm_user_channel_stop(userChannel, {o})
    /\ gpuVaSpace' = IF o = NoObject THEN gpuVaSpace ELSE [gpuVaSpace EXCEPT ![o].disallow = TRUE]
    /\ retained' = uvm_gpu_retain(retained, One({g}))
    /\ Goto(t, [Idle EXCEPT !.at = "unregister_gpu", !.gpu = g])
    /\ UNCHANGED <<instancePtrs, peerRefs>>

(* Second section, and the reference taken by the first.                   *)
uvm_va_space_unregister_gpu(t) ==
    LET g == vsCall[t].gpu
        w == unregister_gpu(World, g)
    IN
    /\ At(t, "unregister_gpu")
    /\ Become([w EXCEPT !.vs.in_progress = @ \ {g}, !.ret = uvm_gpu_release(@, One({g}))])
    /\ Goto(t, [vsCall[t] EXCEPT !.at = "free", !.free = w.free, !.gpus = {g},
                                 !.pairs = {p \in vaSpace.peers : g \in p}])
    /\ UNCHANGED peerRefs

(***************************************************************************)
(* uvm_va_space_enable_peer_access and uvm_va_space_disable_peer_access    *)
(***************************************************************************)
retain_peers_from_uuids(t, g, h) ==
    /\ Callable(t)
    /\ g # h /\ retained[g] > 0 /\ retained[h] > 0
    /\ retained' = uvm_gpu_retain(retained, One({g, h}))
    /\ peerRefs' = [peerRefs EXCEPT ![{g, h}] = @ + 1]
    /\ Goto(t, [Idle EXCEPT !.at = "enable_peer", !.pairs = {{g, h}}])
    /\ UNCHANGED <<vaSpace, gpuVaSpace, userChannel, instancePtrs>>

SameBigPageSize(gv, o, p) == o # NoObject /\ p # NoObject => gv[o].size = gv[p].size

(* ranges_fail: uvm_va_range_enable_peer fails for a managed range, and    *)
(* disable_peers takes everything back.                                    *)
uvm_va_space_enable_peer_access(t, ranges_fail) ==
    \E g, h \in VsGpu :
    LET valid == /\ {g, h} \subseteq vaSpace.registered_gpus
                 /\ {g, h} \notin vaSpace.peers
                 /\ SameBigPageSize(gpuVaSpace, vaSpace.gpu_va_spaces[g], vaSpace.gpu_va_spaces[h])
    IN
    /\ At(t, "enable_peer") /\ vsCall[t].pairs = {{g, h}}
    /\ IF valid
       THEN LET e == [World EXCEPT
                        !.vs.peers = @ \union {{g, h}},
                        !.vs.masks = [m \in MaskNames |->
                            IF m \in PeerMasks
                            THEN [@[m] EXCEPT ![g] = @ \union {h}, ![h] = @ \union {g}]
                            ELSE @[m]]]
            IN Become(IF ranges_fail THEN disable_peers(e, g, h) ELSE e)
       ELSE Become(World)
    /\ IF valid /\ ~ranges_fail THEN Return(t)
       ELSE Goto(t, [vsCall[t] EXCEPT !.at = "release"])
    /\ UNCHANGED peerRefs

uvm_va_space_disable_peer_access(t, g, h) ==
    LET w == disable_peers(World, g, h) IN
    /\ Callable(t)
    /\ {g, h} \in vaSpace.peers
    /\ Become(w)
    /\ Goto(t, [Idle EXCEPT !.at = "free", !.free = w.free, !.pairs = {{g, h}}])
    /\ UNCHANGED peerRefs

(***************************************************************************)
(* uvm_va_space_register_gpu_va_space and ..._unregister_gpu_va_space      *)
(***************************************************************************)
(* create_gpu_va_space, before the lock: RM's address space is duplicated  *)
(* and given UVM's page directory.  A failure there leaves nothing.        *)
create_gpu_va_space(t, g, o, size) ==
    /\ Callable(t)
    /\ gpuVaSpace[o].kref = 0
    /\ gpuVaSpace' = [gpuVaSpace EXCEPT ![o] =
                        [FreeGvs EXCEPT !.kref = 1, !.gpu = g, !.rm = TRUE, !.size = size]]
    /\ retained' = uvm_gpu_retain(retained, One({g}))
    /\ Goto(t, [Idle EXCEPT !.at = "add_gpu_va_space", !.obj = o, !.gpus = {g}])
    /\ UNCHANGED <<vaSpace, userChannel, instancePtrs, peerRefs>>

(* ranges_fail: uvm_va_range_add_gpu_va_space fails for a range.           *)
uvm_va_space_register_gpu_va_space(t, ranges_fail) ==
    LET o == vsCall[t].obj
        g == gpuVaSpace[o].gpu
        valid == /\ g \in vaSpace.registered_gpus \ vaSpace.in_progress
                 /\ vaSpace.gpu_va_spaces[g] = NoObject
                 /\ \A h \in VsGpu : {g, h} \in vaSpace.peers =>
                        SameBigPageSize(gpuVaSpace, o, vaSpace.gpu_va_spaces[h])
        a == [World EXCEPT !.vs.gpu_va_spaces[g] = o, !.gv[o].attached = TRUE]
    IN
    /\ At(t, "add_gpu_va_space")
    /\ Become(IF ~valid THEN World ELSE IF ranges_fail THEN remove_gpu_va_space(a, o) ELSE a)
    /\ IF valid /\ ~ranges_fail
       THEN Goto(t, [vsCall[t] EXCEPT !.at = "release"])
       ELSE Goto(t, [vsCall[t] EXCEPT !.at = "free", !.free = {<<"gpu_va_space", o>>}])
    /\ UNCHANGED peerRefs

unregister_gpu_va_space_stop(t, g) ==
    LET o == vaSpace.gpu_va_spaces[g] IN
    /\ Callable(t)
    /\ o # NoObject
    /\ userChannel' = uvm_user_channel_stop(userChannel, {o})
    /\ gpuVaSpace' = [gpuVaSpace EXCEPT ![o].disallow = TRUE, ![o].kref = @ + 1]
    /\ retained' = uvm_gpu_retain(retained, One({g}))
    /\ Goto(t, [Idle EXCEPT !.at = "remove_gpu_va_space", !.obj = o, !.gpus = {g}])
    /\ UNCHANGED <<vaSpace, instancePtrs, peerRefs>>

uvm_va_space_unregister_gpu_va_space(t) ==
    LET w == remove_gpu_va_space(World, vsCall[t].obj) IN
    /\ At(t, "remove_gpu_va_space")
    /\ Become(w)
    /\ Goto(t, [vsCall[t] EXCEPT !.at = "free", !.free = w.free, !.then = "put_gpu_va_space"])
    /\ UNCHANGED peerRefs

uvm_gpu_va_space_release(t) ==
    /\ At(t, "put_gpu_va_space")
    /\ gpuVaSpace' = PutGvs(gpuVaSpace, vsCall[t].obj)
    /\ Goto(t, [vsCall[t] EXCEPT !.at = "release"])
    /\ UNCHANGED <<vaSpace, userChannel, instancePtrs, retained, peerRefs>>

(***************************************************************************)
(* uvm_register_channel and uvm_unregister_channel.  Each channel has a    *)
(* range that the channels of its GPU VA space share.                      *)
(***************************************************************************)
uvm_user_channel_create(t, c, u) ==
    LET g == ChannelGpu[c]
        o == vaSpace.gpu_va_spaces[g]
    IN
    /\ Callable(t)
    /\ o # NoObject /\ userChannel[u].kref = 0
    /\ userChannel' = [userChannel EXCEPT ![u] =
                        [FreeChannel EXCEPT !.kref = 1, !.chan = c, !.gvs = o, !.rm = TRUE]]
    /\ gpuVaSpace' = [gpuVaSpace EXCEPT ![o].kref = @ + 1]
    /\ retained' = uvm_gpu_retain(retained, One({g}))
    /\ Goto(t, [Idle EXCEPT !.at = "register_channel", !.obj = u, !.gpus = {g}])
    /\ UNCHANGED <<vaSpace, instancePtrs, peerRefs>>

find_user_channel(c) == {v \in UserChannel : userChannel[v].listed /\ userChannel[v].chan = c}

uvm_register_channel_under_write(o, c) ==
    ~vaSpace.stopped /\ ~gpuVaSpace[o].disallow /\ find_user_channel(c) = {}

(* The channel is listed with its ranges: the first channel of the GPU VA  *)
(* space creates the shared one, the others take a reference.              *)
create_va_ranges(w, o, u) ==
    [w EXCEPT !.uc[u].listed = TRUE, !.uc[u].ranges = TRUE, !.gv[o].local = @ + 1]

(* Once mapped and known by its instance pointer the channel is bound.     *)
uvm_user_channel_map_resources(w, o) == [w EXCEPT !.gv[o].local_mapped = TRUE]
uvm_gpu_add_user_channel(w, c) == [w EXCEPT !.ip = @ \union {c}]
bind_channel_resources(w, u) == [w EXCEPT !.uc[u].bound = TRUE]

(* The section that takes the lock again in write mode and then downgrades *)
(* it.  fails: "" or the step that fails: "ranges" (the addresses are in   *)
(* use, or create_va_ranges fails), "map" (map_resources, which may have   *)
(* mapped the shared range before it failed), "bind" (the instance pointer *)
(* or bind_channel_resources).                                             *)
uvm_register_channel(t, fails) ==
    LET u == vsCall[t].obj
        o == userChannel[u].gvs
        c == userChannel[u].chan
        gone == ~gpuVaSpace[o].attached
        w == [World EXCEPT !.gv = PutGvs(@, o)]
        listed == create_va_ranges(w, o, u)
        free(v) == /\ Become(v)
                   /\ Goto(t, [vsCall[t] EXCEPT !.at = "free", !.free = v.free])
    IN
    /\ At(t, "register_channel")
    /\ UNCHANGED peerRefs
    /\ \/ /\ gone /\ fails = ""
          /\ free([w EXCEPT !.uc[u].gvs = NoObject, !.free = {<<"channel", u>>}])
       \/ /\ ~gone
          /\ \/ fails = "ranges"
             \/ fails = "" /\ ~uvm_register_channel_under_write(o, c)
          /\ free(uvm_user_channel_detach(w, o, {u}))
       \/ /\ ~gone /\ fails \in {"map", "bind"}
          /\ uvm_register_channel_under_write(o, c)
          /\ \E mapped \in IF fails = "bind" THEN {TRUE} ELSE {gpuVaSpace[o].local_mapped, TRUE} :
             \E known \in IF fails = "bind" THEN BOOLEAN ELSE {FALSE} :
                Become([listed EXCEPT !.gv[o].local_mapped = mapped, !.uc[u].kref = @ + 1,
                                      !.ip = IF known THEN @ \union {c} ELSE @])
          /\ Goto(t, [vsCall[t] EXCEPT !.at = "register_error"])
       \/ /\ ~gone /\ fails = ""
          /\ uvm_register_channel_under_write(o, c)
          /\ Become(bind_channel_resources(
                        uvm_gpu_add_user_channel(uvm_user_channel_map_resources(listed, o), c), u))
          /\ Goto(t, [vsCall[t] EXCEPT !.at = "release"])

(* error_under_read: another thread may have detached the channel since.   *)
register_channel_error(t) ==
    LET u == vsCall[t].obj
        o == userChannel[u].gvs
        w == IF o = NoObject THEN World ELSE uvm_user_channel_detach(World, o, {u})
    IN
    /\ At(t, "register_error")
    /\ Become(w)
    /\ Goto(t, [vsCall[t] EXCEPT !.at = "free", !.free = w.free, !.then = "put_channel"])
    /\ UNCHANGED peerRefs

uvm_user_channel_release(t) ==
    /\ At(t, "put_channel")
    /\ userChannel' = PutChannel(userChannel, vsCall[t].obj)
    /\ Goto(t, [vsCall[t] EXCEPT !.at = "release"])
    /\ UNCHANGED <<vaSpace, gpuVaSpace, instancePtrs, retained, peerRefs>>

unregister_channel_stop(t, c) ==
    /\ Callable(t)
    /\ \E u \in find_user_channel(c) :
        /\ userChannel' = [userChannel EXCEPT ![u].kref = @ + 1, ![u].bound = FALSE]
        /\ Goto(t, [Idle EXCEPT !.at = "unregister_channel", !.obj = u])
    /\ UNCHANGED <<vaSpace, gpuVaSpace, instancePtrs, retained, peerRefs>>

uvm_unregister_channel(t) ==
    LET u == vsCall[t].obj
        o == userChannel[u].gvs
        g == gpuVaSpace[o].gpu
        w == uvm_user_channel_detach(World, o, {u})
    IN
    /\ At(t, "unregister_channel")
    /\ IF o = NoObject
       THEN Become(World) /\ Goto(t, [vsCall[t] EXCEPT !.at = "put_channel"])
       ELSE /\ Become([w EXCEPT !.ret = uvm_gpu_retain(@, One({g}))])
            /\ Goto(t, [vsCall[t] EXCEPT !.at = "free", !.free = w.free, !.then = "put_channel", !.gpus = {g}])
    /\ UNCHANGED peerRefs

(***************************************************************************)
(* uvm_map_external_allocation on the GPUs G of memory owned by `owner`;   *)
(* uvm_unmap_external_allocation; uvm_free.  They end the section under    *)
(* the lock, or free the duplicated handles after it.                      *)
(***************************************************************************)
MayMapExternal(g, owner) ==
    /\ vaSpace.gpu_va_spaces[g] # NoObject
    /\ vaSpace.ext.on[g] = NoObject
    /\ owner # SYSMEM => /\ owner \in vaSpace.registered_gpus
                         /\ owner # g => {g, owner} \in vaSpace.peers

(* All of G or, after an error, none: what the call mapped it unmaps, and  *)
(* a range left without maps is destroyed.  That takes the lock again: the *)
(* range may have been mapped, or destroyed, by another thread by then.    *)
uvm_map_external_allocation(t, G, owner) ==
    /\ Callable(t)
    /\ \A g \in G : MayMapExternal(g, owner)
    /\ vaSpace' = [vaSpace EXCEPT !.ext = [here |-> TRUE, on |->
                        [g \in VsGpu |-> IF g \in G THEN owner ELSE vaSpace.ext.on[g]]]]
    /\ UNCHANGED <<gpuVaSpace, userChannel, instancePtrs, retained, peerRefs, vsCall>>

map_external_fails(t) ==
    /\ Callable(t)
    /\ \A g \in VsGpu : vaSpace.ext.on[g] = NoObject
    /\ vaSpace' = [vaSpace EXCEPT !.ext.here = TRUE]
    /\ Goto(t, [Idle EXCEPT !.at = "map_error"])
    /\ UNCHANGED <<gpuVaSpace, userChannel, instancePtrs, retained, peerRefs>>

map_external_error(t) ==
    /\ At(t, "map_error")
    /\ vaSpace' = IF \A g \in VsGpu : vaSpace.ext.on[g] = NoObject
                  THEN [vaSpace EXCEPT !.ext.here = FALSE] ELSE vaSpace
    /\ Return(t)
    /\ UNCHANGED <<gpuVaSpace, userChannel, instancePtrs, retained, peerRefs>>

uvm_unmap_external_allocation(t, g) ==
    LET w == uvm_ext_gpu_map_destroy(World, {g}) IN
    /\ Callable(t)
    /\ g \in vaSpace.registered_gpus /\ vaSpace.ext.on[g] # NoObject
    /\ Become([w EXCEPT !.ret = uvm_gpu_retain(@, One({g}))])
    /\ Goto(t, [Idle EXCEPT !.at = "free", !.free = w.free, !.gpus = {g}])
    /\ UNCHANGED peerRefs

uvm_free(t) ==
    LET G == {g \in VsGpu : vaSpace.ext.on[g] # NoObject}
        w == uvm_ext_gpu_map_destroy(World, G)
    IN
    /\ Callable(t)
    /\ vaSpace.ext.here
    /\ Become([w EXCEPT !.vs.ext.here = FALSE, !.ret = uvm_gpu_retain(@, One(G))])
    /\ Goto(t, [Idle EXCEPT !.at = "free", !.free = w.free, !.gpus = G])
    /\ UNCHANGED peerRefs

(***************************************************************************)
(* uvm_deferred_free_object_list, once the lock is dropped.  The objects   *)
(* on the list are detached: other threads reach them only through their   *)
(* own references, so the list is freed in one step.                       *)
(***************************************************************************)
Freed(t, k) == {x[2] : x \in {y \in vsCall[t].free : y[1] = k}}

uvm_user_channel_destroy_detached(uc, U) ==
    FoldSet(LAMBDA u, v : PutChannel([v EXCEPT ![u].rm = FALSE], u), uc, U)
destroy_gpu_va_space(gv, O) ==
    FoldSet(LAMBDA o, v : PutGvs([v EXCEPT ![o].rm = FALSE], o), gv, O)
uvm_ext_gpu_map_free(r, X) ==
    uvm_gpu_release(r, [g \in VsGpu |-> Cardinality({x \in X : x[1] = "external" /\ x[3] = g})])

uvm_deferred_free_object_list(t) ==
    /\ At(t, "free")
    /\ userChannel' = uvm_user_channel_destroy_detached(userChannel, Freed(t, "channel"))
    /\ gpuVaSpace' = destroy_gpu_va_space(gpuVaSpace, Freed(t, "gpu_va_space"))
    /\ retained' = uvm_ext_gpu_map_free(retained, vsCall[t].free)
    /\ Goto(t, [vsCall[t] EXCEPT !.at = vsCall[t].then, !.free = {}])
    /\ UNCHANGED <<vaSpace, instancePtrs, peerRefs>>

(* What a call gives back last, under the global lock: uvm_gpu_release of  *)
(* the GPUs it retained, uvm_gpu_release_peer_access of pairs of GPUs.     *)
uvm_gpu_release_peer_access(r, P) ==
    uvm_gpu_release(r, [g \in VsGpu |-> Cardinality({p \in P : g \in p})])
release(t) ==
    LET P == vsCall[t].pairs IN
    /\ At(t, "release")
    /\ peerRefs' = [p \in Pairs |-> IF p \in P THEN peerRefs[p] - 1 ELSE peerRefs[p]]
    /\ retained' = uvm_gpu_release(uvm_gpu_release_peer_access(retained, P), One(vsCall[t].gpus))
    /\ Return(t)
    /\ UNCHANGED <<vaSpace, gpuVaSpace, userChannel, instancePtrs>>

(***************************************************************************)
(* Teardown.  uvm_vm_close_managed stops the channels when the process     *)
(* exits; uvm_va_space_destroy runs when the last file reference goes: no  *)
(* other call is in the VA space.                                          *)
(***************************************************************************)
uvm_va_space_stop_all_user_channels ==
    /\ vaSpace.open /\ ~vaSpace.stopped
    /\ userChannel' = uvm_user_channel_stop(userChannel, GpuVaSpace)
    /\ vaSpace' = [vaSpace EXCEPT !.stopped = TRUE]
    /\ UNCHANGED <<gpuVaSpace, instancePtrs, retained, peerRefs, vsCall>>

(* Detach every channel, destroy the ranges, unregister the GPUs.          *)
uvm_va_space_destroy(t) ==
    LET c == FoldSet(LAMBDA o, v : uvm_user_channel_detach(v, o,
                            {u \in UserChannel : v.uc[u].listed /\ v.uc[u].gvs = o}),
                     World, {o \in GpuVaSpace : gpuVaSpace[o].attached})
        e == uvm_ext_gpu_map_destroy(c, VsGpu)
        w == FoldSet(LAMBDA g, v : unregister_gpu(v, g), [e EXCEPT !.vs.ext.here = FALSE],
                     vaSpace.registered_gpus)
    IN
    /\ \A s \in VsThread : Callable(s)
    /\ vaSpace.stopped
    /\ Become([w EXCEPT !.vs.open = FALSE])
    /\ Goto(t, [Idle EXCEPT !.at = "free", !.free = w.free,
                            !.gpus = vaSpace.registered_gpus, !.pairs = vaSpace.peers])
    /\ UNCHANGED peerRefs

uvm_open ==
    /\ ~vaSpace.open /\ \A t \in VsThread : At(t, "idle")
    /\ vaSpace' = uvm_va_space_create
    /\ UNCHANGED <<gpuVaSpace, userChannel, instancePtrs, retained, peerRefs, vsCall>>

VsNext ==
    \/ uvm_va_space_stop_all_user_channels \/ uvm_open
    \/ \E t \in VsThread :
        \/ uvm_va_space_register_gpu(t) \/ uvm_va_space_unregister_gpu(t)
        \/ release(t) \/ map_external_fails(t)
        \/ uvm_va_space_unregister_gpu_va_space(t) \/ uvm_gpu_va_space_release(t)
        \/ register_channel_error(t) \/ uvm_user_channel_release(t)
        \/ uvm_unregister_channel(t) \/ map_external_error(t) \/ uvm_free(t)
        \/ uvm_deferred_free_object_list(t) \/ uvm_va_space_destroy(t)
        \/ \E g \in VsGpu :
            \/ register_gpu_retain(t, g) \/ unregister_gpu_stop(t, g)
            \/ unregister_gpu_va_space_stop(t, g) \/ uvm_unmap_external_allocation(t, g)
            \/ \E h \in VsGpu : \/ retain_peers_from_uuids(t, g, h)
                                \/ uvm_va_space_disable_peer_access(t, g, h)
            \/ \E o \in GpuVaSpace, s \in BigPageSize[g] : create_gpu_va_space(t, g, o, s)
        \/ \E fails \in BOOLEAN : \/ uvm_va_space_enable_peer_access(t, fails)
                                  \/ uvm_va_space_register_gpu_va_space(t, fails)
        \/ \E c \in VsChannel : \/ unregister_channel_stop(t, c)
                                \/ \E u \in UserChannel : uvm_user_channel_create(t, c, u)
        \/ \E fails \in {"", "ranges", "map", "bind"} : uvm_register_channel(t, fails)
        \/ \E G \in SUBSET VsGpu \ {{}}, owner \in VsGpu \union {SYSMEM} :
                uvm_map_external_allocation(t, G, owner)

--------------------------------------------------------------------------------
Idles == \A t \in VsThread : At(t, "idle")
Listed == {u \in UserChannel : userChannel[u].listed}
PendingExternal == {x \in UNION {vsCall[t].free : t \in VsThread} : x[1] = "external"}

(* A GPU is retained as long as anything of it is in use: a registration,  *)
(* an address space or a channel that RM holds for UVM, the capabilities   *)
(* of a pair of peers, an external map or a duplicated handle that some    *)
(* thread has still to free, on the side of the GPU that maps it and of    *)
(* the GPU that owns the memory.                                           *)
UsedGpusRetained ==
    \A g \in VsGpu :
        \/ g \in vaSpace.registered_gpus
        \/ \E o \in GpuVaSpace : gpuVaSpace[o].rm /\ gpuVaSpace[o].gpu = g
        \/ \E u \in UserChannel : userChannel[u].rm /\ ChannelGpu[userChannel[u].chan] = g
        \/ \E p \in Pairs : g \in p /\ peerRefs[p] > 0
        \/ \E m \in VsGpu : vaSpace.ext.on[m] # NoObject /\ g \in {m, vaSpace.ext.on[m]}
        \/ \E x \in PendingExternal : g \in {x[2], x[3]}
        => retained[g] > 0

(* Once no call is in progress nothing is left over from any of them: the  *)
(* references are those of the registrations and of the enabled peers, and *)
(* the objects are those that the VA space knows.                          *)
NothingLeaked ==
    Idles =>
        /\ \A p \in Pairs : peerRefs[p] = IF p \in vaSpace.peers THEN 1 ELSE 0
        /\ \A g \in VsGpu : retained[g] = Cardinality({g} \intersect vaSpace.registered_gpus)
                                           + Cardinality({p \in vaSpace.peers : g \in p})
        /\ \A o \in GpuVaSpace : gpuVaSpace[o].kref > 0 =>
                /\ gpuVaSpace[o].kref = 1 /\ gpuVaSpace[o].rm
                /\ vaSpace.gpu_va_spaces[gpuVaSpace[o].gpu] = o
        /\ \A u \in UserChannel : userChannel[u].kref > 0 =>
                userChannel[u].kref = 1 /\ userChannel[u].rm /\ userChannel[u].listed

(* The reference counts of GPUs, peers, address spaces and channels cover  *)
(* every use at every step, and nothing more once all calls have returned. *)
GpuReferencesExact == UsedGpusRetained /\ NothingLeaked

(* A channel that may run is registered in an address space that is still  *)
(* attached and set up, and the range it shares with the other channels is *)
(* mapped; the references of that range are the registered channels; and   *)
(* a fault is attributed to the VA space only for a registered channel.    *)
BoundChannelsLive ==
    /\ \A u \in UserChannel : userChannel[u].bound =>
            /\ u \in Listed
            /\ gpuVaSpace[userChannel[u].gvs].attached /\ gpuVaSpace[userChannel[u].gvs].rm
            /\ gpuVaSpace[userChannel[u].gvs].local_mapped
    /\ \A o \in GpuVaSpace :
            gpuVaSpace[o].local = Cardinality({u \in Listed : userChannel[u].gvs = o})
    /\ instancePtrs \subseteq {userChannel[u].chan : u \in Listed}

(* What a processor may reach is what is registered and enabled at this    *)
(* moment, whatever sequence of calls led here: every mask is symmetric    *)
(* and exact (the asserts at the end of unregister_gpu), and an external   *)
(* map goes from a registered address space to memory of a registered GPU, *)
(* its own or an enabled peer.                                             *)
ReachIsExact ==
    LET R == vaSpace.registered_gpus
        peersOf(g) == {h \in VsGpu : {g, h} \in vaSpace.peers}
        self(m, p) == CASE p \notin R /\ p # UVM_CPU_ID -> {}
                        [] m \in {"has_nvlink_to", "has_nvlink_from"} -> {}
                        [] p = UVM_CPU_ID ->
                            {UVM_CPU_ID} \union (IF m \in {"accessible_from", "can_copy_from"} THEN R ELSE {})
                        [] m = "can_access" -> {p, UVM_CPU_ID}
                        [] OTHER -> {p}
    IN
    /\ \A p \in vaSpace.peers : p \subseteq R
    /\ \A m \in MaskNames, p \in Processor :
            vaSpace.masks[m][p] = self(m, p) \union
                (IF m \in PeerMasks /\ p # UVM_CPU_ID THEN peersOf(p) ELSE {})
    /\ \A g \in VsGpu : vaSpace.ext.on[g] # NoObject =>
            /\ vaSpace.ext.here /\ vaSpace.gpu_va_spaces[g] # NoObject
            /\ vaSpace.ext.on[g] \in {SYSMEM} \union R
            /\ vaSpace.ext.on[g] \in {SYSMEM, g} \union peersOf(g)
    /\ \A g \in VsGpu : vaSpace.gpu_va_spaces[g] # NoObject => g \in R

VsSpec == VsInit /\ [][VsNext]_vsVars

(* A VA space holds exactly the references it needs, its channels are      *)
(* bound to live objects, and what it can reach is what it is registered   *)
(* for (uvm_va_space_unregister_gpu, destroy_gpu_va_space).                *)
VaSpaceExact == GpuReferencesExact /\ BoundChannelsLive /\ ReachIsExact
================================================================================
