------------------------------ MODULE GpuSetup -------------------------------
(***************************************************************************)
(* The life of a GPU in UVM8 (uvm8_gpu.c, uvm8_channel.c,                  *)
(* uvm8_gpu_semaphore.c, uvm8_rm_mem.c): add_gpu acquires one resource     *)
(* after another and any of them may fail, remove_gpu releases whatever    *)
(* there is.  The GPU's channels take semaphores of pages that every GPU   *)
(* maps, its trackers wait for work of other GPUs' channels, and peers map *)
(* each other's memory.  The global lock serialises all of it but the      *)
(* work itself.                                                            *)
(***************************************************************************)
EXTENDS Naturals, Sequences, FiniteSets

CONSTANTS GsGpu,
          GsChannels,  \* channels of a GPU
          GsSlots,     \* semaphores of a page
          GsPeerIds,   \* peer ids of a GPU, 0 among them
          GsMaxRefs,   \* bound: references to a GPU
          GsNone,
          GsSetups     \* the setups to explore, see GsAssumption

(* gpus: those there are; faults: those with replayable faults; swizzled:  *)
(* those with swizzled big pages; engines: the copy engines of each;       *)
(* fails, peers and work: steps may fail, peers come and go, GPUs work for *)
(* each other.  Not handled by the code: late, the queue of the bottom     *)
(* half cannot be created; unpeered, the query after the creation of a P2P *)
(* object fails.                                                           *)
ASSUME GsAssumption ==
    /\ {GsChannels, GsSlots, GsMaxRefs} \subseteq Nat \ {0}
    /\ GsPeerIds \subseteq Nat /\ 0 \in GsPeerIds /\ GsNone \notin GsGpu
    /\ \A s \in GsSetups :
          /\ s.gpus \subseteq GsGpu /\ s.faults \subseteq s.gpus /\ s.swizzled \subseteq s.gpus
          /\ {s.fails, s.peers, s.work, s.late, s.unpeered} \subseteq BOOLEAN

VARIABLES
    gsGpu,    \* [GsGpu -> uvm_gpu_t, see NoGpu]
    gsPool,   \* [GsGpu -> pages of its semaphore pool, the oldest first]
    gsCount,  \* [GsGpu -> free_semaphores_count]
    gsChan,   \* [GsGpu -> Seq of the semaphores of its channels]
    gsTracks, \* [GsGpu -> GPUs whose channels its trackers name]
    gsPeer,   \* [sets of two GPUs -> uvm_gpu_peer_t]
    gsIdent,  \* [GsGpu -> [GsPeerIds -> GPU its peer mapping maps]]
    gsLock,   \* the GPU being added or removed, or GsNone
    gsSetup

gsPoolVars == <<gsPool, gsCount, gsChan>>
gsPeerVars == <<gsPeer, gsIdent>>
gsVars == <<gsGpu, gsPoolVars, gsTracks, gsPeerVars, gsLock, gsSetup>>

GsPairs == {{g, h} : g \in GsGpu, h \in GsGpu} \ {{g} : g \in GsGpu}

(* st: none, adding, live (in the table) or removing; at: the next step;   *)
(* held: what has been acquired; engine: copy engine of each channel type. *)
NoGpu == [st |-> "none", at |-> "none", ref |-> 0, held |-> {}, engine |-> <<>>]
NoPeer == [ref |-> 0, ids |-> <<>>]

GsInit ==
    /\ gsGpu = [g \in GsGpu |-> NoGpu]
    /\ gsPool = [g \in GsGpu |-> <<>>]
    /\ gsCount = [g \in GsGpu |-> 0]
    /\ gsChan = [g \in GsGpu |-> <<>>]
    /\ gsTracks = [g \in GsGpu |-> {}]
    /\ gsPeer = [p \in GsPairs |-> NoPeer]
    /\ gsIdent = [g \in GsGpu |-> [i \in GsPeerIds |-> GsNone]]
    /\ gsLock = GsNone
    /\ gsSetup \in GsSetups

LiveGpus == {g \in GsGpu : gsGpu[g].st = "live"}
Held(g, r) == r \in gsGpu[g].held
GsOutcomes == IF gsSetup.fails THEN BOOLEAN ELSE {TRUE}
GsAt(g, step) == gsLock = g /\ gsGpu[g].at = step

(* A step of add_gpu that leaves got and goes on, or fails: the part of    *)
(* got it had acquired before is left for remove_gpu.                      *)
Acquires(g, got, next) ==
    gsGpu' = [gsGpu EXCEPT ![g].held = @ \union got, ![g].at = next]
AddFails(g, got) ==
    gsGpu' = [gsGpu EXCEPT ![g].st = "removing", ![g].at = "unpublish", ![g].held = @ \union got]
AcquiresOrFails(g, got, next, parts) ==
    \E ok \in GsOutcomes :
        IF ok THEN Acquires(g, got, next) ELSE \E part \in parts : AddFails(g, part)

(***************************************************************************)
(* add_gpu                                                                 *)
(***************************************************************************)
(* The first reference adds the GPU, under the global lock: RM registers   *)
(* it or nothing happens.                                                  *)
uvm_gpu_retain_by_uuid(g) ==
    /\ gsLock = GsNone /\ g \in gsSetup.gpus
    /\ IF gsGpu[g].st = "live"
       THEN /\ gsGpu[g].ref < GsMaxRefs
            /\ gsGpu' = [gsGpu EXCEPT ![g].ref = @ + 1]
            /\ UNCHANGED gsLock
       ELSE /\ gsGpu' = [gsGpu EXCEPT ![g] = [NoGpu EXCEPT !.st = "adding", !.at = "alloc",
                                                          !.held = {"registration"}]]
            /\ gsLock' = g
    /\ UNCHANGED <<gsPoolVars, gsTracks, gsPeerVars, gsSetup>>

(* No id or no memory: the registration is undone here.                    *)
alloc_gpu_struct(g) ==
    /\ GsAt(g, "alloc")
    /\ \E ok \in GsOutcomes :
          IF ok THEN Acquires(g, {"struct"}, "info") /\ UNCHANGED gsLock
          ELSE gsGpu' = [gsGpu EXCEPT ![g] = NoGpu] /\ gsLock' = GsNone
    /\ UNCHANGED <<gsPoolVars, gsTracks, gsPeerVars, gsSetup>>

OtherVars == UNCHANGED <<gsPoolVars, gsTracks, gsPeerVars, gsLock, gsSetup>>

(* RM's description, and whether UVM supports such a GPU.                  *)
get_gpu_info(g) ==
    GsAt(g, "info") /\ AcquiresOrFails(g, {}, "dirs", {{}}) /\ OtherVars

init_procfs_dirs(g) ==
    /\ GsAt(g, "dirs")
    /\ AcquiresOrFails(g, {"dir", "symlink"}, "hal", {{}, {"dir"}}) /\ OtherVars

uvm_hal_init_gpu(g) ==
    GsAt(g, "hal") /\ AcquiresOrFails(g, {}, "space", {{}}) /\ OtherVars

CreateAddressSpace(g) ==
    GsAt(g, "space") /\ AcquiresOrFails(g, {"space"}, "caps", {{}}) /\ OtherVars

(* Big page size, capabilities and framebuffer.                            *)
get_gpu_caps(g) ==
    GsAt(g, "caps") /\ AcquiresOrFails(g, {}, "ecc", {{}}) /\ OtherVars

(* An error RM has noticed, or one pending that servicing brings up.       *)
uvm_gpu_check_ecc_error(g) ==
    GsAt(g, "ecc") /\ AcquiresOrFails(g, {}, "pmm", {{}}) /\ OtherVars

uvm_pmm_gpu_init(g) ==
    GsAt(g, "pmm") /\ AcquiresOrFails(g, {"pmm"}, "pool", {{}}) /\ OtherVars

uvm_gpu_semaphore_pool_create(g) ==
    /\ GsAt(g, "pool")
    /\ AcquiresOrFails(g, {"pool"}, "maps", {{}}) /\ OtherVars

(* An allocation of RM is known by what it is mapped on: the GPU that      *)
(* allocated it, the CPU, and GPUs for which it is duplicated.  Mapping    *)
(* again and unmapping what is not mapped do nothing.                      *)
uvm_rm_mem_alloc(g) == {g}
uvm_rm_mem_map_cpu(mapped) == mapped \union {"cpu"}
uvm_rm_mem_map_gpu(mapped, g) == mapped \union {g}
uvm_rm_mem_unmap_gpu(mapped, g) == mapped \ {g}
uvm_rm_mem_map_all_gpus(mapped) == mapped \union UNION {uvm_rm_mem_map_gpu(mapped, h) : h \in LiveGpus}

(* The pages of the other GPUs' pools are mapped one by one on a new GPU.  *)
ToMap(g) ==
    {<<h, i>> : h \in LiveGpus, i \in 1 .. GsChannels} \intersect
    {<<h, i>> \in GsGpu \X (1 .. GsChannels) :
        i \in DOMAIN gsPool[h] /\ g \notin gsPool[h][i].mapped}

uvm_gpu_semaphore_pool_map_gpu(g) ==
    /\ GsAt(g, "maps")
    /\ IF ToMap(g) = {} THEN Acquires(g, {}, "pushbuffer") /\ UNCHANGED gsPool
       ELSE LET x == CHOOSE x \in ToMap(g) : TRUE
            IN  \E ok \in GsOutcomes :
                IF ok
                THEN /\ gsPool' = [gsPool EXCEPT ![x[1]][x[2]].mapped = uvm_rm_mem_map_gpu(@, g)]
                     /\ UNCHANGED gsGpu
                ELSE AddFails(g, {}) /\ UNCHANGED gsPool
    /\ UNCHANGED <<gsCount, gsChan, gsTracks, gsPeerVars, gsLock, gsSetup>>

(***************************************************************************)
(* Copy engines.  An engine is a record of capabilities, see MC.           *)
(***************************************************************************)
GsTypes == <<"cpu_to_gpu", "gpu_to_cpu", "gpu_internal", "gpu_to_gpu", "memops">>

ce_usable_for_channel_type(type, cap) ==
    /\ cap.supported /\ ~cap.grce
    /\ type \in {"cpu_to_gpu", "gpu_to_cpu"} => cap.sysmem
    /\ type = "gpu_to_gpu" => cap.p2p

(* The criteria of a type, the most important first: the smaller wins.     *)
CeOrder(type, cap, used, i) ==
    LET N(b) == IF b THEN 1 ELSE 0
        first == CASE type = "cpu_to_gpu" -> <<N(~cap.sysmemRead), N(cap.nvlinkP2p)>>
                   [] type = "gpu_to_cpu" -> <<N(~cap.sysmemWrite), N(cap.nvlinkP2p)>>
                   [] type \in {"gpu_to_gpu", "gpu_internal"} -> <<N(~cap.nvlinkP2p), 0>>
                   [] OTHER -> <<0, 0>>
    IN  first \o <<used, N(cap.shared), i>>

compare_ce_for_channel_type(a, b) ==
    \E k \in DOMAIN a : a[k] < b[k] /\ \A j \in 1 .. (k - 1) : a[j] = b[j]

(* The engines in the order of the types; none for a type fails it all.    *)
CeUsed(engine, i) == Cardinality({k \in DOMAIN engine : engine[k] = i})
pick_ce_for_channel_type(engines, type, engine) ==
    LET usable == {i \in DOMAIN engines : ce_usable_for_channel_type(type, engines[i])}
        order(i) == CeOrder(type, engines[i], CeUsed(engine, i), i)
    IN  {i \in usable : \A j \in usable \ {i} : compare_ce_for_channel_type(order(i), order(j))}

PickNext(engines, picked) ==
    LET best == pick_ce_for_channel_type(engines, GsTypes[Len(picked) + 1], picked)
    IN  IF best = {} THEN picked \o <<0>> ELSE picked \o <<CHOOSE i \in best : TRUE>>
channel_manager_pick_copy_engines(engines) ==
    LET p1 == PickNext(engines, <<>>)
        p3 == PickNext(engines, PickNext(engines, p1))
    IN  PickNext(engines, PickNext(engines, p3))

(***************************************************************************)
(* Channels and their semaphores                                           *)
(***************************************************************************)
GsCreatePushbuffer(g) ==
    LET engine == channel_manager_pick_copy_engines(gsSetup.engines[g])
    IN  /\ GsAt(g, "pushbuffer")
        /\ \E ok \in IF 0 \in {engine[k] : k \in DOMAIN engine} THEN {FALSE} ELSE GsOutcomes :
              IF ok
              THEN gsGpu' = [gsGpu EXCEPT ![g].held = @ \union {"manager", "pushbuffer"},
                                          ![g].at = "channels", ![g].engine = engine]
              ELSE AddFails(g, {})
        /\ OtherVars

(* A page is allocated on its GPU, then mapped on the CPU and on every GPU *)
(* in the table; a failure frees it and what was mapped.                   *)
uvm_rm_mem_alloc_and_map_cpu(g) == uvm_rm_mem_map_cpu(uvm_rm_mem_alloc(g))
uvm_rm_mem_alloc_and_map_all(g) == uvm_rm_mem_map_all_gpus(uvm_rm_mem_alloc_and_map_cpu(g))

pool_alloc_page(pool, g) ==
    pool \o <<[mapped |-> uvm_rm_mem_alloc_and_map_all(g), free |-> 1 .. GsSlots]>>

(* The newest page is looked at first.  The result is the page and the     *)
(* semaphore.                                                              *)
FirstFree(pool) ==
    LET i == CHOOSE i \in DOMAIN pool :
                 pool[i].free # {} /\ \A j \in DOMAIN pool : j > i => pool[j].free = {}
    IN  <<i, CHOOSE x \in pool[i].free : \A y \in pool[i].free : x <= y>>

uvm_gpu_semaphore_alloc(g) ==
    LET none == gsCount[g] = 0
        pool == IF none THEN pool_alloc_page(gsPool[g], g) ELSE gsPool[g]
        x == FirstFree(pool)
    IN  /\ gsPool' = [gsPool EXCEPT ![g] = [pool EXCEPT ![x[1]].free = @ \ {x[2]}]]
        /\ gsCount' = [gsCount EXCEPT ![g] = (IF none THEN @ + GsSlots ELSE @) - 1]
        /\ gsChan' = [gsChan EXCEPT ![g] = @ \o <<x>>]

uvm_gpu_semaphore_free(pool, x) == [pool EXCEPT ![x[1]].free = @ \union {x[2]}]

(* Channels are destroyed when their work is done, all of a GPU at once:   *)
(* every semaphore goes back to its page.                                  *)
destroy_channel(g) ==
    /\ gsPool' = [gsPool EXCEPT ![g] =
                    [i \in DOMAIN @ |->
                        [free |-> UNION ({@[i].free} \union
                                    {uvm_gpu_semaphore_free(@, gsChan[g][k])[i].free : k \in DOMAIN gsChan[g]}),
                         mapped |-> @[i].mapped]]]
    /\ gsCount' = [gsCount EXCEPT ![g] = @ + Len(gsChan[g])]
    /\ gsChan' = [gsChan EXCEPT ![g] = <<>>]

(* A failure destroys the manager and all its channels; a semaphore page   *)
(* allocated on the way stays in the pool.                                 *)
ManagerFails(g) ==
    /\ destroy_channel(g)
    /\ gsGpu' = [gsGpu EXCEPT ![g].st = "removing", ![g].at = "unpublish",
                              ![g].held = @ \ {"manager", "pushbuffer"}]
GsRest == UNCHANGED <<gsTracks, gsPeerVars, gsLock, gsSetup>>

create_channel(g) ==
    /\ GsAt(g, "channels") /\ Len(gsChan[g]) < GsChannels
    /\ \E ok \in GsOutcomes :
          IF ok THEN uvm_gpu_semaphore_alloc(g) /\ Acquires(g, {}, "rm_channel")
          ELSE ManagerFails(g)
    /\ GsRest

(* RM's channel and copy engine, the arrays and the procfs entries.        *)
create_rm_channel(g) ==
    /\ GsAt(g, "rm_channel")
    /\ \E ok \in GsOutcomes :
          IF ok THEN Acquires(g, {}, "channels") /\ UNCHANGED gsPoolVars ELSE ManagerFails(g)
    /\ GsRest

(* A push on each, waited for.                                             *)
init_channels(g) ==
    /\ GsAt(g, "channels") /\ Len(gsChan[g]) = GsChannels
    /\ \E ok \in GsOutcomes :
          IF ok THEN Acquires(g, {}, "tree") /\ UNCHANGED gsPoolVars ELSE ManagerFails(g)
    /\ GsRest

(* The page tree's root, a push that initialises it, and RM's directory.   *)
configure_address_space(g) ==
    /\ GsAt(g, "tree")
    /\ AcquiresOrFails(g, {"tree", "directory"}, "big_pages", {{}, {"tree"}}) /\ OtherVars

init_big_pages(g) ==
    /\ GsAt(g, "big_pages")
    /\ IF g \in gsSetup.swizzled
       THEN AcquiresOrFails(g, {"identity", "staging"}, "files", {{}, {"identity"}})
       ELSE Acquires(g, {}, "files")
    /\ OtherVars

init_procfs_files(g) ==
    /\ GsAt(g, "files")
    /\ AcquiresOrFails(g, {"info_file", "stats_file"}, "faults", {{}, {"info_file"}}) /\ OtherVars

(* The fault buffer cleans up after itself; only handling tells remove_gpu *)
(* that there is one, and it is set after the queue.                       *)
InitFaults(g) ==
    /\ GsAt(g, "faults")
    /\ IF g \in gsSetup.faults
       THEN \/ Acquires(g, {"fault_buffer", "queue", "handling"}, "publish")
            \/ gsSetup.fails /\ AddFails(g, {})
            \/ IF gsSetup.late THEN AddFails(g, {"fault_buffer"}) ELSE FALSE
       ELSE Acquires(g, {}, "publish")
    /\ OtherVars

Publish(g) ==
    /\ GsAt(g, "publish")
    /\ \E ok \in GsOutcomes :
          IF ok THEN /\ gsGpu' = [gsGpu EXCEPT ![g].st = "live", ![g].at = "none", ![g].ref = 1]
                     /\ gsLock' = GsNone
          ELSE AddFails(g, {}) /\ UNCHANGED gsLock
    /\ UNCHANGED <<gsPoolVars, gsTracks, gsPeerVars, gsSetup>>

(***************************************************************************)
(* Work and peers                                                          *)
(***************************************************************************)
(* A push on a channel of g ends up in a tracker of h: a root chunk of its *)
(* memory, its staging chunk or its replays.                               *)
TracksWork(g, h) ==
    /\ gsSetup.work /\ {g, h} \subseteq LiveGpus /\ g \notin gsTracks[h]
    /\ gsTracks' = [gsTracks EXCEPT ![h] = @ \union {g}]
    /\ UNCHANGED <<gsGpu, gsPoolVars, gsPeerVars, gsLock, gsSetup>>

PeerRefs(g) == Cardinality({<<p, k>> \in GsPairs \X (1 .. GsMaxRefs) :
                                g \in p /\ k <= gsPeer[p].ref})

uvm_mmu_create_peer_identity_mappings(ident, g, h, id) == [ident EXCEPT ![g][id] = h]
uvm_mmu_destroy_peer_identity_mappings(ident, g, id) == [ident EXCEPT ![g][id] = GsNone]

(* Both directions; the ids are those of the pair's entry, which has been  *)
(* zeroed before they are known.                                           *)
disable_peer_access(ident, p, ids) ==
    [g \in GsGpu |-> IF g \in p THEN uvm_mmu_destroy_peer_identity_mappings(ident, g, ids[g])[g]
                     ELSE ident[g]]

(* Both GPUs are retained with each reference to the pair.                 *)
WithRefs(p, up) ==
    [g \in GsGpu |-> IF g \notin p THEN gsGpu[g]
                     ELSE [gsGpu[g] EXCEPT !.ref = IF up THEN @ + 1 ELSE @ - 1]]

(* RM creates the P2P object and gives each GPU an id it does not use yet. *)
(* A failure after that disables again.                                    *)
enable_peer_access(p) ==
    LET zero == [g \in p |-> 0]
    IN  \/ \E ids \in [p -> GsPeerIds] :
              /\ \A g \in p : gsIdent[g][ids[g]] = GsNone
              /\ gsIdent' = [g \in GsGpu |->
                    IF g \in p
                    THEN uvm_mmu_create_peer_identity_mappings(gsIdent, g,
                             CHOOSE h \in p : h # g, ids[g])[g]
                    ELSE gsIdent[g]]
              /\ gsPeer' = [gsPeer EXCEPT ![p] = [ref |-> 1, ids |-> ids]]
              /\ gsGpu' = WithRefs(p, TRUE)
       \/ /\ IF gsSetup.unpeered THEN TRUE ELSE FALSE
          /\ gsIdent' = disable_peer_access(gsIdent, p, zero)
          /\ UNCHANGED <<gsGpu, gsPeer>>

uvm_gpu_retain_peer_access(p) ==
    /\ gsLock = GsNone /\ gsSetup.peers /\ p \subseteq LiveGpus
    /\ \A g \in p : gsGpu[g].ref < GsMaxRefs
    /\ IF gsPeer[p].ref = 0 THEN enable_peer_access(p)
       ELSE /\ gsPeer' = [gsPeer EXCEPT ![p].ref = @ + 1]
            /\ gsGpu' = WithRefs(p, TRUE)
            /\ UNCHANGED gsIdent
    /\ UNCHANGED <<gsPoolVars, gsTracks, gsLock, gsSetup>>

uvm_gpu_release_peer_access(p) ==
    /\ gsLock = GsNone /\ gsPeer[p].ref > 0
    /\ IF gsPeer[p].ref = 1
       THEN /\ gsIdent' = disable_peer_access(gsIdent, p, gsPeer[p].ids)
            /\ gsPeer' = [gsPeer EXCEPT ![p] = NoPeer]
       ELSE gsPeer' = [gsPeer EXCEPT ![p].ref = @ - 1] /\ UNCHANGED gsIdent
    /\ gsGpu' = WithRefs(p, FALSE)
    /\ UNCHANGED <<gsPoolVars, gsTracks, gsLock, gsSetup>>

(***************************************************************************)
(* remove_gpu                                                              *)
(***************************************************************************)
(* A VA space gives its peers' references up before its own; the last one  *)
(* removes the GPU.                                                        *)
uvm_gpu_release(g) ==
    /\ gsLock = GsNone /\ gsGpu[g].st = "live"
    /\ PeerRefs(g) > 0 => gsGpu[g].ref > PeerRefs(g) + 1
    /\ gsGpu' = [gsGpu EXCEPT ![g] =
                    IF @.ref > 1 THEN [@ EXCEPT !.ref = @ - 1]
                    ELSE [@ EXCEPT !.ref = 0, !.st = "removing", !.at = "unpublish"]]
    /\ gsLock' = IF gsGpu[g].ref > 1 THEN GsNone ELSE g
    /\ UNCHANGED <<gsPoolVars, gsTracks, gsPeerVars, gsSetup>>

Releases(g, lost, next) ==
    gsGpu' = [gsGpu EXCEPT ![g].held = @ \ lost, ![g].at = next]

(* Out of the table; interrupts off and the queue of the bottom half       *)
(* stopped, if faults were handled.                                        *)
RemoveUnpublish(g) ==
    /\ GsAt(g, "unpublish")
    /\ Releases(g, IF Held(g, "handling") THEN {"queue"} ELSE {}, "others")
    /\ OtherVars

(* Every tracker of the other GPUs, while their channels still know it.    *)
RemoveFromOthers(g) ==
    /\ GsAt(g, "others")
    /\ gsTracks' = [h \in GsGpu |-> IF h \in LiveGpus THEN {} ELSE gsTracks[h]]
    /\ Releases(g, {}, "faults_off")
    /\ UNCHANGED <<gsPoolVars, gsPeerVars, gsLock, gsSetup>>

uvm_gpu_fault_buffer_deinit(g) ==
    /\ GsAt(g, "faults_off")
    /\ Releases(g, IF Held(g, "handling") THEN {"handling", "fault_buffer"} ELSE {}, "no_big_pages")
    /\ OtherVars

(* The files, then the staging chunk and the identity mapping, which needs *)
(* a push to be cleared, if there are any.                                 *)
deinit_big_pages(g) ==
    /\ GsAt(g, "no_big_pages")
    /\ Releases(g, {"info_file", "stats_file", "staging", "identity"}, "sync")
    /\ OtherVars

uvm_pmm_gpu_sync(g) ==
    /\ GsAt(g, "sync")
    /\ gsTracks' = [gsTracks EXCEPT ![g] = {}]
    /\ Releases(g, {}, "channels_off")
    /\ UNCHANGED <<gsPoolVars, gsPeerVars, gsLock, gsSetup>>

uvm_channel_manager_destroy(g) ==
    /\ GsAt(g, "channels_off")
    /\ destroy_channel(g)
    /\ Releases(g, {"manager", "pushbuffer"}, "space_off")
    /\ UNCHANGED <<gsTracks, gsPeerVars, gsLock, gsSetup>>

deconfigure_address_space(g) ==
    GsAt(g, "space_off") /\ Releases(g, {"tree", "directory"}, "pool_off") /\ OtherVars

(* The other pools' pages are unmapped, as far as they had been mapped,    *)
(* and the GPU's own are freed with all their mappings.                    *)
deinit_semaphore_pool(g) ==
    /\ GsAt(g, "pool_off")
    /\ gsPool' = [h \in GsGpu |->
                    IF h = g THEN <<>>
                    ELSE IF h \notin LiveGpus THEN gsPool[h]
                    ELSE [i \in DOMAIN gsPool[h] |->
                            [gsPool[h][i] EXCEPT !.mapped = uvm_rm_mem_unmap_gpu(@, g)]]]
    /\ gsCount' = [gsCount EXCEPT ![g] = 0]
    /\ Releases(g, {"pool"}, "last")
    /\ UNCHANGED <<gsChan, gsTracks, gsPeerVars, gsLock, gsSetup>>

(* Memory, address space, registration and directories, each if there is   *)
(* one; the struct goes with its last reference.                           *)
RemoveRest(g) ==
    /\ GsAt(g, "last")
    /\ gsGpu' = [gsGpu EXCEPT ![g] = [NoGpu EXCEPT !.held =
                    gsGpu[g].held \ {"pmm", "space", "registration", "symlink", "dir", "struct"}]]
    /\ gsLock' = GsNone
    /\ UNCHANGED <<gsPoolVars, gsTracks, gsPeerVars, gsSetup>>

GsNext ==
    \/ \E g \in GsGpu :
          \/ uvm_gpu_retain_by_uuid(g) \/ alloc_gpu_struct(g) \/ get_gpu_info(g)
          \/ init_procfs_dirs(g) \/ uvm_hal_init_gpu(g) \/ CreateAddressSpace(g)
          \/ get_gpu_caps(g) \/ uvm_gpu_check_ecc_error(g) \/ uvm_pmm_gpu_init(g) \/ uvm_gpu_semaphore_pool_create(g)
          \/ uvm_gpu_semaphore_pool_map_gpu(g) \/ GsCreatePushbuffer(g) \/ create_channel(g)
          \/ create_rm_channel(g) \/ init_channels(g) \/ configure_address_space(g)
          \/ init_big_pages(g) \/ init_procfs_files(g) \/ InitFaults(g) \/ Publish(g)
          \/ uvm_gpu_release(g) \/ RemoveUnpublish(g) \/ RemoveFromOthers(g)
          \/ uvm_gpu_fault_buffer_deinit(g) \/ deinit_big_pages(g) \/ uvm_pmm_gpu_sync(g)
          \/ uvm_channel_manager_destroy(g) \/ deconfigure_address_space(g)
          \/ deinit_semaphore_pool(g) \/ RemoveRest(g)
    \/ \E g, h \in GsGpu : TracksWork(g, h)
    \/ \E p \in GsPairs : uvm_gpu_retain_peer_access(p) \/ uvm_gpu_release_peer_access(p)

GsSpec == GsInit /\ [][GsNext]_gsVars

(***************************************************************************)
(* Properties                                                              *)
(***************************************************************************)
(* What each resource stands on: RM's objects on the address space, which  *)
(* stands on the registration; the page tree's memory on the PMM; channels *)
(* on their pool; a mapping that has to be cleared on channels.            *)
Stands ==
    [space |-> {"registration", "struct"}, pmm |-> {"space"}, pool |-> {"space"},
     pushbuffer |-> {"space", "dir"}, manager |-> {"pool", "pushbuffer"},
     tree |-> {"pmm", "space"}, directory |-> {"tree"}, identity |-> {"tree", "manager"},
     staging |-> {"pmm"}, symlink |-> {"dir"}, info_file |-> {"dir"}, stats_file |-> {"dir"},
     fault_buffer |-> {"space"}, handling |-> {"fault_buffer"}, queue |-> {"fault_buffer"},
     dir |-> {"struct"}, struct |-> {"registration"}, registration |-> {}]
ResourcesStand == \A g \in GsGpu : \A r \in gsGpu[g].held : Stands[r] \subseteq gsGpu[g].held

(* A GPU that is gone, also one that failed to come, has given everything  *)
(* back and nobody refers to it.                                           *)
NothingLeft ==
    \A g \in GsGpu : gsGpu[g].st = "none" =>
        /\ gsGpu[g] = NoGpu /\ gsPool[g] = <<>> /\ gsChan[g] = <<>> /\ gsTracks[g] = {}
        /\ \A h \in GsGpu : /\ g \notin gsTracks[h]
                            /\ \A i \in DOMAIN gsPool[h] : g \notin gsPool[h][i].mapped
                            /\ \A i \in GsPeerIds : gsIdent[h][i] # g

(* Any GPU may wait for any other's semaphores: each page is mapped on     *)
(* every GPU of the table, and only where there is an address space.       *)
SemaphoresMapped ==
    \A g \in GsGpu : \A i \in DOMAIN gsPool[g] :
        /\ LiveGpus \union {g, "cpu"} \subseteq gsPool[g][i].mapped
        /\ \A h \in gsPool[g][i].mapped \ {"cpu"} : Held(h, "space")

(* Channels have semaphores of their own, and the count is that of the     *)
(* free ones.                                                              *)
SemaphoresOwned ==
    \A g \in GsGpu :
        /\ \A j, k \in DOMAIN gsChan[g] : j # k => gsChan[g][j] # gsChan[g][k]
        /\ \A k \in DOMAIN gsChan[g] : gsChan[g][k][2] \notin gsPool[g][gsChan[g][k][1]].free
        /\ gsCount[g] = Cardinality({<<i, x>> \in (1 .. GsChannels) \X (1 .. GsSlots) :
                                        i \in DOMAIN gsPool[g] /\ x \in gsPool[g][i].free})
        /\ gsCount[g] + Len(gsChan[g]) = Len(gsPool[g]) * GsSlots

(* No tracker names a channel that has been destroyed.                     *)
TrackersNameChannels == \A g, h \in GsGpu : g \in gsTracks[h] => Held(g, "manager")

(* Peers that are enabled are mapped both ways, under the pair's ids.      *)
PeersMapped ==
    \A p \in GsPairs : gsPeer[p].ref > 0 =>
        \A g \in p : gsIdent[g][gsPeer[p].ids[g]] \in p \ {g}

(* Engines alike in all but their index share the types evenly.            *)
EnginesShared ==
    \A g \in GsGpu : Held(g, "manager") =>
        LET caps == gsSetup.engines[g]
            used(i) == CeUsed(gsGpu[g].engine, i)
        IN  \A i, j \in DOMAIN caps : caps[i] = caps[j] => used(i) <= used(j) + 1

(* The GPUs come and go whole.                                             *)
GpusExact ==
    /\ ResourcesStand /\ NothingLeft /\ SemaphoresMapped /\ SemaphoresOwned
    /\ TrackersNameChannels /\ PeersMapped /\ EnginesShared
================================================================================
