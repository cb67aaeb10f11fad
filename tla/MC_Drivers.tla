------------------------------ MODULE MC_Drivers ------------------------------
(***************************************************************************)
(* Instances of the smaller modules.  They share no state: a behaviour is  *)
(* one of one of them, and the others stay as they start.  Objects are     *)
(* written o1, o2, ..., and stand for files, tables, timers or streams;    *)
(* t1 and t2 are threads and g1 and g2 GPUs.                               *)
(***************************************************************************)
EXTENDS LiteStreams, LiteProcess, Device, DeviceMemory, Modeset, P2P, Drm, DrmGem,
        GpuSetup, DriverMem, ModuleLoad, LiteChannel, Thrashing, Prefetch, ExternalMap

CONSTANTS o1, o2, o3, t1, t2, g1, g2, g3, m1, m2

VARIABLE part

(* LiteStreams: two pages and one ordinary stream beside ALL and NONE.     *)
LiteSpans == {<<0, 2>>, <<1, 1>>}
LiteParts ==
    {[records |-> 1, events |-> TRUE, failures |-> TRUE],
     [records |-> 3, events |-> FALSE, failures |-> FALSE]}

(* LiteProcess: a server, a client and a process of its own, or a session  *)
(* and its target.                                                         *)
LpOff == [part |-> "mps", files |-> {o1, o2, o3}, fails |-> TRUE, window |-> FALSE,
          order |-> FALSE, late |-> FALSE, removes |-> FALSE]
LpParts == {LpOff, [LpOff EXCEPT !.part = "sessions", !.files = {o1, o2}]}

(* Device: one GPU with everything that can fail, then two GPUs.           *)
DevOff == [gpus |-> {g1}, gvi |-> {}, threaded |-> FALSE, busy |-> FALSE, fails |-> FALSE,
           hot |-> FALSE, persists |-> FALSE, keeps |-> FALSE]
DevParts ==
    {[DevOff EXCEPT !.busy = TRUE, !.fails = TRUE, !.persists = TRUE, !.threaded = x] : x \in BOOLEAN}
    \union {[DevOff EXCEPT !.gpus = {g1, g2}, !.gvi = {g2}, !.fails = TRUE]}

MemParts ==
    {[part |-> x, procs |-> {o1, o2}, meet |-> FALSE] : x \in {"pages", "user", "events"}}

KmsOff == [timers |-> FALSE, opens |-> FALSE, gpu |-> FALSE, fails |-> FALSE, unregistered |-> FALSE]
KmsParts ==
    {[KmsOff EXCEPT !.timers = TRUE],
     [KmsOff EXCEPT !.opens = TRUE, !.gpu = TRUE, !.fails = TRUE, !.unregistered = TRUE]}

P2PParts == {[fails |-> TRUE, pages |-> FALSE, maps |-> FALSE, early |-> FALSE]}

DrmOff == [commits |-> FALSE, displays |-> FALSE, async |-> FALSE, unplug |-> FALSE,
           override |-> FALSE, fails |-> FALSE]
DrmParts ==
    {[DrmOff EXCEPT !.commits = TRUE, !.async = x, !.fails = x] : x \in BOOLEAN}
    \union {[DrmOff EXCEPT !.displays = TRUE, !.unplug = TRUE, !.override = TRUE],
            [DrmOff EXCEPT !.commits = TRUE, !.displays = TRUE, !.fails = TRUE]}

GemParts == {[meet |-> FALSE]}

(* GpuSetup: two GPUs of which everything may fail and that work for each  *)
(* other, one with replayable faults and one with swizzled pages, then     *)
(* three GPUs that are peers.                                              *)
Ce == [supported |-> TRUE, grce |-> FALSE, sysmem |-> TRUE, p2p |-> TRUE, sysmemRead |-> FALSE,
       sysmemWrite |-> FALSE, nvlinkP2p |-> FALSE, shared |-> FALSE]
GsOff == [gpus |-> {g1, g2}, faults |-> {}, swizzled |-> {}, engines |-> [g \in GsGpu |-> <<Ce>>],
          fails |-> FALSE, peers |-> FALSE, work |-> FALSE, late |-> FALSE, unpeered |-> FALSE]
GsParts ==
    {[GsOff EXCEPT !.faults = {g1}, !.swizzled = {g2}, !.fails = TRUE, !.work = TRUE,
                   !.engines = [g \in GsGpu |->
                       IF g = g1 THEN <<Ce, [Ce EXCEPT !.grce = TRUE], Ce>>
                       ELSE <<[Ce EXCEPT !.p2p = FALSE], [Ce EXCEPT !.nvlinkP2p = TRUE]>>]],
     [GsOff EXCEPT !.gpus = {g1, g2, g3}, !.peers = TRUE]}

DmParts == {[fails |-> TRUE]}

(* ModuleLoad: both modes with every failure that is handled, and a table  *)
(* that cannot be completed.                                               *)
MlHandled(steps) == {steps[i] : i \in DOMAIN steps} \ MlUnhandled
MlRow(parent, ops) == [parent |-> parent, ops |-> ops]
Ml8 == [mode |-> "8", fails |-> MlHandled(uvm8_init),
        table |-> <<MlRow(0, {m1, m2}), MlRow(1, {m1}), MlRow(2, {}), MlRow(2, {m2})>>]
MlParts ==
    {Ml8, [Ml8 EXCEPT !.table = <<MlRow(0, {m1}), MlRow(1, {})>>],
     [Ml8 EXCEPT !.mode = "lite", !.fails = MlHandled(uvm_not8_init)]}

(* LiteChannel: one manager with one ring or one channel, two managers,    *)
(* then pools.                                                             *)
LcManager(rings, chans) == [rings |-> rings, chans |-> chans]
LcOff == [managers |-> <<>>, pools |-> FALSE, fails |-> FALSE, window |-> FALSE, wraps |-> FALSE]
LcParts ==
    {[LcOff EXCEPT !.managers = x] :
        x \in {<<LcManager({1}, {g1, g2})>>, <<LcManager({1, 2}, {g1})>>,
               <<LcManager({1}, {g1}), LcManager({2}, {g2})>>}}
    \union {[LcOff EXCEPT !.pools = TRUE]}

(* Thrashing: two pages that the CPU and a GPU want, or one page that all  *)
(* want, with linked GPUs or a preferred location.                         *)
ThOff == [threshold |-> 1, preferred |-> ThNone, nvlink |-> FALSE, slow |-> FALSE, fails |-> FALSE,
          who |-> {ThCpu, g1}, pages |-> ThPages, batches |-> 4]
ThOne == [ThOff EXCEPT !.who = ThProcessor, !.pages = {0}]
ThParts ==
    {[ThOff EXCEPT !.fails = TRUE], [ThOne EXCEPT !.nvlink = TRUE], [ThOne EXCEPT !.preferred = g1]}

(* Prefetch: blocks that start, or end, within a big page, or do not.      *)
PfBlock(first, last) ==
    [first |-> first, last |-> last, big |-> <<PfBig, PfBiggest>>, thrash |-> {}, fixed |-> {},
     fails |-> FALSE]
PfParts ==
    {PfBlock(0, 7), PfBlock(1, 6), PfBlock(3, 7),
     [PfBlock(2, 7) EXCEPT !.thrash = {2}], [PfBlock(2, 7) EXCEPT !.fixed = {3}, !.fails = TRUE]}

(* ExternalMap: ranges of one to nine pages across three page tables.      *)
ExParts ==
    {[ranges |-> {<<0, 9>>, <<2, 7>>, <<3, 4>>, <<1, 1>>}, memory |-> 10, offsets |-> {0, 1, 3},
      fails |-> x] : x \in BOOLEAN}

(* Every setup of the module that runs, one of each other module.          *)
Runs(name, setup, setups) == part = name \/ setup = CHOOSE s \in setups : TRUE

MCInit ==
    /\ part \in {"lite", "process", "device", "memory", "modeset", "p2p", "drm", "gem",
                "gpus", "mem", "load", "channels", "thrash", "prefetch", "external"}
    /\ LiteInit /\ Runs("lite", liteSetup, LiteSetups)
    /\ LpInit /\ Runs("process", lpSetup, LpSetups)
    /\ DevInit /\ Runs("device", devSetup, DevSetups)
    /\ MemInit /\ Runs("memory", memSetup, MemSetups)
    /\ KmsInit /\ Runs("modeset", kmsSetup, KmsSetups)
    /\ P2PInit /\ Runs("p2p", p2pSetup, P2PSetups)
    /\ DrmInit /\ Runs("drm", drmSetup, DrmSetups)
    /\ GemInit /\ Runs("gem", gemSetup, GemSetups)
    /\ GsInit /\ Runs("gpus", gsSetup, GsSetups)
    /\ DmInit /\ Runs("mem", dmSetup, DmSetups)
    /\ MlInit /\ Runs("load", mlSetup, MlSetups)
    /\ LcInit /\ Runs("channels", lcSetup, LcSetups)
    /\ ThInit /\ Runs("thrash", thSetup, ThSetups)
    /\ PfInit /\ Runs("prefetch", pfSetup, PfSetups)
    /\ ExInit /\ Runs("external", exSetup, ExSetups)

Rest(name) ==
    /\ part = name /\ UNCHANGED part
    /\ IF name = "lite" THEN TRUE ELSE UNCHANGED liteVars
    /\ IF name = "process" THEN TRUE ELSE UNCHANGED lpVars
    /\ IF name = "device" THEN TRUE ELSE UNCHANGED devVars
    /\ IF name = "memory" THEN TRUE ELSE UNCHANGED memVars
    /\ IF name = "modeset" THEN TRUE ELSE UNCHANGED kmsVars
    /\ IF name = "p2p" THEN TRUE ELSE UNCHANGED p2pVars
    /\ IF name = "drm" THEN TRUE ELSE UNCHANGED drmVars
    /\ IF name = "gem" THEN TRUE ELSE UNCHANGED gemVars
    /\ IF name = "gpus" THEN TRUE ELSE UNCHANGED gsVars
    /\ IF name = "mem" THEN TRUE ELSE UNCHANGED dmVars
    /\ IF name = "load" THEN TRUE ELSE UNCHANGED mlVars
    /\ IF name = "channels" THEN TRUE ELSE UNCHANGED lcVars
    /\ IF name = "thrash" THEN TRUE ELSE UNCHANGED thVars
    /\ IF name = "prefetch" THEN TRUE ELSE UNCHANGED pfVars
    /\ IF name = "external" THEN TRUE ELSE UNCHANGED exVars

MCNext ==
    \/ Rest("lite") /\ LiteNext
    \/ Rest("process") /\ LpNext
    \/ Rest("device") /\ DevNext
    \/ Rest("memory") /\ MemNext
    \/ Rest("modeset") /\ KmsNext
    \/ Rest("p2p") /\ P2PNext
    \/ Rest("drm") /\ DrmNext
    \/ Rest("gem") /\ GemNext
    \/ Rest("gpus") /\ GsNext
    \/ Rest("mem") /\ DmNext
    \/ Rest("load") /\ MlNext
    \/ Rest("channels") /\ LcNext
    \/ Rest("thrash") /\ ThNext
    \/ Rest("prefetch") /\ PfNext
    \/ Rest("external") /\ ExNext

mcVars == <<part, liteVars, lpVars, devVars, memVars, kmsVars, p2pVars, drmVars, gemVars,
            gsVars, dmVars, mlVars, lcVars, thVars, pfVars, exVars>>
MCSpec == MCInit /\ [][MCNext]_mcVars

(* UVM-Lite: pages are where their streams may use them, processes, MPS    *)
(* servers and debug sessions find what they refer to, and channels reuse  *)
(* only what the GPU is done with (LiteStreams, LiteProcess, LiteChannel). *)
LiteDriverExact ==
    /\ (part = "lite" => LiteExact) /\ (part = "process" => LiteProcessesExact)
    /\ (part = "channels" => LiteChannelsExact)

(* nvidia-uvm.ko: loading and adding GPUs acquire and release in order     *)
(* whatever fails, memory of its own is mapped as long as it lives, and a  *)
(* mapping of RM's memory that was reported is there throughout            *)
(* (ModuleLoad, GpuSetup, DriverMem, ExternalMap).                         *)
UvmSetupExact ==
    /\ (part = "load" => ModuleExact) /\ (part = "gpus" => GpusExact)
    /\ (part = "mem" => DriverMemExact) /\ (part = "external" => ExternalExact)

(* What fault servicing is told about thrashing pages and about pages to   *)
(* prefetch holds when it is used (Thrashing, Prefetch).                   *)
HeuristicsExact == (part = "thrash" => ThrashingExact) /\ (part = "prefetch" => PrefetchExact)
================================================================================
