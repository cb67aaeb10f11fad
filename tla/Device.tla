-------------------------------- MODULE Device --------------------------------
(***************************************************************************)
(* nvidia.ko's devices (nv.c, nv-frontend.c, nv-instance.c): loading and   *)
(* unloading the module, probing and removing GPUs, opening and closing    *)
(* them from files and from other kernel modules, and the interrupt, its   *)
(* bottom half and the RC timer that run while a GPU is started.           *)
(*                                                                         *)
(* Threads of DevThread call the entry points; DevLoader is the thread     *)
(* that loads and unloads the module, and so the one that probes and       *)
(* removes.  Steps end where a lock is taken or released, or where an      *)
(* interrupt could tell the difference.  The resource manager (RM) is a    *)
(* library without source: it is modelled by what nv.c relies on.          *)
(***************************************************************************)
EXTENDS Naturals, FiniteSets, FiniteSetsExt, Sequences, SequencesExt

CONSTANTS DevGpu,       \* GPUs; a GPU stands for its PCI address, its gpu_id and its UUID
          DevThread,    \* callers of the entry points
          DevLoader,    \* the thread in nvidia_init_module and nvidia_exit_module
          DevNone,      \* a NULL pointer, a free lock
          DevMaxOpens,  \* bound on the references to GPUs
          DevSetups     \* the setups to explore, see DevAssumption

(* gpus: the GPUs there are; gvi: the ones that are really GVI boards;     *)
(* threaded: nv_use_threaded_interrupts; busy: interrupts and timers occur *)
(* and the system sleeps; fails: calls that may fail do; persists: the     *)
(* persistence mode is used; keeps: RM stays in it when the adapter cannot *)
(* be initialised again; hot: a GPU may be removed while it is opened.     *)
ASSUME DevAssumption ==
    /\ DevLoader \notin DevThread /\ DevNone \notin DevThread \union {DevLoader} \union DevGpu
    /\ DevMaxOpens \in Nat \ {0}
    /\ \A s \in DevSetups : s.gpus \subseteq DevGpu /\ s.gvi \subseteq DevGpu
                            /\ {s.threaded, s.busy, s.fails, s.hot, s.persists, s.keeps} \subseteq BOOLEAN

VARIABLES
    nvl,       \* [GPU -> its nv_linux_state_t]
    devs,      \* nv_linux_devices, in order
    devLocks,  \* [table, devices]: holders of nv_module_table_lock and nv_linux_devices_lock
    minors,    \* nv_minor_num_table: [minor -> the GPU it was given to, or DevNone]
    devTask,   \* [thread -> what it is doing]
    devModule, \* [phase, held, todo]: progress of loading, what is held, GPUs to probe
    devSetup

devVars == <<nvl, devs, devLocks, minors, devTask, devModule, devSetup>>

DevMinor == 0..(Cardinality(DevGpu) - 1)
DevIdle == [pc |-> "idle", op |-> "none", key |-> DevNone, gpu |-> DevNone, pos |-> 0, missing |-> FALSE]

(* nv_linux_state_t, zeroed.  usage: usage_count; open, persistent, msi:   *)
(* NV_FLAG_OPEN, _PERSISTENT_SW_STATE, _USES_MSI; stacks: sp[]; irq: the   *)
(* handler is installed; bh: a bottom half is scheduled; rm: the adapter;  *)
(* uuid: nv_gpu_uuid_cache is valid; timer: the RC timer; lock: ldata_lock;*)
(* files and gets: the references its users believe they hold.             *)
NoNvl == [alive |-> FALSE, usage |-> 0, open |-> FALSE, persistent |-> FALSE, msi |-> FALSE,
          stacks |-> FALSE, irq |-> FALSE, bh |-> FALSE, rm |-> "down", uuid |-> FALSE, timer |-> FALSE,
          lock |-> DevNone, minor |-> 0, suspended |-> FALSE, files |-> 0, gets |-> 0]

DevInit ==
    /\ nvl = [g \in DevGpu |-> NoNvl] /\ devs = <<>>
    /\ devLocks = [table |-> DevNone, devices |-> DevNone]
    /\ minors = [m \in DevMinor |-> DevNone]
    /\ devTask = [t \in DevThread \union {DevLoader} |-> DevIdle]
    /\ devModule = [phase |-> "unloaded", held |-> {}, todo |-> {}]
    /\ devSetup \in DevSetups

NV_IS_GVI_DEVICE(g) == g \in devSetup.gvi
DevMayFail == devSetup.fails

DevAt(t, pc) == devTask[t].pc = pc
DevGoto(t, pc) == devTask' = [devTask EXCEPT ![t].pc = pc]
DevDone(t) == devTask' = [devTask EXCEPT ![t] = DevIdle]
Mine(t) == devTask[t].gpu

(***************************************************************************)
(* Entry points: what is asked for, and which lock comes first.            *)
(***************************************************************************)
DevAsk(t, op, key, pc) ==
    devTask' = [devTask EXCEPT ![t] = [DevIdle EXCEPT !.op = op, !.key = key, !.pc = pc]]

(* A reference is given back at most once.                                 *)
GivingBack(op, g) == Cardinality({t \in DevThread : devTask[t].op = op /\ devTask[t].key = g})

(* The bound: references there are or may soon be.                         *)
DevRoom ==
    MapThenSumSet(LAMBDA g : nvl[g].files + nvl[g].gets, DevGpu)
        + Cardinality({t \in DevThread : devTask[t].op \in {"open", "get", "get_uuid"}}) < DevMaxOpens

(* nvidia_frontend_open holds nv_module_table_lock over nvidia_open.       *)
nvidia_frontend_open(t, m) ==
    /\ DevAt(t, "idle") /\ devLocks.table = DevNone /\ minors[m] # DevNone
    /\ devModule.phase = "live" /\ DevRoom
    /\ devLocks' = [devLocks EXCEPT !.table = t]
    /\ DevAsk(t, "open", m, "find")
    /\ UNCHANGED <<nvl, devs, minors, devModule, devSetup>>

(* nvidia_frontend_close reads the table without the lock; nvidia_close    *)
(* goes for ldata_lock directly.                                           *)
nvidia_frontend_close(t, g) ==
    /\ DevAt(t, "idle") /\ nvl[g].files > GivingBack("close", g)
    /\ minors[nvl[g].minor] # DevNone
    /\ devTask' = [devTask EXCEPT ![t] = [DevIdle EXCEPT !.op = "close", !.key = g, !.gpu = g, !.pc = "down"]]
    /\ UNCHANGED <<nvl, devs, devLocks, minors, devModule, devSetup>>

nvidia_dev_get(t, g) ==
    /\ DevAt(t, "idle") /\ devModule.phase = "live" /\ DevRoom
    /\ DevAsk(t, "get", g, "find")
    /\ UNCHANGED <<nvl, devs, devLocks, minors, devModule, devSetup>>
nvidia_dev_get_uuid(t, g) ==
    /\ DevAt(t, "idle") /\ devModule.phase = "live" /\ DevRoom
    /\ DevAsk(t, "get_uuid", g, "find")
    /\ UNCHANGED <<nvl, devs, devLocks, minors, devModule, devSetup>>
nvidia_dev_put(t, g) ==
    /\ DevAt(t, "idle") /\ nvl[g].gets > GivingBack("put", g) + GivingBack("put_uuid", g)
    /\ DevAsk(t, "put", g, "find")
    /\ UNCHANGED <<nvl, devs, devLocks, minors, devModule, devSetup>>
nvidia_dev_put_uuid(t, g) ==
    /\ DevAt(t, "idle") /\ nvl[g].gets > GivingBack("put", g) + GivingBack("put_uuid", g)
    /\ DevAsk(t, "put_uuid", g, "find")
    /\ UNCHANGED <<nvl, devs, devLocks, minors, devModule, devSetup>>

(***************************************************************************)
(* Searching nv_linux_devices: the list is locked until the ldata_lock of  *)
(* the GPU found is held.                                                  *)
(***************************************************************************)
(* The searches that only look at the key before they lock.                *)
find_minor(m) == {g \in Range(devs) : nvl[g].minor = m}
find_gpu_id(g) == {g} \intersect Range(devs)
FirstListed(S) == devs[CHOOSE i \in DOMAIN devs : devs[i] \in S /\ \A j \in 1..(i - 1) : devs[j] \notin S]

(* Nothing found: -ENODEV.                                                 *)
DevNotFound(t) ==
    /\ DevDone(t)
    /\ devLocks' = [table |-> IF devLocks.table = t THEN DevNone ELSE devLocks.table, devices |-> DevNone]

BeginFind(t) ==
    /\ DevAt(t, "find") /\ devLocks.devices = DevNone
    /\ LET op == devTask[t].op
           key == devTask[t].key
           S == IF op = "open" THEN find_minor(key) ELSE find_gpu_id(key)
       IN  IF op \in {"get_uuid", "put_uuid"}
           THEN /\ devLocks' = [devLocks EXCEPT !.devices = t]
                /\ devTask' = [devTask EXCEPT ![t].pc = "scan", ![t].pos = 1, ![t].missing = FALSE]
           ELSE IF S = {} THEN DevNotFound(t)
           ELSE /\ devLocks' = [devLocks EXCEPT !.devices = t]
                /\ devTask' = [devTask EXCEPT ![t].pc = "down", ![t].gpu = FirstListed(S)]
    /\ UNCHANGED <<nvl, devs, minors, devModule, devSetup>>

Next_of(op) == IF op \in {"open", "get", "get_uuid"} THEN "open_device" ELSE "close_device"

(* down(&nvl->ldata_lock), and the list is unlocked.                       *)
TakeLdata(t) ==
    /\ DevAt(t, "down") /\ nvl[Mine(t)].lock = DevNone
    /\ nvl' = [nvl EXCEPT ![Mine(t)].lock = t]
    /\ devLocks' = [devLocks EXCEPT !.devices = IF @ = t THEN DevNone ELSE @]
    /\ DevGoto(t, Next_of(devTask[t].op))
    /\ UNCHANGED <<devs, minors, devModule, devSetup>>

(* One GPU of find_uuid or of find_uuid_candidate, whose second pass (pos  *)
(* beyond the list once) settles for a GPU that has no UUID yet.           *)
find_uuid_candidate(t) ==
    LET n == Len(devs)
        p == devTask[t].pos
        second == p > n
        g == devs[IF second THEN p - n ELSE p]
        search == devTask[t].op = "get_uuid"
        wanted == \/ nvl[g].uuid /\ g = devTask[t].key
                  \/ search /\ second /\ ~nvl[g].uuid /\ ~NV_IS_GVI_DEVICE(g)
    IN  /\ DevAt(t, "scan")
        /\ IF p > (IF search /\ devTask[t].missing THEN 2 * n ELSE n)
           THEN DevNotFound(t) /\ UNCHANGED nvl
           ELSE /\ nvl[g].lock = DevNone
                /\ IF wanted
                   THEN /\ nvl' = [nvl EXCEPT ![g].lock = t]
                        /\ devLocks' = [devLocks EXCEPT !.devices = DevNone]
                        /\ devTask' = [devTask EXCEPT ![t].gpu = g, ![t].pc = Next_of(devTask[t].op)]
                   ELSE /\ devTask' = [devTask EXCEPT ![t].pos = p + 1,
                                             ![t].missing = @ \/ (~nvl[g].uuid /\ ~NV_IS_GVI_DEVICE(g))]
                        /\ UNCHANGED <<nvl, devLocks>>
        /\ UNCHANGED <<devs, minors, devModule, devSetup>>

(***************************************************************************)
(* Opening.  nv_open_device runs under ldata_lock; the first reference     *)
(* starts the GPU.                                                         *)
(***************************************************************************)
(* The caller returns: ldata_lock, and for a file the table's lock, are    *)
(* released.  v is the GPU's new state.                                    *)
ReturnWith(t, v) ==
    /\ nvl' = [nvl EXCEPT ![Mine(t)] = [v EXCEPT !.lock = DevNone]]
    /\ devLocks' = [devLocks EXCEPT !.table = IF @ = t THEN DevNone ELSE @]
    /\ DevDone(t)

(* The reference is counted and belongs to the caller, except that         *)
(* nvidia_dev_get_uuid first compares the UUID and gives the reference to  *)
(* another GPU back.                                                       *)
Opened(t, v) ==
    LET op == devTask[t].op
        w == [v EXCEPT !.usage = @ + 1]
    IN  IF op = "get_uuid" /\ (~v.uuid \/ Mine(t) # devTask[t].key)
        THEN nvl' = [nvl EXCEPT ![Mine(t)] = w] /\ DevGoto(t, "close_device") /\ UNCHANGED devLocks
        ELSE ReturnWith(t, IF op = "open" THEN [w EXCEPT !.files = @ + 1] ELSE [w EXCEPT !.gets = @ + 1])

nv_open_device(t) ==
    /\ DevAt(t, "open_device")
    /\ LET v == nvl[Mine(t)]
       IN  IF v.open THEN Opened(t, v)
           ELSE IF v.usage # 0 THEN ReturnWith(t, v)            \* -EBUSY
           ELSE DevGoto(t, "stacks") /\ UNCHANGED <<nvl, devLocks>>
    /\ UNCHANGED <<devs, minors, devModule, devSetup>>

(* The label failed of nv_start_device, in state v.                        *)
StartFailed(t, v) == ReturnWith(t, [v EXCEPT !.msi = FALSE, !.stacks = FALSE])

(* nv_dev_alloc_stacks: the stacks exist already when the GPU is kept in   *)
(* its persistent state.                                                   *)
nv_dev_alloc_stacks(t) ==
    /\ DevAt(t, "stacks")
    /\ LET v == nvl[Mine(t)]
       IN  \/ /\ nvl' = [nvl EXCEPT ![Mine(t)].stacks = TRUE]
              /\ DevGoto(t, "irq") /\ UNCHANGED devLocks
           \/ DevMayFail /\ ~v.persistent /\ StartFailed(t, v)
    /\ UNCHANGED <<devs, minors, devModule, devSetup>>

(* MSI if it can be had, and the handler.  A GVI board is started now.     *)
nv_request_irq(t) ==
    /\ DevAt(t, "irq")
    /\ LET v == nvl[Mine(t)]
           gvi == NV_IS_GVI_DEVICE(Mine(t))
       IN  IF v.persistent THEN DevGoto(t, "adapter") /\ UNCHANGED <<nvl, devLocks>>
           ELSE \E msi \in IF gvi THEN {FALSE} ELSE BOOLEAN :
                    \/ IF gvi THEN Opened(t, [v EXCEPT !.irq = TRUE, !.open = TRUE])
                       ELSE /\ nvl' = [nvl EXCEPT ![Mine(t)].irq = TRUE, ![Mine(t)].msi = msi]
                            /\ DevGoto(t, "adapter") /\ UNCHANGED devLocks
                    \/ DevMayFail /\ StartFailed(t, [v EXCEPT !.msi = msi])
    /\ UNCHANGED <<devs, minors, devModule, devSetup>>

(* tasklet_init and rm_init_adapter; then the UUID can be read.  On        *)
(* failure tasklet_kill and free_irq wait for the bottom half.             *)
nv_start_device(t) ==
    /\ DevAt(t, "adapter")
    /\ LET v == nvl[Mine(t)]
       IN  \/ Opened(t, [v EXCEPT !.rm = "up", !.uuid = TRUE, !.open = TRUE])
           \/ \E kept \in {v.persistent /\ devSetup.keeps} :
                 /\ DevMayFail /\ (kept \/ ~v.bh)
                 /\ StartFailed(t, [v EXCEPT !.irq = FALSE, !.persistent = kept, !.rm = "down"])
    /\ UNCHANGED <<devs, minors, devModule, devSetup>>

(***************************************************************************)
(* Closing.  The last reference stops the GPU.                             *)
(***************************************************************************)
(* After nv_close_device: nvidia_dev_get_uuid looks for the next           *)
(* candidate, everybody else returns.                                      *)
Closed(t, v) ==
    IF devTask[t].op = "get_uuid"
    THEN nvl' = [nvl EXCEPT ![Mine(t)] = [v EXCEPT !.lock = DevNone]] /\ DevGoto(t, "find") /\ UNCHANGED devLocks
    ELSE ReturnWith(t, v)

nv_close_device(t) ==
    /\ DevAt(t, "close_device")
    /\ LET v == nvl[Mine(t)]
           op == devTask[t].op
           w == [v EXCEPT !.usage = @ - 1, !.files = IF op = "close" THEN @ - 1 ELSE @,
                          !.gets = IF op \in {"put", "put_uuid"} THEN @ - 1 ELSE @]
       IN  IF v.usage = 0 THEN Closed(t, v)
           ELSE IF w.usage > 0 THEN Closed(t, w)
           ELSE nvl' = [nvl EXCEPT ![Mine(t)] = w] /\ DevGoto(t, "stop") /\ UNCHANGED devLocks
    /\ UNCHANGED <<devs, minors, devModule, devSetup>>

(* RM stops using the GPU: its interrupts need no bottom half from here    *)
(* on, and it stops the RC timer.                                          *)
nv_stop_rc_timer(v) == [v EXCEPT !.timer = FALSE]
rm_disable_adapter(v) == nv_stop_rc_timer([v EXCEPT !.rm = IF @ = "up" THEN "disabled" ELSE @])

(* nv_shutdown_adapter kills the tasklet, or free_irq waits for the        *)
(* threaded handler: both block until the bottom half has run.             *)
BottomHalfIdle(v) == ~v.bh
nv_shutdown_adapter(v) == [v EXCEPT !.irq = FALSE, !.msi = FALSE, !.rm = "down"]
nv_dev_free_stacks(v) == [v EXCEPT !.stacks = FALSE]

(* Up to the point where nv_stop_device disables the adapter.              *)
BeginStop(t) ==
    /\ DevAt(t, "stop")
    /\ nvl' = [nvl EXCEPT ![Mine(t)] = rm_disable_adapter(@)]
    /\ DevGoto(t, "stopping")
    /\ UNCHANGED <<devs, devLocks, minors, devModule, devSetup>>

(* The rest of it.  In the persistent state everything but the adapter     *)
(* stays as it is.                                                         *)
nv_stop_device(t) ==
    /\ DevAt(t, "stopping")
    /\ LET v == nvl[Mine(t)]
       IN  IF v.persistent THEN Closed(t, [v EXCEPT !.open = FALSE])
           ELSE /\ BottomHalfIdle(v)
                /\ Closed(t, [nv_dev_free_stacks(nv_shutdown_adapter(v)) EXCEPT !.open = FALSE])
    /\ UNCHANGED <<devs, minors, devModule, devSetup>>

(***************************************************************************)
(* While a GPU is started                                                  *)
(***************************************************************************)
(* nvidia_isr: RM, or the fault copy, may ask for the bottom half once the *)
(* adapter is up.                                                          *)
nvidia_isr(g) ==
    /\ devSetup.busy /\ nvl[g].irq /\ nvl[g].rm = "up" /\ ~nvl[g].bh /\ ~nvl[g].suspended
    /\ nvl' = [nvl EXCEPT ![g].bh = TRUE]
    /\ UNCHANGED <<devs, devLocks, minors, devTask, devModule, devSetup>>
nvidia_isr_common_bh(g) ==
    /\ nvl[g].bh
    /\ nvl' = [nvl EXCEPT ![g].bh = FALSE]
    /\ UNCHANGED <<devs, devLocks, minors, devTask, devModule, devSetup>>

(* RM starts the timer, and its callback ends it by not asking for more.   *)
nv_start_rc_timer(g) ==
    /\ devSetup.busy /\ nvl[g].rm = "up" /\ ~nvl[g].timer /\ ~nvl[g].suspended
    /\ nvl' = [nvl EXCEPT ![g].timer = TRUE]
    /\ UNCHANGED <<devs, devLocks, minors, devTask, devModule, devSetup>>
nvidia_rc_timer(g) ==
    /\ nvl[g].timer
    /\ nvl' = [nvl EXCEPT ![g].timer = FALSE]
    /\ UNCHANGED <<devs, devLocks, minors, devTask, devModule, devSetup>>

(* rm_ioctl on an open file: the persistence mode is RM's to change.       *)
SetPersistence(g) ==
    /\ devSetup.persists /\ nvl[g].open /\ nvl[g].files > 0 /\ ~NV_IS_GVI_DEVICE(g) /\ nvl[g].lock = DevNone
    /\ nvl' = [nvl EXCEPT ![g].persistent = ~@]
    /\ UNCHANGED <<devs, devLocks, minors, devTask, devModule, devSetup>>

(* Tasks are frozen while the system sleeps.  nv_power_management takes no *)
(* lock; suspending kills the tasklet, resuming sets it up again.          *)
Frozen == \A t \in DevThread \union {DevLoader} : DevAt(t, "idle")
nvidia_suspend(g) ==
    /\ devSetup.busy /\ Frozen /\ nvl[g].alive /\ ~nvl[g].suspended /\ (~devSetup.threaded => BottomHalfIdle(nvl[g]))
    /\ nvl' = [nvl EXCEPT ![g].suspended = TRUE, ![g].timer = FALSE]
    /\ UNCHANGED <<devs, devLocks, minors, devTask, devModule, devSetup>>
nvidia_resume(g) ==
    /\ nvl[g].suspended
    /\ nvl' = [nvl EXCEPT ![g].suspended = FALSE, ![g].bh = devSetup.threaded /\ @]
    /\ UNCHANGED <<devs, devLocks, minors, devTask, devModule, devSetup>>

(***************************************************************************)
(* Loading the module.  What nvidia_init_module acquires, in order, and    *)
(* what each of its labels releases.                                       *)
(***************************************************************************)
InitOrder == <<"heap", "stack_cache", "sp", "rm", "chrdev", "procfs", "pci", "pte_cache", "p2p_cache", "pat", "uvm">>
(* Mutant: no label unregisters the character device.                      *)
labels_skip_chrdev(x) ==
    LET at == CHOOSE i \in DOMAIN InitOrder : InitOrder[i] = x
    IN  {InitOrder[i] : i \in 1 .. at - 1} \ {"chrdev"}
InitLabel(x) ==
    CASE x \in {"heap", "stack_cache", "sp"} -> {"heap", "stack_cache"}
      [] x = "rm"      -> {"heap", "stack_cache", "sp"}
      [] x = "chrdev"  -> {"heap", "stack_cache", "sp", "rm"}
      [] x = "procfs"  -> {"heap", "stack_cache", "sp", "rm", "chrdev"}
      [] x = "pci"     -> {"heap", "stack_cache", "sp", "rm", "chrdev", "procfs"}
      [] OTHER         -> {"heap", "stack_cache", "sp", "rm", "chrdev", "procfs", "pci", "pte_cache", "p2p_cache", "uvm"}

nvidia_init_module ==
    /\ DevAt(DevLoader, "idle") /\ devModule.phase \in {"unloaded", "init"}
    /\ LET held == IF devModule.phase = "unloaded" THEN {} ELSE devModule.held
           x == InitOrder[Cardinality(held) + 1]
           more == [devModule EXCEPT !.held = held \union {x}, !.phase = "init"]
       IN  \/ /\ ~(x = "pte_cache" /\ devs = <<>>)
              /\ devModule' = IF x = "pci" THEN [more EXCEPT !.phase = "probe", !.todo = devSetup.gpus]
                              ELSE IF x = "uvm" THEN [more EXCEPT !.phase = "live"]
                              ELSE more
           \/ /\ DevMayFail \/ (x = "pte_cache" /\ devs = <<>>)   \* or no GPU has been found
              /\ devModule' = [devModule EXCEPT !.phase = "failed", !.held = held \ (InitLabel(x) \ {"pci"})]
    /\ UNCHANGED <<nvl, devs, devLocks, minors, devTask, devSetup>>

(* pci_unregister_driver removes the GPUs before the labels below it run.  *)
InitFailed ==
    /\ DevAt(DevLoader, "idle") /\ devModule.phase \in {"failed", "exit"}
    /\ \A g \in DevGpu : ~nvl[g].alive
    /\ devModule' = [phase |-> "unloaded", todo |-> {},
                     held |-> IF devModule.phase = "exit" THEN {} ELSE devModule.held \ {"pci"}]
    /\ UNCHANGED <<nvl, devs, devLocks, minors, devTask, devSetup>>

(* The kernel calls it when nobody uses the module.                        *)
nvidia_exit_module ==
    /\ devModule.phase = "live" /\ Frozen
    /\ \A g \in DevGpu : nvl[g].files = 0 /\ nvl[g].gets = 0
    /\ devModule' = [devModule EXCEPT !.phase = "exit"]
    /\ UNCHANGED <<nvl, devs, devLocks, minors, devTask, devSetup>>

(***************************************************************************)
(* Probing and removing                                                    *)
(***************************************************************************)
(* A new nv_linux_state_t: zeroed, then its BARs, its interrupt and RM's   *)
(* private state are filled in.                                            *)
DevProbed == [NoNvl EXCEPT !.alive = TRUE]

(* Everything that can go wrong in nvidia_probe before the GPU is on the   *)
(* list undoes itself.                                                     *)
nvidia_probe(g) ==
    /\ DevAt(DevLoader, "idle") /\ devModule.phase = "probe" /\ g \in devModule.todo
    /\ devModule' = [devModule EXCEPT !.todo = @ \ {g}]
    /\ \/ DevMayFail /\ UNCHANGED <<nvl, devs, devTask>>
       \/ /\ devLocks.devices = DevNone
          /\ nvl' = [nvl EXCEPT ![g] = DevProbed] /\ devs' = Append(devs, g)
          /\ devTask' = [devTask EXCEPT ![DevLoader].pc = "add_device", ![DevLoader].gpu = g]
    /\ UNCHANGED <<devLocks, minors, devSetup>>

(* add_device: the lowest minor that is free.                              *)
nvidia_frontend_add_device ==
    /\ DevAt(DevLoader, "add_device") /\ devLocks.table = DevNone
    /\ LET g == Mine(DevLoader)
           free == {m \in DevMinor : minors[m] = DevNone}
           m == CHOOSE x \in free : \A y \in free : x <= y
       IN  minors' = [minors EXCEPT ![m] = g] /\ nvl' = [nvl EXCEPT ![g].minor = m]
    /\ DevDone(DevLoader)
    /\ UNCHANGED <<devs, devLocks, devModule, devSetup>>

EndProbe ==
    /\ DevAt(DevLoader, "idle") /\ devModule.phase = "probe" /\ devModule.todo = {}
    /\ devModule' = [devModule EXCEPT !.phase = "init"]
    /\ UNCHANGED <<nvl, devs, devLocks, minors, devTask, devSetup>>

(* nvidia_remove looks at usage_count under the list's lock only, and      *)
(* hangs for good when it is not zero.                                     *)
nvidia_remove(g) ==
    /\ DevAt(DevLoader, "idle") /\ nvl[g].alive /\ devLocks.devices = DevNone
    /\ devModule.phase \in {"failed", "exit"} \/ (devModule.phase = "live" /\ devSetup.hot)
    /\ IF nvl[g].usage # 0
       THEN devTask' = [devTask EXCEPT ![DevLoader].pc = "hang", ![DevLoader].gpu = g] /\ UNCHANGED devs
       ELSE /\ devTask' = [devTask EXCEPT ![DevLoader].pc = "remove_down", ![DevLoader].gpu = g]
            /\ devs' = SelectSeq(devs, LAMBDA x : x # g)
    /\ devLocks' = [devLocks EXCEPT !.devices = DevLoader]
    /\ UNCHANGED <<nvl, minors, devModule, devSetup>>

RemoveTakesLdata ==
    /\ DevAt(DevLoader, "remove_down") /\ nvl[Mine(DevLoader)].lock = DevNone
    /\ nvl' = [nvl EXCEPT ![Mine(DevLoader)].lock = DevLoader]
    /\ devLocks' = [devLocks EXCEPT !.devices = DevNone]
    /\ DevGoto(DevLoader, "remove_device")
    /\ UNCHANGED <<devs, minors, devModule, devSetup>>

nvidia_frontend_remove_device ==
    /\ DevAt(DevLoader, "remove_device") /\ devLocks.table = DevNone
    /\ LET g == Mine(DevLoader)
           v == nvl[g]
       IN  /\ minors' = [minors EXCEPT ![v.minor] = DevNone]
           /\ nvl' = [nvl EXCEPT ![g] = [IF v.open \/ v.persistent
                                         THEN rm_disable_adapter([v EXCEPT !.persistent = FALSE])
                                         ELSE v EXCEPT !.minor = 0]]
    /\ DevGoto(DevLoader, "remove_free")
    /\ UNCHANGED <<devs, devLocks, devModule, devSetup>>

(* nv_shutdown_adapter and the rest: the nv_linux_state_t is freed.        *)
RemoveFrees ==
    /\ DevAt(DevLoader, "remove_free") /\ BottomHalfIdle(nvl[Mine(DevLoader)])
    /\ nvl' = [nvl EXCEPT ![Mine(DevLoader)] = [NoNvl EXCEPT !.files = nvl[Mine(DevLoader)].files,
                                                            !.gets = nvl[Mine(DevLoader)].gets]]
    /\ DevDone(DevLoader)
    /\ UNCHANGED <<devs, devLocks, minors, devModule, devSetup>>

DevAwake == \A g \in DevGpu : ~nvl[g].suspended
DevNext ==
    \/ /\ DevAwake
       /\ \/ \E t \in DevThread :
                 \/ \E m \in DevMinor : nvidia_frontend_open(t, m)
                 \/ \E g \in DevGpu : \/ nvidia_frontend_close(t, g) \/ nvidia_dev_get(t, g)
                                       \/ nvidia_dev_get_uuid(t, g) \/ nvidia_dev_put(t, g)
                                       \/ nvidia_dev_put_uuid(t, g)
                 \/ BeginFind(t) \/ TakeLdata(t) \/ find_uuid_candidate(t)
                 \/ nv_open_device(t) \/ nv_dev_alloc_stacks(t) \/ nv_request_irq(t) \/ nv_start_device(t)
                 \/ nv_close_device(t) \/ BeginStop(t) \/ nv_stop_device(t)
          \/ nvidia_init_module \/ InitFailed \/ nvidia_exit_module
          \/ nvidia_frontend_add_device \/ EndProbe
          \/ RemoveTakesLdata \/ nvidia_frontend_remove_device \/ RemoveFrees
          \/ \E g \in DevGpu : \/ nvidia_probe(g) \/ nvidia_remove(g) \/ SetPersistence(g)
                                \/ nvidia_isr(g) \/ nv_start_rc_timer(g) \/ nvidia_rc_timer(g)
    \/ \E g \in DevGpu : nvidia_isr_common_bh(g) \/ nvidia_suspend(g) \/ nvidia_resume(g)

DevSpec == DevInit /\ [][DevNext]_devVars

(***************************************************************************)
(* Properties                                                              *)
(***************************************************************************)
DevHolder(g) == nvl[g].lock # DevNone

(* A GPU that is open has everything that was set up for it and is         *)
(* counted; one that is not has given everything back, unless RM keeps it  *)
(* in its persistent state.  Every reference is counted where its owner    *)
(* will give it back, and neither the bottom half nor the RC timer ever    *)
(* runs without the stacks.                                                *)
DevResourcesExact ==
    \A g \in DevGpu :
        LET v == nvl[g]
            probing == {t \in DevThread : Mine(t) = g /\ devTask[t].op = "get_uuid" /\ DevAt(t, "close_device")}
        IN  /\ v.alive => v.usage = v.files + v.gets + Cardinality(probing)
            /\ v.bh \/ v.timer => v.stacks
            /\ v.irq => v.stacks
            /\ ~DevHolder(g) =>
                  /\ v.open <=> v.usage > 0
                  /\ v.open => v.stacks /\ v.irq /\ (NV_IS_GVI_DEVICE(g) \/ (v.rm = "up" /\ v.uuid))
                  /\ v.persistent => v.stacks /\ v.irq
                  /\ ~v.open /\ ~v.persistent => ~v.stacks /\ ~v.irq /\ ~v.msi /\ v.rm = "down" /\ ~v.bh

(* A module that is not loaded, because it was unloaded or because loading *)
(* failed, holds nothing but the PAT support a failing nv_uvm_init leaves  *)
(* behind; no GPU is left on the list or in the table of minors.           *)
UnloadedHoldsNothing ==
    devModule.phase = "unloaded" =>
        devModule.held \subseteq {"pat"} /\ devs = <<>> /\ \A m \in DevMinor : minors[m] = DevNone

(* Both: a GPU and the module hold what their state says, in every         *)
(* interleaving of opening, closing, interrupts, loading and unloading.    *)
DevicesExact == DevResourcesExact /\ UnloadedHoldsNothing

(* nvidia_remove: "A removed device shouldn't have a non-zero              *)
(* usage_count": no file and no kernel module refers to a freed GPU.       *)
RemovedIsUnused ==
    \A g \in DevGpu : ~nvl[g].alive => nvl[g].files = 0 /\ nvl[g].gets = 0
================================================================================
