------------------------------ MODULE ModuleLoad ------------------------------
(***************************************************************************)
(* Loading and unloading nvidia-uvm.ko (uvm_common.c, uvm8_global.c,       *)
(* uvm8.c, uvm_lite.c): one step after another acquires something, any of  *)
(* them may fail, and every way out releases what there is.  The tables of *)
(* the HALs are completed on the way (uvm8_hal.c), and the files of the    *)
(* loaded module are given their flags once.                               *)
(***************************************************************************)
EXTENDS Naturals, Sequences, FiniteSets

CONSTANTS MlOps,    \* operations of a HAL
          MlFlags,  \* flags UVM_INITIALIZE may be given
          MlSetups  \* the setups to explore, see MlAssumption

(* mode: 8 or lite; fails: the steps that may fail; table: rows of a HAL,  *)
(* each with its parent (0: none) and the operations it has.  The code     *)
(* does not handle failures of the steps in MlUnhandled.                   *)
ASSUME MlAssumption ==
    \A s \in MlSetups :
        /\ s.mode \in {"8", "lite"}
        /\ \A i \in DOMAIN s.table : s.table[i].parent \in 0 .. i /\ s.table[i].ops \subseteq MlOps

VARIABLES
    mlAt,    \* unloaded, loading, loaded or leaving
    mlIndex,  \* the next step of loading
    mlTodo,  \* what is released next
    mlHeld,  \* what has been acquired
    mlRet,   \* what uvm_init returned
    mlLoaded,\* it has been loaded
    mlTable, \* [row -> [MlOps -> the row whose operation it has, or 0]]
    mlFile,  \* the open file: [open, initialized, flags]
    mlAgreed,\* flags with which UVM_INITIALIZE succeeded on it
    mlSetup

mlVars == <<mlAt, mlIndex, mlTodo, mlHeld, mlRet, mlLoaded, mlTable, mlFile, mlAgreed, mlSetup>>

NoMlFile == [open |-> FALSE, initialized |-> FALSE, flags |-> {}]
MlInit ==
    /\ mlAt = "unloaded" /\ mlIndex = 0 /\ mlTodo = <<>> /\ mlHeld = {}
    /\ mlRet = "0" /\ mlLoaded = FALSE /\ mlTable = <<>> /\ mlFile = NoMlFile /\ mlAgreed = {}
    /\ mlSetup \in MlSetups

(***************************************************************************)
(* Statuses and error numbers                                              *)
(***************************************************************************)
nv_status_to_errno(status) ==
    CASE status = "OK" -> "0"
      [] status = "BUSY_RETRY" -> "EBUSY"
      [] status = "INSUFFICIENT_PERMISSIONS" -> "EPERM"
      [] status = "GPU_UUID_NOT_FOUND" -> "ENODEV"
      [] status \in {"INSUFFICIENT_RESOURCES", "NO_MEMORY"} -> "ENOMEM"
      [] status = "INVALID_ACCESS_TYPE" -> "EACCES"
      [] status = "INVALID_ADDRESS" -> "EFAULT"
      [] status = "NOT_SUPPORTED" -> "ENOSYS"
      [] status = "MODULE_LOAD_FAILED" -> "ENXIO"
      [] status \in {"OVERLAPPING_UVM_COMMIT", "UVM_ADDRESS_IN_USE"} -> "EADDRINUSE"
      [] status = "PID_NOT_FOUND" -> "ESRCH"
      [] status \in {"TIMEOUT", "TIMEOUT_RETRY"} -> "ETIMEDOUT"
      [] status = "IN_USE" -> "EEXIST"
      [] status = "NO_VALID_PATH" -> "ENOENT"
      [] status \in {"RC_ERROR", "ECC_ERROR"} -> "EIO"
      [] OTHER -> "EINVAL"

errno_to_nv_status(errno) ==
    CASE errno = "0" -> "OK"
      [] errno \in {"E2BIG", "EINVAL"} -> "INVALID_ARGUMENT"
      [] errno = "EACCES" -> "INVALID_ACCESS_TYPE"
      [] errno \in {"EADDRINUSE", "EADDRNOTAVAIL"} -> "UVM_ADDRESS_IN_USE"
      [] errno = "EFAULT" -> "INVALID_ADDRESS"
      [] errno \in {"EINTR", "EBUSY"} -> "BUSY_RETRY"
      [] errno \in {"ENXIO", "ENODEV"} -> "MODULE_LOAD_FAILED"
      [] errno = "ENOMEM" -> "NO_MEMORY"
      [] errno = "EPERM" -> "INSUFFICIENT_PERMISSIONS"
      [] errno = "ESRCH" -> "PID_NOT_FOUND"
      [] errno = "ETIMEDOUT" -> "TIMEOUT"
      [] errno = "EEXIST" -> "IN_USE"
      [] errno = "ENOSYS" -> "NOT_SUPPORTED"
      [] errno = "ENOENT" -> "NO_VALID_PATH"
      [] errno = "EIO" -> "RC_ERROR"
      [] OTHER -> "GENERIC"

(* What RM may answer to the registration of the callbacks.                *)
RmStatuses == {"NO_MEMORY", "IN_USE", "TIMEOUT", "INVALID_STATE", "GENERIC"}

(***************************************************************************)
(* Steps, in order, and the ways out                                       *)
(***************************************************************************)
uvm_global_init ==
    <<"kvmalloc", "thread_context", "global_q", "procfs", "session", "hal", "mem", "va_range",
      "range_group", "perf_events", "perf_heuristics", "callbacks">>
uvm_tools_init == <<"tools_caches", "tools_q", "tools_cdev">>
uvmlite_init ==
    <<"events", "counters", "lite_caches", "prefetch", "regiontracker", "page_cache",
      "priv_region", "lite_cdev">>

uvm8_init == uvm_global_init \o <<"cdev">> \o uvm_tools_init
uvm_not8_init == <<"channel_api">> \o uvmlite_init \o <<"callbacks", "gpu_list">>
MlSteps == IF mlSetup.mode = "8" THEN uvm8_init ELSE uvm_not8_init
MlStep == MlSteps[mlIndex]

uvm_global_exit ==
    <<"callbacks", "perf_heuristics", "perf_events", "range_group", "va_range", "mem", "hal",
      "session", "procfs", "global_q", "thread_context", "kvmalloc">>
uvm_tools_exit == <<"tools_cdev", "tools_q", "tools_caches">>
uvm8_exit == uvm_tools_exit \o <<"cdev">> \o uvm_global_exit
uvmlite_exit ==
    <<"lite_cdev", "lite_caches", "prefetch", "regiontracker", "events", "counters", "page_cache">>
uvm_not8_exit == <<"callbacks", "channel_api">> \o uvmlite_exit

(* The labels at the ends of the functions.  uvmlite_init's knows neither  *)
(* of the page cache nor of a device; uvm8_init's knows nothing of the     *)
(* tools.                                                                  *)
Among(step, steps) == \E i \in DOMAIN steps : steps[i] = step
uvmlite_init_fail == <<"lite_caches", "prefetch", "regiontracker", "events", "counters">>
WayOut(step) ==
    CASE mlSetup.mode = "lite" /\ Among(step, uvmlite_init) -> uvmlite_init_fail \o <<"channel_api">>
      [] mlSetup.mode = "lite" /\ step = "channel_api" -> <<>>
      [] mlSetup.mode = "lite" /\ step = "callbacks" -> <<"channel_api">> \o uvmlite_exit
      [] mlSetup.mode = "lite" /\ step = "gpu_list" -> <<"callbacks", "channel_api">> \o uvmlite_exit
      [] step = "session" -> <<>>
      [] Among(step, uvm_tools_init) -> <<"cdev">> \o uvm_global_exit
      [] OTHER -> uvm_global_exit

(* Whose failures the code does not handle: the queue's and the events'    *)
(* leave a success in the status, the session's returns at once, and what  *)
(* the tools and the page cache have acquired is forgotten.                *)
MlUnhandled == {"global_q", "session", "tools_caches", "tools_q", "tools_cdev", "events", "counters",
              "priv_region", "lite_cdev"}
ReturnsOK == {"global_q", "events", "counters"}

(* uvm_not8_init gives the status of RM or ENOMEM, uvm8_init ENODEV until  *)
(* a device has been tried.                                                *)
MlErrno(step, status) ==
    CASE step = "callbacks" /\ mlSetup.mode = "lite" -> nv_status_to_errno(status)
      [] step \in {"cdev", "lite_cdev", "tools_caches", "tools_q", "tools_cdev"} -> "ENOMEM"
      [] mlSetup.mode = "lite" -> "ENOMEM"
      [] OTHER -> "ENODEV"

(***************************************************************************)
(* HAL tables                                                              *)
(***************************************************************************)
(* A row has its own operations and those its parent has by then; parents  *)
(* are looked for among the rows before it.                                *)
ops_init_from_parent(table) ==
    LET row[i \in 0 .. Len(table)] ==
            [op \in MlOps |-> IF i = 0 THEN 0
                              ELSE IF op \in table[i].ops THEN i
                              ELSE IF table[i].parent = i THEN 0
                              ELSE row[table[i].parent][op]]
    IN  [i \in 1 .. Len(table) |-> row[i]]

(* A row that is its own parent has none before it; no row may lack an     *)
(* operation.                                                              *)
TableComplete(table) ==
    \A i \in DOMAIN table :
        /\ table[i].parent # i
        /\ \A op \in MlOps : ops_init_from_parent(table)[i][op] # 0

(***************************************************************************)
(* Load and unload                                                         *)
(***************************************************************************)
uvm_init ==
    /\ mlAt = "unloaded" /\ mlHeld = {}
    /\ mlAt' = "loading" /\ mlIndex' = 1 /\ mlHeld' = {"region"} /\ mlLoaded' = FALSE
    /\ UNCHANGED <<mlTodo, mlRet, mlTable, mlFile, mlAgreed, mlSetup>>

(* Queries acquire nothing; a table that cannot be completed fails.        *)
MlQueries == {"priv_region", "gpu_list"}
StepFails == MlStep \in mlSetup.fails \/ (MlStep = "hal" /\ ~TableComplete(mlSetup.table))
StepSucceeds == MlStep = "hal" => TableComplete(mlSetup.table)
MlLoadStep ==
    /\ mlAt = "loading" /\ StepSucceeds
    /\ mlHeld' = mlHeld \union ({MlStep} \ MlQueries)
    /\ mlTable' = IF MlStep = "hal" THEN ops_init_from_parent(mlSetup.table) ELSE mlTable
    /\ IF mlIndex = Len(MlSteps) THEN mlAt' = "loaded" /\ mlRet' = "0" /\ mlLoaded' = TRUE /\ mlIndex' = 0
       ELSE mlIndex' = mlIndex + 1 /\ UNCHANGED <<mlAt, mlRet, mlLoaded>>
    /\ UNCHANGED <<mlTodo, mlFile, mlAgreed, mlSetup>>

(* A step of several parts that fails may leave some.  Where a failed step *)
(* returns OK, its function releases all it has and the load goes on.      *)
MlSeveral == {"procfs", "hal", "va_range", "perf_heuristics", "lite_caches", "regiontracker",
              "tools_caches"}
Goes(steps) == mlTodo' = steps \o <<"region">>
GoesOnAfter == IF mlSetup.mode = "8" THEN Len(uvm_global_init) + 1 ELSE Len(uvmlite_init) + 2
MlStepFails ==
    /\ mlAt = "loading" /\ StepFails
    /\ IF MlStep \in ReturnsOK
       THEN /\ mlHeld' = mlHeld \intersect {"region", "channel_api"} /\ mlIndex' = GoesOnAfter
            /\ UNCHANGED <<mlAt, mlTodo, mlRet>>
       ELSE \E part \in {{}, {MlStep}}, status \in RmStatuses :
            /\ mlHeld' = mlHeld \union (part \intersect MlSeveral)
            /\ mlRet' = MlErrno(MlStep, status)
            /\ mlAt' = "leaving" /\ mlIndex' = 0 /\ Goes(WayOut(MlStep))
    /\ UNCHANGED <<mlLoaded, mlTable, mlFile, mlAgreed, mlSetup>>

(* Nobody unloads a module with open files.                                *)
uvm_exit ==
    /\ mlAt = "loaded" /\ ~mlFile.open
    /\ mlAt' = "leaving" /\ Goes(IF mlSetup.mode = "8" THEN uvm8_exit ELSE uvm_not8_exit)
    /\ UNCHANGED <<mlIndex, mlHeld, mlRet, mlLoaded, mlTable, mlFile, mlAgreed, mlSetup>>

MlRelease ==
    /\ mlAt = "leaving"
    /\ IF mlTodo = <<>> THEN mlAt' = "unloaded" /\ UNCHANGED <<mlTodo, mlHeld>>
       ELSE mlHeld' = mlHeld \ {Head(mlTodo)} /\ mlTodo' = Tail(mlTodo) /\ UNCHANGED mlAt
    /\ mlTable' = IF "hal" \in mlHeld' THEN mlTable ELSE <<>>
    /\ UNCHANGED <<mlIndex, mlRet, mlLoaded, mlFile, mlAgreed, mlSetup>>

(***************************************************************************)
(* Files                                                                   *)
(***************************************************************************)
MlOpen ==
    /\ mlAt = "loaded" /\ mlSetup.mode = "8" /\ ~mlFile.open
    /\ mlFile' = [NoMlFile EXCEPT !.open = TRUE]
    /\ UNCHANGED <<mlAt, mlIndex, mlTodo, mlHeld, mlRet, mlLoaded, mlTable, mlAgreed, mlSetup>>

MlClose ==
    /\ mlFile.open
    /\ mlFile' = NoMlFile /\ mlAgreed' = {}
    /\ UNCHANGED <<mlAt, mlIndex, mlTodo, mlHeld, mlRet, mlLoaded, mlTable, mlSetup>>

(* The first call sets the flags, later ones must agree.                   *)
uvm8_initialize(flags) ==
    /\ mlFile.open
    /\ mlFile' = IF mlFile.initialized THEN mlFile
                 ELSE [mlFile EXCEPT !.initialized = TRUE, !.flags = flags]
    /\ mlAgreed' = IF mlFile.initialized /\ mlFile.flags # flags THEN mlAgreed
                   ELSE mlAgreed \union {flags}
    /\ UNCHANGED <<mlAt, mlIndex, mlTodo, mlHeld, mlRet, mlLoaded, mlTable, mlSetup>>

MlNext ==
    \/ uvm_init \/ MlLoadStep \/ MlStepFails \/ uvm_exit \/ MlRelease
    \/ MlOpen \/ MlClose \/ \E flags \in MlFlags : uvm8_initialize(flags)

MlSpec == MlInit /\ [][MlNext]_mlVars

(***************************************************************************)
(* Properties                                                              *)
(***************************************************************************)
(* A module that is not loaded has left nothing behind; a loaded one has   *)
(* everything; the way out is taken after an error has been returned, or   *)
(* by one that was loaded.                                                 *)
LoadedOrNothing ==
    /\ mlAt = "unloaded" => mlHeld = {}
    /\ mlAt = "loaded" => mlRet = "0" /\ \A i \in DOMAIN MlSteps : MlSteps[i] \in mlHeld \union MlQueries
    /\ mlAt = "leaving" /\ mlRet = "0" => mlLoaded

(* Interrupts and calls of RM may come as long as the callbacks are        *)
(* registered, and files may be opened as long as there is a device: what  *)
(* they use is there.                                                      *)
CalledPrepared ==
    /\ mlSetup.mode = "8" /\ "callbacks" \in mlHeld =>
          \A i \in DOMAIN uvm_global_init : uvm_global_init[i] \in mlHeld
    /\ "cdev" \in mlHeld => \A i \in DOMAIN uvm_global_init : uvm_global_init[i] \in mlHeld
    /\ "tools_cdev" \in mlHeld => {"tools_q", "tools_caches", "kvmalloc"} \subseteq mlHeld
    /\ mlSetup.mode = "lite" /\ "callbacks" \in mlHeld =>
          {"channel_api", "lite_caches", "events", "counters", "page_cache"} \subseteq mlHeld
    /\ "lite_cdev" \in mlHeld =>
          {"lite_caches", "events", "counters", "page_cache", "prefetch", "regiontracker"} \subseteq mlHeld

(* Each operation is that of the nearest of a row and its ancestors that   *)
(* has one.                                                                *)
Ancestors(table, i) ==
    {j \in DOMAIN table : \A S \in SUBSET DOMAIN table :
        (i \in S /\ \A k \in S : table[k].parent # 0 => table[k].parent \in S) => j \in S}
TablesResolved ==
    \A i \in DOMAIN mlTable, op \in MlOps :
        LET has == {j \in Ancestors(mlSetup.table, i) : op \in mlSetup.table[j].ops}
        IN  mlTable[i][op] \in has /\ \A j \in has : j <= mlTable[i][op]

(* Whoever has been told that a file has its flags was told the truth.     *)
FlagsAgreed == \A flags \in mlAgreed : mlFile.flags = flags

ModuleExact == LoadedOrNothing /\ CalledPrepared /\ TablesResolved /\ FlagsAgreed
================================================================================
