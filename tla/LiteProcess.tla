------------------------------ MODULE LiteProcess ------------------------------
(***************************************************************************)
(* The processes of UVM-Lite (uvm_lite.c, uvm_lite_api.c): open files,     *)
(* the migration tracker of each, the MPS server whose tracker its clients *)
(* use, GPUs that stop, and the debug sessions that hold the containers of *)
(* another process and own event queues (uvm_debug_session.c,              *)
(* uvm_kernel_events.c, uvm_kernel_counters.c).  There is one GPU.         *)
(***************************************************************************)
EXTENDS Naturals, Sequences, FiniteSets

CONSTANTS LpFile,    \* files; each is opened once
          LpQueue,   \* event queues; none is used twice
          LpThread,  \* threads that add sessions
          LpNone,
          LpMaxStop, \* bound: times the GPU stops
          LpSetups   \* the setups to explore, see LpAssumption

(* part: mps or sessions; files: those opened; fails: memory and RM may    *)
(* fail.  What the code does not exclude: window, a server closes while a  *)
(* client that has found it registers; order, a client's file is older     *)
(* than its server's; late, a process with a tracker registers; removes, a *)
(* session is removed while it is being added.                             *)
ASSUME LpAssumption ==
    /\ LpNone \notin LpFile \union LpQueue /\ LpMaxStop \in Nat
    /\ \A s \in LpSetups : /\ s.part \in {"mps", "sessions"} /\ s.files \subseteq LpFile
                           /\ {s.fails, s.window, s.order, s.late, s.removes} \subseteq BOOLEAN

VARIABLES
    lpFile,    \* [LpFile -> DriverPrivate]
    lpServer,  \* [LpFile -> the UvmMpsServer of the file]
    lpMig,     \* [LpFile -> memory of the tracker the file created]
    lpTable,   \* g_uvmDriverPrivateTable, the newest first
    lpGpu,     \* the GPU and the stop event under way
    lpCont,    \* [LpFile -> its counter and event containers]
    lpSession, \* [LpFile -> the session of the file's only slot]
    lpAdd,     \* [LpThread -> uvm_api_add_session]
    lpQueue,   \* [LpQueue -> UvmEventQueueInfo]
    lpSetup

lpMpsVars == <<lpServer, lpMig, lpGpu>>
lpSessionVars == <<lpSession, lpAdd, lpQueue>>
lpVars == <<lpFile, lpMpsVars, lpTable, lpCont, lpSessionVars, lpSetup>>

(* st: none, open, closing (its MPS part is done) or closed; mps and       *)
(* mpsServer: the process record; found: a server register_mps_client has  *)
(* looked up; migTracker: whose tracker the process uses.                  *)
NoFile == [st |-> "none", mps |-> "not_active", mpsServer |-> LpNone, found |-> LpNone,
           migTracker |-> LpNone]
NoServer == [mem |-> "unused", kref |-> 0, listed |-> FALSE, dying |-> FALSE]
NoAdd == [at |-> "none", file |-> LpNone, target |-> LpNone]
NoEventQueue == [mem |-> "unused", session |-> LpNone, target |-> LpNone, enabled |-> FALSE]

LpInit ==
    /\ lpFile = [f \in LpFile |-> NoFile]
    /\ lpServer = [f \in LpFile |-> NoServer]
    /\ lpMig = [f \in LpFile |-> "unused"]
    /\ lpTable = <<>>
    /\ lpGpu = [enabled |-> TRUE, stops |-> 0, left |-> <<>>]
    /\ lpCont = [f \in LpFile |-> [mem |-> "unused", refs |-> 0]]
    /\ lpSession = [f \in LpFile |-> LpNone]
    /\ lpAdd = [t \in LpThread |-> NoAdd]
    /\ lpQueue = [q \in LpQueue |-> NoEventQueue]
    /\ lpSetup \in LpSetups

LpOutcomes(mayFail) == IF mayFail THEN BOOLEAN ELSE {TRUE}
LpFreed(m) == IF m = "live" THEN "freed" ELSE "broken"

(* The table's lock, held for writing while the GPU's stop event visits    *)
(* the files.                                                              *)
TableFree == lpGpu.left = <<>>
LpOpen(f) == lpFile[f].st = "open" /\ lpFile[f].found = LpNone

(* The containers of one kind share their life: one count for both.        *)
uvm_ref_container(conts, f) == [conts EXCEPT ![f].refs = @ + 1]
uvm_unref_container(conts, f) ==
    [conts EXCEPT ![f].refs = IF @ = 0 THEN 0 ELSE @ - 1,
                  ![f].mem = IF conts[f].refs = 1 THEN LpFreed(@)
                             ELSE IF conts[f].refs = 0 THEN "broken" ELSE @]

(***************************************************************************)
(* Files                                                                   *)
(***************************************************************************)
(* Everything that can fail comes before the table; a failure unreferences *)
(* the containers there are.                                               *)
uvmlite_open(f) ==
    /\ f \in lpSetup.files /\ lpFile[f].st = "none" /\ TableFree
    /\ \/ /\ lpFile' = [lpFile EXCEPT ![f].st = "open"]
          /\ lpCont' = [lpCont EXCEPT ![f] = [mem |-> "live", refs |-> 1]]
          /\ lpTable' = <<f>> \o lpTable
       \/ /\ lpSetup.fails
          /\ lpFile' = [lpFile EXCEPT ![f].st = "closed"]
          /\ UNCHANGED <<lpTable, lpCont>>
    /\ UNCHANGED <<lpMpsVars, lpSessionVars, lpSetup>>

kref_put(servers, s) ==
    [servers EXCEPT ![s].kref = IF @ = 0 THEN 0 ELSE @ - 1,
                    ![s].mem = IF servers[s].kref = 1 THEN LpFreed(@)
                               ELSE IF servers[s].kref = 0 THEN "broken" ELSE @]

(* The MPS part of uvmlite_close: a server leaves the list and is marked   *)
(* dying before its reference, and a client's, is put.                     *)
CloseMps(f) ==
    /\ LpOpen(f)
    /\ \A t \in LpThread : lpAdd[t].file # f
    /\ lpSetup.window \/ \A c \in LpFile : lpFile[c].found # f
    /\ lpServer' = CASE lpFile[f].mps = "server" ->
                          kref_put([lpServer EXCEPT ![f].listed = FALSE, ![f].dying = TRUE], f)
                     [] lpFile[f].mps = "client" -> kref_put(lpServer, lpFile[f].mpsServer)
                     [] OTHER -> lpServer
    /\ lpFile' = [lpFile EXCEPT ![f].st = "closing"]
    /\ UNCHANGED <<lpMig, lpGpu, lpTable, lpCont, lpSessionVars, lpSetup>>

(* A client's tracker is its server's.                                     *)
delete_migration_resources(f) ==
    /\ lpMig' = IF lpFile[f].migTracker = LpNone \/ lpFile[f].mps = "client" THEN lpMig
                ELSE [lpMig EXCEPT ![lpFile[f].migTracker] = LpFreed(@)]
    /\ lpFile' = [lpFile EXCEPT ![f].migTracker = LpNone]

CloseMigrations(f) ==
    /\ lpFile[f].st = "closing" /\ TableFree
    /\ \E i \in DOMAIN lpTable : lpTable[i] = f
    /\ lpTable' = SelectSeq(lpTable, LAMBDA g : g # f)
    /\ delete_migration_resources(f)
    /\ UNCHANGED <<lpServer, lpGpu, lpCont, lpSessionVars, lpSetup>>

(* The containers' references: the file's own, and its session's.          *)
CloseContainers(f) ==
    LET own == uvm_unref_container(lpCont, f)
    IN  /\ lpFile[f].st = "closing"
        /\ \A i \in DOMAIN lpTable : lpTable[i] # f
        /\ lpCont' = IF lpSession[f] = LpNone THEN own ELSE uvm_unref_container(own, lpSession[f])
        /\ lpSession' = [lpSession EXCEPT ![f] = LpNone]
        /\ lpFile' = [lpFile EXCEPT ![f].st = "closed"]
        /\ UNCHANGED <<lpMpsVars, lpTable, lpAdd, lpQueue, lpSetup>>

(***************************************************************************)
(* MPS and migration trackers                                              *)
(***************************************************************************)
LpRegisters(f) ==
    /\ lpSetup.part = "mps" /\ LpOpen(f) /\ lpFile[f].mps = "not_active"
    /\ lpSetup.late \/ lpFile[f].migTracker = LpNone

(* A tracker for the GPU, then the server object.  On failure the tracker  *)
(* is destroyed again.                                                     *)
uvmlite_register_mps_server(f) ==
    /\ LpRegisters(f) /\ lpGpu.enabled /\ lpMig[f] = "unused"
    /\ \/ /\ lpServer' = [lpServer EXCEPT ![f] = [mem |-> "live", kref |-> 1, listed |-> TRUE,
                                                  dying |-> FALSE]]
          /\ lpMig' = [lpMig EXCEPT ![f] = "live"]
          /\ lpFile' = [lpFile EXCEPT ![f].mps = "server", ![f].mpsServer = f, ![f].migTracker = f]
       \/ /\ lpSetup.fails
          /\ lpMig' = [lpMig EXCEPT ![f] = "freed"]
          /\ UNCHANGED <<lpFile, lpServer>>
    /\ UNCHANGED <<lpGpu, lpTable, lpCont, lpSessionVars, lpSetup>>

(* The server is looked up under the list's lock ...                       *)
_find_mps_server(f, s) ==
    /\ LpRegisters(f) /\ lpServer[s].listed
    /\ lpSetup.order \/ \E i, j \in DOMAIN lpTable : i < j /\ lpTable[i] = f /\ lpTable[j] = s
    /\ lpFile' = [lpFile EXCEPT ![f].found = s]
    /\ UNCHANGED <<lpMpsVars, lpTable, lpCont, lpSessionVars, lpSetup>>

(* ... and used, and referenced, after it.                                 *)
uvmlite_register_mps_client(f) ==
    LET s == lpFile[f].found
    IN  /\ s # LpNone
        /\ lpServer' = [lpServer EXCEPT ![s].kref = @ + 1,
                                        ![s].mem = IF @ = "live" THEN "live" ELSE "broken"]
        /\ lpFile' = [lpFile EXCEPT ![f].mps = "client", ![f].mpsServer = s, ![f].found = LpNone]
        /\ UNCHANGED <<lpMig, lpGpu, lpTable, lpCont, lpSessionVars, lpSetup>>

_lock_mps_server(f) == ~lpServer[lpFile[f].mpsServer].dying

(* A commit: a client takes its server's tracker, another process makes    *)
(* one.  The stop event waits for the process's lock, so that a commit     *)
(* that found the GPU enabled comes before its visit.                      *)
ShareOrCreateTracker(f) ==
    /\ lpSetup.part = "mps" /\ LpOpen(f) /\ lpGpu.enabled
    /\ lpFile[f].migTracker = LpNone
    /\ IF lpFile[f].mps = "client"
       THEN /\ _lock_mps_server(f)
            /\ lpFile[lpFile[f].mpsServer].migTracker # LpNone
            /\ lpFile' = [lpFile EXCEPT ![f].migTracker = lpFile[lpFile[f].mpsServer].migTracker]
            /\ UNCHANGED lpMig
       ELSE /\ lpMig[f] = "unused"
            /\ lpMig' = [lpMig EXCEPT ![f] = "live"]
            /\ lpFile' = [lpFile EXCEPT ![f].migTracker = f]
    /\ UNCHANGED <<lpServer, lpGpu, lpTable, lpCont, lpSessionVars, lpSetup>>

(* RM stops the GPU: it is disabled, then every file of the table is       *)
(* visited with the table locked.                                          *)
uvmlite_disable_gpu_uuid ==
    /\ lpSetup.part = "mps" /\ lpGpu.enabled /\ lpGpu.stops < LpMaxStop
    /\ lpGpu' = [enabled |-> FALSE, stops |-> lpGpu.stops + 1, left |-> lpTable]
    /\ UNCHANGED <<lpFile, lpServer, lpMig, lpTable, lpCont, lpSessionVars, lpSetup>>

StopVisits ==
    /\ lpGpu.left # <<>>
    /\ delete_migration_resources(Head(lpGpu.left))
    /\ lpGpu' = [lpGpu EXCEPT !.left = Tail(@)]
    /\ UNCHANGED <<lpServer, lpTable, lpCont, lpSessionVars, lpSetup>>

uvmlite_enable_gpu_uuid ==
    /\ ~lpGpu.enabled /\ TableFree
    /\ lpGpu' = [lpGpu EXCEPT !.enabled = TRUE]
    /\ UNCHANGED <<lpFile, lpServer, lpMig, lpTable, lpCont, lpSessionVars, lpSetup>>

(***************************************************************************)
(* Sessions                                                                *)
(***************************************************************************)
(* The target's containers are referenced under the table's lock.          *)
uvmlite_secure_get_process_containers(t, f, target) ==
    /\ lpSetup.part = "sessions" /\ lpAdd[t].at = "none" /\ LpOpen(f)
    /\ \E i \in DOMAIN lpTable : lpTable[i] = target
    /\ lpCont' = uvm_ref_container(lpCont, target)
    /\ lpAdd' = [lpAdd EXCEPT ![t] = [at |-> "slot", file |-> f, target |-> target]]
    /\ UNCHANGED <<lpFile, lpMpsVars, lpTable, lpSession, lpQueue, lpSetup>>

(* The session takes the slot, or the references are given back.           *)
uvm_add_session_info(t) ==
    LET a == lpAdd[t]
    IN  /\ a.at = "slot"
        /\ IF lpSession[a.file] = LpNone
           THEN /\ lpSession' = [lpSession EXCEPT ![a.file] = a.target]
                /\ lpAdd' = [lpAdd EXCEPT ![t].at = "map"]
                /\ UNCHANGED lpCont
           ELSE /\ lpCont' = uvm_unref_container(lpCont, a.target)
                /\ lpAdd' = [lpAdd EXCEPT ![t] = NoAdd]
                /\ UNCHANGED lpSession
        /\ UNCHANGED <<lpFile, lpMpsVars, lpTable, lpQueue, lpSetup>>

(* The counters' pages are mapped; a failure gives the references back and *)
(* empties the slot, whoever has done so meanwhile.                        *)
uvm_api_add_session(t) ==
    LET a == lpAdd[t]
    IN  /\ a.at = "map"
        /\ \/ UNCHANGED <<lpCont, lpSession>>
           \/ /\ lpSetup.fails
              /\ lpCont' = uvm_unref_container(lpCont, a.target)
              /\ lpSession' = [lpSession EXCEPT ![a.file] = LpNone]
        /\ lpAdd' = [lpAdd EXCEPT ![t] = NoAdd]
        /\ UNCHANGED <<lpFile, lpMpsVars, lpTable, lpQueue, lpSetup>>

(* Counting sessions and event queues are left as they are.                *)
uvm_api_remove_session(f) ==
    /\ LpOpen(f) /\ lpSession[f] # LpNone
    /\ lpSetup.removes \/ \A t \in LpThread : ~(lpAdd[t].at = "map" /\ lpAdd[t].file = f)
    /\ lpCont' = uvm_unref_container(lpCont, lpSession[f])
    /\ lpSession' = [lpSession EXCEPT ![f] = LpNone]
    /\ lpQueue' = [q \in LpQueue |-> IF lpQueue[q].session = f THEN [lpQueue[q] EXCEPT !.session = LpNone]
                                     ELSE lpQueue[q]]
    /\ UNCHANGED <<lpFile, lpMpsVars, lpTable, lpAdd, lpSetup>>

(* Event queues belong to the session; enabling one links it into the      *)
(* lists of the target's container.                                        *)
uvm_create_event_queue(q, f) ==
    /\ LpOpen(f) /\ lpSession[f] # LpNone /\ lpQueue[q].mem = "unused"
    /\ lpQueue' = [lpQueue EXCEPT ![q] = [mem |-> "live", session |-> f, target |-> lpSession[f],
                                          enabled |-> FALSE]]
    /\ UNCHANGED <<lpFile, lpMpsVars, lpTable, lpCont, lpSession, lpAdd, lpSetup>>

uvm_api_event_ctrl(q) ==
    LET f == lpQueue[q].session
    IN  /\ f # LpNone /\ LpOpen(f)
        /\ lpQueue' = [lpQueue EXCEPT ![q].enabled = ~@]
        /\ UNCHANGED <<lpFile, lpMpsVars, lpTable, lpCont, lpSession, lpAdd, lpSetup>>

(* What is enabled is disabled, then the queue's pages and the queue go.   *)
uvm_remove_event_queue(q) ==
    LET f == lpQueue[q].session
    IN  /\ f # LpNone /\ LpOpen(f)
        /\ lpQueue' = [lpQueue EXCEPT ![q] = [NoEventQueue EXCEPT !.mem = LpFreed(lpQueue[q].mem)]]
        /\ UNCHANGED <<lpFile, lpMpsVars, lpTable, lpCont, lpSession, lpAdd, lpSetup>>

LpNext ==
    \/ \E f \in LpFile :
         \/ uvmlite_open(f) \/ CloseMps(f) \/ CloseMigrations(f) \/ CloseContainers(f)
         \/ uvmlite_register_mps_server(f) \/ uvmlite_register_mps_client(f)
         \/ \E s \in LpFile : _find_mps_server(f, s)
         \/ ShareOrCreateTracker(f)
         \/ uvm_api_remove_session(f)
         \/ \E t \in LpThread, target \in LpFile : uvmlite_secure_get_process_containers(t, f, target)
         \/ \E q \in LpQueue : uvm_create_event_queue(q, f)
    \/ uvmlite_disable_gpu_uuid \/ StopVisits \/ uvmlite_enable_gpu_uuid
    \/ \E t \in LpThread : uvm_add_session_info(t) \/ uvm_api_add_session(t)
    \/ \E q \in LpQueue : uvm_api_event_ctrl(q) \/ uvm_remove_event_queue(q)

LpSpec == LpInit /\ [][LpNext]_lpVars

(***************************************************************************)
(* Properties                                                              *)
(***************************************************************************)
LpCount(S) == Cardinality(S)

(* A process that may migrate uses a live tracker, also while the GPU is   *)
(* being stopped and while its MPS server goes away; a tracker is freed    *)
(* with the file that made it; and an MPS server lives exactly as long as  *)
(* its file and its clients need it (uvmlite_close, _lock_mps_server,      *)
(* StopVisits).                                                            *)
TrackersLive ==
    \A f \in LpFile : LET r == lpFile[f] IN
      /\ lpMig[f] # "broken" /\ lpServer[f].mem # "broken"
      /\ r.st = "open" /\ r.migTracker # LpNone /\ (r.mps = "client" => _lock_mps_server(f)) =>
           lpMig[r.migTracker] = "live"
      /\ lpMig[f] = "live" => r.migTracker = f
      /\ lpServer[f].kref = LpCount({c \in LpFile : lpFile[c].mps # "not_active"
                                        /\ lpFile[c].mpsServer = f /\ lpFile[c].st = "open"})
      /\ lpServer[f].mem = "live" <=> lpServer[f].kref > 0
      /\ lpServer[f].listed => r.st = "open" /\ lpServer[f].mem = "live"

(* A process's containers live exactly as long as its file, a session, or  *)
(* somebody adding one holds them (uvm_api_add_session against             *)
(* uvm_api_remove_session and uvmlite_close).                              *)
ContainersHeld ==
    \A f \in LpFile : LET c == lpCont[f] IN
      /\ c.refs = (IF lpFile[f].st \in {"open", "closing"} THEN 1 ELSE 0)
                  + LpCount({o \in LpFile : lpSession[o] = f})
                  + LpCount({t \in LpThread : lpAdd[t].at = "slot" /\ lpAdd[t].target = f})
      /\ c.mem = "live" <=> c.refs > 0

(* What is linked into the lists of a container has not been freed         *)
(* (uvm_remove_event_queue).                                               *)
ListenersLive == \A q \in LpQueue : lpQueue[q].enabled => lpQueue[q].mem = "live"

LiteProcessesExact == TrackersLive /\ ContainersHeld /\ ListenersLive
================================================================================
