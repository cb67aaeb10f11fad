--------------------------------- MODULE Drm ---------------------------------
(***************************************************************************)
(* nvidia-drm.ko's display side (nvidia-drm-drv.c, -modeset.c, -crtc.c,    *)
(* -encoder.c, -connector.c, -utils.h): one device with one CRTC and one   *)
(* connector, atomic commits and the work items that finish them, NVKMS's  *)
(* events, the EDIDs that encoders and connectors share, masters, loading  *)
(* and unloading.                                                          *)
(*                                                                         *)
(* NVKMS is a library: it applies configurations, completes flips and      *)
(* posts events, which a work item hands to nvidia_drm_event_callback.     *)
(* DRM's core is external: it holds the CRTC's modeset lock around         *)
(* nvidia_drm_atomic_commit.                                               *)
(***************************************************************************)
EXTENDS Naturals, FiniteSets

CONSTANTS DrmTask,      \* calls of nvidia_drm_atomic_commit; each asks for a configuration of its own
          DrmDisplay,   \* NvKmsKapiDisplays of the connector
          DrmNone,      \* NULL: no mode, no display, no surface
          DrmMaxEdid,   \* bound on the EDIDs that are read
          DrmSetups     \* the setups to explore, see DrmAssumption

(* commits, displays: what happens; async: commits may be asynchronous;    *)
(* unplug: displays are disconnected again; override: the user overrides   *)
(* EDIDs; fails: calls may fail and time out.                              *)
DrmEverySetup ==
    [commits : BOOLEAN, displays : BOOLEAN, async : BOOLEAN, unplug : BOOLEAN,
     override : BOOLEAN, fails : BOOLEAN]
(* Displays that are connected stay so.                                    *)
DrmConnectedSetups == {s \in DrmEverySetup : ~s.unplug}
ASSUME DrmAssumption ==
    /\ DrmNone \notin DrmTask \union DrmDisplay
    /\ DrmMaxEdid \in Nat
    /\ DrmSetups \subseteq DrmEverySetup

VARIABLES
    drmDev,    \* [phase, kapi, enabled, interest, posted, master, owner, oops]
    drmCrtc,   \* [requested, shown, flip, pending]
    drmTask,   \* [DrmTask -> [at, async, conf]]
    drmOut,    \* [enc, con, edid, read, plugged, stale]: encoders, the connector, reference
               \* counts of EDIDs; stale: history, see update_dynamic_information
    drmSetup

drmVars == <<drmDev, drmCrtc, drmTask, drmOut, drmSetup>>

NoEncoder == [added |-> FALSE, connected |-> FALSE, edid |-> 0]
NoConnector == [added |-> FALSE, status |-> FALSE, edid |-> 0, detected |-> DrmNone,
                override |-> FALSE]

(* A head's configuration: modes and surfaces are named after the commit   *)
(* that brings them.                                                       *)
Dark == [mode |-> DrmNone, display |-> DrmNone, surface |-> DrmNone]
DarkCrtc == [requested |-> Dark, shown |-> Dark, flip |-> FALSE, pending |-> FALSE]
NoOutputs == [enc |-> [d \in DrmDisplay |-> NoEncoder], con |-> NoConnector,
              edid |-> [i \in 1..DrmMaxEdid |-> 0], read |-> 0, plugged |-> {},
              stale |-> FALSE]

(* posted: kinds of events that NVKMS has posted and the work item has not *)
(* delivered.                                                              *)
DrmInit ==
    /\ drmDev = [phase |-> "none", kapi |-> FALSE, enabled |-> FALSE, interest |-> FALSE,
                 posted |-> {}, master |-> FALSE, owner |-> FALSE, oops |-> FALSE]
    /\ drmCrtc = DarkCrtc
    /\ drmTask = [t \in DrmTask |-> [at |-> "none", async |-> FALSE, conf |-> Dark]]
    /\ drmSetup \in DrmSetups
    /\ drmOut = [NoOutputs EXCEPT !.plugged = IF drmSetup.displays THEN {} ELSE {CHOOSE d \in DrmDisplay : TRUE}]

DrmUp == drmDev.phase = "up"

(***************************************************************************)
(* EDIDs, encoders and the connector, under mode_config.mutex              *)
(***************************************************************************)
(* nvidia_drm_edid_unref: 0 stands for no EDID.  A count below zero is the *)
(* release of freed memory, kept as 9.                                     *)
edid_unref(counts, i) ==
    IF i = 0 THEN counts ELSE [counts EXCEPT ![i] = IF @ = 0 THEN 9 ELSE @ - 1]
edid_ref(counts, i) == [counts EXCEPT ![i] = @ + 1]

(* nvidia_enocder_update_dynamic_information: the old EDID is given back,  *)
(* and its pointer replaced only if the display is connected and its EDID  *)
(* not overridden; stale remembers that a pointer was kept.                *)
update_dynamic_information(out, d, connected, overrideEdid) ==
    LET old == out.enc[d].edid
        dropped == edid_unref(out.edid, old)
        new == out.read + 1
    IN  IF connected /\ ~overrideEdid
        THEN [out EXCEPT !.enc[d].connected = TRUE, !.enc[d].edid = new,
                         !.edid = edid_ref(dropped, new), !.read = new]
        ELSE [out EXCEPT !.enc[d].connected = connected, !.edid = dropped,
                         !.stale = @ \/ old # 0]

(* nvidia_connector_detect: at most one of its encoders is connected; the  *)
(* connector shares the encoder's EDID unless its own is overridden.       *)
nvidia_connector_detect(out) ==
    LET counts == edid_unref(out.edid, out.con.edid)
        found == {d \in DrmDisplay : out.enc[d].added /\ out.enc[d].connected}
    IN  IF found = {} THEN [out EXCEPT !.edid = counts, !.con.edid = 0, !.con.status = FALSE]
        ELSE LET d == CHOOSE x \in found : TRUE
                 shared == IF out.con.override THEN 0 ELSE out.enc[d].edid
             IN  [out EXCEPT !.edid = IF shared = 0 THEN counts ELSE edid_ref(counts, shared),
                             !.con.edid = shared, !.con.status = TRUE, !.con.detected = d]

(* nvidia_drm_add_encoder, with nvidia_drm_get_connector: the first        *)
(* encoder of the connector creates it; NVKMS is asked without an EDID.    *)
nvidia_drm_add_encoder(out, d, connected) ==
    update_dynamic_information([out EXCEPT !.enc[d].added = TRUE, !.con.added = TRUE], d,
                               connected, FALSE)

(* drm_mode_config_cleanup destroys the encoders and then the connector.   *)
DestroyOutputs(out) ==
    LET encoders == [i \in DOMAIN out.edid |->
            LET holders == {e \in DrmDisplay : out.enc[e].added /\ out.enc[e].edid = i}
            IN  IF holders = {} THEN out.edid[i]
                ELSE IF out.edid[i] = 0 THEN 9 ELSE out.edid[i] - Cardinality(holders)]
    IN  [NoOutputs EXCEPT !.edid = edid_unref(encoders, out.con.edid), !.read = out.read, !.plugged = out.plugged,
                          !.stale = out.stale]

DrmRoom == drmOut.read < DrmMaxEdid

(* The user plugs or unplugs a display; NVKMS posts an event.              *)
Plug(d) ==
    /\ DrmUp /\ drmSetup.displays
    /\ drmOut.plugged = {} \/ (drmSetup.unplug /\ d \in drmOut.plugged)
    /\ drmOut' = [drmOut EXCEPT !.plugged = {d} \ @]
    /\ drmDev' = [drmDev EXCEPT !.posted = IF drmDev.interest THEN @ \union {<<"display", d>>} ELSE @]
    /\ UNCHANGED <<drmCrtc, drmTask, drmSetup>>

(* nvidia_drm_handle_dynamic_display_connected: the event names a display  *)
(* that has no encoder yet.                                                *)
handle_dynamic_display_connected(d) == nvidia_drm_add_encoder(drmOut, d, d \in drmOut.plugged)

nvidia_drm_handle_display_change(d) ==
    \/ drmOut' = nvidia_connector_detect(IF drmOut.enc[d].added
                                         THEN update_dynamic_information(drmOut, d, d \in drmOut.plugged,
                                                                         drmOut.con.override)
                                         ELSE handle_dynamic_display_connected(d))
    \/ drmSetup.fails /\ UNCHANGED drmOut

(* NVKMS reads the EDID again although nothing was unplugged.              *)
Replug(d) ==
    /\ DrmUp /\ drmSetup.displays /\ d \in drmOut.plugged /\ DrmRoom
    /\ drmDev' = [drmDev EXCEPT !.posted = @ \union {<<"display", d>>}]
    /\ UNCHANGED <<drmCrtc, drmTask, drmOut, drmSetup>>

(* The user writes an EDID to the connector's edid_override in debugfs, or *)
(* "reset": DRM's core sets or clears override_edid.                       *)
override_edid ==
    /\ DrmUp /\ drmSetup.override /\ drmOut.con.added
    /\ drmOut' = [drmOut EXCEPT !.con.override = ~@]
    /\ UNCHANGED <<drmDev, drmCrtc, drmTask, drmSetup>>

(***************************************************************************)
(* Atomic commits                                                          *)
(***************************************************************************)
(* The caller holds the CRTC's lock until an asynchronous commit is        *)
(* scheduled and until a synchronous one has finished.                     *)
InCaller(t) == drmTask[t].at \in {"flip", "pending"}
               \/ (drmTask[t].at \in {"apply", "finish"} /\ ~drmTask[t].async)
DrmGoto(t, at) == drmTask' = [drmTask EXCEPT ![t].at = at]

(* drm_atomic_state_to_nvkms_requested_config: what the state changes is   *)
(* laid over the CRTC's configuration.  The display is the one that was    *)
(* detected last; a plane without displays gets no surface.                *)
head_requested_config(conf, changed, t) ==
    IF changed = "mode" THEN [conf EXCEPT !.mode = t, !.display = drmOut.con.detected] ELSE conf
plane_requested_config(conf, t) ==
    [conf EXCEPT !.surface = IF conf.display = DrmNone THEN DrmNone ELSE t]

(* nvidia_drm_atomic_commit, up to the conversion of its state.  A mode    *)
(* for a connector that never had a display is EINVAL.                     *)
nvidia_drm_atomic_commit(t, changed, async) ==
    /\ DrmUp /\ drmSetup.commits /\ drmDev.owner /\ drmTask[t].at = "none"
    /\ \A u \in DrmTask : ~InCaller(u)
    /\ async => drmSetup.async
    /\ changed = "mode" => drmOut.con.detected # DrmNone
    /\ drmTask' = [drmTask EXCEPT ![t] = [at |-> "flip", async |-> async,
                                         conf |-> plane_requested_config(head_requested_config(drmCrtc.requested, changed, t), t)]]
    /\ UNCHANGED <<drmDev, drmCrtc, drmOut, drmSetup>>

(* A synchronous commit waits for NVKMS's flip, at most three seconds;     *)
(* then a pending flip is EBUSY.                                           *)
nvidia_drm_wait_pending_flip(t) ==
    /\ drmTask[t].at = "flip"
    /\ IF drmCrtc.flip THEN (drmTask[t].async \/ drmSetup.fails) /\ DrmGoto(t, "failed") ELSE DrmGoto(t, "pending")
    /\ UNCHANGED <<drmDev, drmCrtc, drmOut, drmSetup>>

(* nvidia_drm_wait_for_pending_commit, drm_atomic_helper_prepare_planes,   *)
(* then the states are swapped and the new configuration is recorded.      *)
nvidia_drm_wait_for_pending_commit(t) ==
    /\ drmTask[t].at = "pending"
    /\ \/ /\ ~drmCrtc.pending
          /\ drmCrtc' = [drmCrtc EXCEPT !.requested = drmTask[t].conf]
          /\ DrmGoto(t, "apply")
       \/ drmSetup.fails /\ DrmGoto(t, "failed") /\ UNCHANGED drmCrtc
    /\ UNCHANGED <<drmDev, drmOut, drmSetup>>

(* nvidia_drm_atomic_commit_task_callback: NVKMS gets the configuration.   *)
applyModeSetConfig(t) ==
    /\ drmTask[t].at = "apply"
    /\ \/ drmCrtc' = [drmCrtc EXCEPT !.shown = drmTask[t].conf, !.flip = TRUE]
       \/ drmSetup.fails /\ UNCHANGED drmCrtc
    /\ DrmGoto(t, "finish")
    /\ UNCHANGED <<drmDev, drmOut, drmSetup>>

(* A synchronous commit waits for its flip; then the CRTC has no pending   *)
(* commit, whoever waits is woken, and the state and the task are freed.   *)
nvidia_drm_atomic_commit_task_callback(t) ==
    /\ drmTask[t].at = "finish" /\ (drmCrtc.flip => drmTask[t].async \/ drmSetup.fails)
    /\ drmCrtc' = [drmCrtc EXCEPT !.pending = FALSE]
    /\ DrmGoto(t, "done")
    /\ UNCHANGED <<drmDev, drmOut, drmSetup>>

FlipOccurs ==
    /\ drmCrtc.flip
    /\ drmCrtc' = [drmCrtc EXCEPT !.flip = FALSE]
    /\ drmDev' = [drmDev EXCEPT !.posted = IF drmDev.interest THEN @ \union {<<"flip", DrmNone>>} ELSE @]
    /\ UNCHANGED <<drmTask, drmOut, drmSetup>>

(***************************************************************************)
(* Events, masters, loading and unloading                                  *)
(***************************************************************************)
(* Mutant: events are handled whatever the state of the device.            *)
callback_ignores_enabled(e) ==
    /\ e \in drmDev.posted
    /\ e[1] = "display" => DrmRoom
    /\ drmDev' = [drmDev EXCEPT !.posted = @ \ {e}, !.oops = @ \/ ~drmDev.kapi]
    /\ IF e[1] = "display" /\ drmDev.kapi THEN nvidia_drm_handle_display_change(e[2]) ELSE UNCHANGED drmOut
    /\ UNCHANGED <<drmCrtc, drmTask, drmSetup>>

(* nvidia_drm_event_callback, under nv_dev->lock.  A flip finds the CRTC   *)
(* and its state, a display finds NVKMS's device.                          *)
nvidia_drm_event_callback(e) ==
    /\ e \in drmDev.posted
    /\ e[1] = "display" => DrmRoom
    /\ drmDev' = [drmDev EXCEPT !.posted = @ \ {e}, !.oops = @ \/ (drmDev.enabled /\ ~drmDev.kapi)]
    /\ IF drmDev.enabled /\ e[1] = "display" THEN nvidia_drm_handle_display_change(e[2]) ELSE UNCHANGED drmOut
    /\ UNCHANGED <<drmCrtc, drmTask, drmSetup>>

(* nvidia_register_drm_device and nvidia_drm_load: a failure leaves        *)
(* nothing.  nv_dev->lock is held from the first output to enabled.        *)
nvidia_drm_load(S) ==
    /\ drmDev.phase = "none" /\ drmOut.read + Cardinality(S) <= DrmMaxEdid
    /\ \/ /\ drmDev' = [drmDev EXCEPT !.phase = "up", !.kapi = TRUE, !.enabled = TRUE, !.interest = TRUE]
          /\ drmOut' = IF S = {} THEN drmOut
                       ELSE LET d == CHOOSE x \in S : TRUE
                            IN  nvidia_connector_detect(nvidia_drm_add_encoder(drmOut, d, d \in drmOut.plugged))
          /\ UNCHANGED drmSetup
       \/ drmSetup.fails /\ UNCHANGED <<drmDev, drmOut, drmSetup>>
    /\ drmCrtc' = DarkCrtc
    /\ UNCHANGED drmTask

(* Under nv_dev->lock, once all files are closed: events are refused, the  *)
(* CRTC, the encoders and the connector go, NVKMS is told to be quiet.     *)
nvidia_drm_unload ==
    /\ DrmUp /\ ~drmDev.master /\ \A t \in DrmTask : ~InCaller(t)
    /\ \A t \in DrmTask : drmTask[t].at \in {"none", "done", "failed"}
    /\ drmDev' = [drmDev EXCEPT !.phase = "unloaded", !.enabled = FALSE, !.interest = FALSE, !.kapi = FALSE]
    /\ drmCrtc' = DarkCrtc
    /\ drmOut' = DestroyOutputs(drmOut)
    /\ UNCHANGED <<drmTask, drmSetup>>

(* freeDevice closes the client of NVKMS, which waits for its event work.  *)
freeDevice ==
    /\ drmDev.phase = "unloaded" /\ drmDev.posted = {}
    /\ drmDev' = [drmDev EXCEPT !.phase = "none"]
    /\ UNCHANGED <<drmCrtc, drmTask, drmOut, drmSetup>>

nvidia_drm_master_set ==
    /\ DrmUp /\ ~drmDev.master /\ drmSetup.commits
    /\ drmDev' = [drmDev EXCEPT !.master = TRUE, !.owner = TRUE]
    /\ UNCHANGED <<drmCrtc, drmTask, drmOut, drmSetup>>

(* nvidia_drm_shut_down_all_crtcs commits the dark configuration in the    *)
(* caller, then the ownership is released even if that failed.             *)
nvidia_drm_master_drop ==
    /\ DrmUp /\ drmDev.master /\ \A t \in DrmTask : ~InCaller(t)
    /\ \/ drmDev.owner /\ ~drmCrtc.flip /\ drmCrtc' = [drmCrtc EXCEPT !.requested = Dark, !.shown = Dark]
       \/ (drmSetup.fails \/ ~drmDev.owner) /\ UNCHANGED drmCrtc
    /\ drmDev' = [drmDev EXCEPT !.master = FALSE, !.owner = FALSE]
    /\ UNCHANGED <<drmTask, drmOut, drmSetup>>

(* The ownership moves to a client of NVKMS and the file stops being the   *)
(* master without a drop.                                                  *)
nvidia_drm_migrate_modeset_ownership ==
    /\ DrmUp /\ drmDev.master /\ drmDev.owner /\ drmSetup.fails
    /\ drmDev' = [drmDev EXCEPT !.master = FALSE, !.owner = FALSE]
    /\ UNCHANGED <<drmCrtc, drmTask, drmOut, drmSetup>>

DrmNext ==
    \/ \E d \in DrmDisplay : Plug(d) \/ Replug(d)
    \/ override_edid
    \/ \E t \in DrmTask :
         \/ \E changed \in {"mode", "flip"}, async \in BOOLEAN : nvidia_drm_atomic_commit(t, changed, async)
         \/ nvidia_drm_wait_pending_flip(t) \/ nvidia_drm_wait_for_pending_commit(t)
         \/ applyModeSetConfig(t) \/ nvidia_drm_atomic_commit_task_callback(t)
    \/ FlipOccurs
    \/ \E e \in drmDev.posted : nvidia_drm_event_callback(e)
    \/ \E S \in {{}} \union {{d} : d \in DrmDisplay} : nvidia_drm_load(S)
    \/ nvidia_drm_unload \/ freeDevice
    \/ nvidia_drm_master_set \/ nvidia_drm_master_drop \/ nvidia_drm_migrate_modeset_ownership

DrmSpec == DrmInit /\ [][DrmNext]_drmVars

(***************************************************************************)
(* Properties                                                              *)
(***************************************************************************)
Committing == {t \in DrmTask : drmTask[t].at \in {"apply", "finish"}}

(* "Serialize commits on crtc, wait for pending commits to finish"         *)
(* (nvidia-drm-modeset.c:661): no two commits of a CRTC are under way at   *)
(* once.  has_pending_commit is never set, so this is the work of the      *)
(* CRTC's lock, which a synchronous commit holds until it has finished,    *)
(* and an asynchronous one until it is scheduled.                          *)
CommitsSerialized == ~drmSetup.async => \A t, u \in Committing : t = u

(* While commits are synchronous the screen shows what was asked for last, *)
(* unless NVKMS refused it, and never a surface without a display.         *)
ShownIsRequested ==
    /\ ~drmSetup.async /\ ~drmSetup.fails /\ Committing = {} => drmCrtc.shown = drmCrtc.requested
    /\ drmCrtc.shown.surface # DrmNone => drmCrtc.shown.display # DrmNone

(* ref_count of an EDID (nvidia-drm-utils.h:79) counts the encoders and    *)
(* the connector that point to it, so that none of them points to a freed  *)
(* one: nvidia_enocder_update_dynamic_information, nvidia_connector_detect *)
(* and the destructors all give references back.                           *)
EdidsCounted ==
    \A i \in 1..DrmMaxEdid :
      drmOut.edid[i] = Cardinality({d \in DrmDisplay : drmOut.enc[d].added /\ drmOut.enc[d].edid = i})
                       + (IF drmOut.con.added /\ drmOut.con.edid = i THEN 1 ELSE 0)

(* That is so, through plugging, overriding and unloading, until an update *)
(* finds a display that is disconnected, or whose EDID is overridden, and  *)
(* gives the encoder's EDID back without replacing the pointer             *)
(* (nvidia-drm-encoder.c:185).                                             *)
EdidsCountedUntilStale == ~drmOut.stale => EdidsCounted

(* No event reaches a device whose outputs are gone, and nothing stays     *)
(* behind a device that is unloaded.                                       *)
DrmQuietWhenGone ==
    /\ ~drmDev.oops
    /\ ~drmDev.kapi => drmOut.enc = NoOutputs.enc /\ drmOut.con = NoConnector /\ ~drmDev.owner
    /\ drmDev.phase = "none" => drmDev.posted = {}

DisplaysExact ==
    CommitsSerialized /\ ShownIsRequested /\ EdidsCountedUntilStale /\ DrmQuietWhenGone
===============================================================================
