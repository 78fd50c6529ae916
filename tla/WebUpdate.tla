------------------------------ MODULE WebUpdate ------------------------------
(***************************************************************************)
(* Signed updates from the dashboard: the cached release check             *)
(* (release/checker.rs), the durable operation record and the two ways to  *)
(* install (api/update.rs), and the root updater that stages, activates    *)
(* and restarts both services (src/bin/router-update.rs).                  *)
(*                                                                         *)
(* A slot is a number: a release, or -1 for the bootstrap baseline, whose  *)
(* binaries report release 1.  The slot manager's calls are single steps   *)
(* here: module FirmwareSlots shows that they are atomic.  A request that  *)
(* repeats the recorded idempotency key gets the record back and changes   *)
(* nothing.  "updateFaults" bounds what goes wrong by itself: a record that *)
(* cannot be saved, a service command that fails, a process that dies.     *)
(***************************************************************************)
EXTENDS Integers, FiniteSets, FiniteSetsExt

CONSTANTS Published,     \* releases that may be published, positive
          Prereleases,   \* those of them only the beta channel takes
          Incompatible,  \* those that need the full installer
          MaxUpdates,    \* accepted updates
          MaxUpdateFaults

ASSUME UpdateAssumption ==
  /\ Published \subseteq {n \in Nat : n > 1} /\ IsFiniteSet(Published)
  /\ Prereleases \subseteq Published /\ Incompatible \subseteq Published
  /\ MaxUpdates \in Nat /\ MaxUpdateFaults \in Nat

Baseline == -1
Nothing == 0
SlotNames == Published \cup {Baseline, 1}

Terminal == {"succeeded", "failed", "rolled_back", "recovery_required"}
past_activation == {"activating"}
InProgress == {"queued", "downloading", "verifying", "staging"} \cup past_activation

Operations == [id : 0..MaxUpdates, state : Terminal \cup InProgress,
               from : Published \cup {0, 1}, target : Published \cup {0}]

NoRecord == [id |-> 0, state |-> "failed", from |-> 0, target |-> 0]

VARIABLES
  catalog,   \* the checker's cached view of the published releases
  updateRecord,    \* the operation: in routerd's memory and in its file
  installer, \* per operation, the thread or request that carries it out
  inbox,     \* the release prepared in the update inbox
  busyLock,  \* FIRMWARE_UPDATE: held by an upload from first byte to activation
  slot,      \* the slot table
  updater,   \* the detached root process
  running,   \* which slot each service runs from, Nothing when it is down
  touched,   \* what happened behind the operation's back: a rollback from the
             \* console, a service that died, a routerd that died under a
             \* running updater
  updateFaults

updateVars == <<catalog, updateRecord, installer, inbox, busyLock, slot, updater,
                running, touched, updateFaults>>

Unfaulty == UNCHANGED updateFaults
Faulty == updateFaults < MaxUpdateFaults /\ updateFaults' = updateFaults + 1
-----------------------------------------------------------------------------
(* The release check.                                                      *)

select_newest(releases, channel) ==
  LET taken == {v \in releases : channel = "beta" \/ v \notin Prereleases}
  IN  IF taken = {} THEN Nothing ELSE Max(taken)

chosen == select_newest(catalog.cached, catalog.channel)

\* What the release service may answer: releases are only ever added.
fetch == {catalog.cached \cup more : more \in SUBSET (Published \ catalog.cached)}

\* check_now and the periodic run share one request in flight; a failed
\* check keeps the cached releases and their age.
check ==
  /\ running.routerd # Nothing
  /\ \E releases \in fetch :
       catalog' = [catalog EXCEPT !.cached = releases, !.fresh = TRUE]
  /\ UNCHANGED <<updateRecord, installer, inbox, busyLock, slot, updater, running, touched, updateFaults>>

CheckGoesStale ==
  /\ catalog.fresh
  /\ catalog' = [catalog EXCEPT !.fresh = FALSE]
  /\ UNCHANGED <<updateRecord, installer, inbox, busyLock, slot, updater, running, touched, updateFaults>>

set_channel(c) ==
  /\ running.routerd # Nothing /\ catalog.channel # c
  /\ catalog' = [catalog EXCEPT !.channel = c]
  /\ UNCHANGED <<updateRecord, installer, inbox, busyLock, slot, updater, running, touched, updateFaults>>
-----------------------------------------------------------------------------
(* The operation record.  A save that fails leaves the memory changed.     *)

Saved(op) == updateRecord' = [memory |-> op, file |-> op]

Recorded(op) ==
  \/ Saved(op) /\ Unfaulty
  \/ updateRecord' = [updateRecord EXCEPT !.memory = op] /\ Faulty

current_appliance_version == IF slot.current = Baseline THEN 1 ELSE slot.current

\* The local half of assess_update_capability.
assess_update_capability ==
  /\ slot.pending = Nothing
  /\ updateRecord.memory.state \in Terminal

\* begin() replaces a finished record; a failed save puts the old one back.
begin(op) == Saved(op)

NewOperation(v) ==
  [id |-> updateRecord.memory.id + 1, state |-> "queued",
   from |-> current_appliance_version, target |-> v]

handle_firmware_update(v) ==
  /\ running.routerd # Nothing /\ ~busyLock
  /\ assess_update_capability
  /\ catalog.fresh /\ chosen = v
  /\ v > current_appliance_version /\ v > slot.floor
  /\ updateRecord.memory.id < MaxUpdates
  /\ begin(NewOperation(v))
  /\ installer' = [installer EXCEPT ![updateRecord.memory.id + 1] = [pc |-> "queued", target |-> v]]
  /\ UNCHANGED <<catalog, inbox, busyLock, slot, updater, running, touched, updateFaults>>

\* An upload is prepared in the inbox before its operation is recorded.
BeginUpload ==
  /\ running.routerd # Nothing /\ ~busyLock
  /\ assess_update_capability
  /\ updateRecord.memory.id < MaxUpdates
  /\ busyLock' = TRUE
  /\ UNCHANGED <<catalog, updateRecord, installer, inbox, slot, updater, running, touched, updateFaults>>

Uploading == busyLock /\ \A i \in DOMAIN installer : installer[i].pc = "done"

\* The body, the archive or the version may be refused.
prepare_local_release(v) ==
  /\ Uploading
  /\ \/ /\ v > current_appliance_version
        /\ begin(NewOperation(v))
        /\ installer' = [installer EXCEPT ![updateRecord.memory.id + 1] =
                           [pc |-> "verified", target |-> v]]
        /\ inbox' = v
        /\ UNCHANGED busyLock
     \/ inbox' \in {inbox, Nothing, v} /\ busyLock' = FALSE /\ UNCHANGED <<updateRecord, installer>>
  /\ UNCHANGED <<catalog, slot, updater, running, touched, updateFaults>>
-----------------------------------------------------------------------------
(* Carrying out an operation.                                              *)

Holds(i) == updateRecord.memory.id = i

LeaveInstaller(i, pc) ==
  /\ installer' = [installer EXCEPT ![i].pc = pc]
  /\ busyLock' = IF pc = "done" THEN FALSE ELSE busyLock

\* advance_operation: on any error the installer returns and says nothing.
advance(i, at, state, to) ==
  /\ installer[i].pc = at
  /\ IF Holds(i)
     THEN LET op == [updateRecord.memory EXCEPT !.state = state] IN
          \/ Saved(op) /\ LeaveInstaller(i, to) /\ Unfaulty
          \/ updateRecord' = [updateRecord EXCEPT !.memory = op] /\ LeaveInstaller(i, "done") /\ Faulty
     ELSE LeaveInstaller(i, "done") /\ UNCHANGED <<updateRecord, updateFaults>>
  /\ UNCHANGED <<catalog, inbox, slot, updater, running, touched>>

fail_operation(i) ==
  /\ IF Holds(i) THEN Recorded([updateRecord.memory EXCEPT !.state = "failed"])
                 ELSE UNCHANGED <<updateRecord, updateFaults>>
  /\ LeaveInstaller(i, "done")

\* Mutant: what the inbox holds already is kept.
prepare_published_once(i) ==
  /\ installer[i].pc = "downloading"
  /\ inbox' = IF inbox = Nothing THEN installer[i].target ELSE inbox
  /\ LeaveInstaller(i, "downloaded")
  /\ UNCHANGED <<catalog, updateRecord, slot, updater, running, touched, updateFaults>>

\* The inbox is emptied, filled from the release and checked against its tag.
prepare_published(i) ==
  /\ installer[i].pc = "downloading"
  /\ \/ inbox' = installer[i].target /\ LeaveInstaller(i, "downloaded") /\ UNCHANGED <<updateRecord, updateFaults>>
     \/ inbox' \in {inbox, Nothing} /\ fail_operation(i)
  /\ UNCHANGED <<catalog, slot, updater, running, touched>>

\* SlotManager::stage on what the inbox holds.
Stageable(v) == v # Nothing /\ v > slot.floor /\ v \notin slot.staged

Staged(v) == [slot EXCEPT !.staged = @ \cup {v}, !.pending = v]

\* doas may report a timeout although the root process completes.
run_update_stage(i) ==
  /\ installer[i].pc = "staging"
  /\ \/ /\ Stageable(inbox)
        /\ slot' = Staged(inbox) /\ LeaveInstaller(i, "staged") /\ UNCHANGED <<updateRecord, updateFaults>>
     \/ /\ slot' \in {slot} \cup {Staged(v) : v \in {w \in {inbox} : Stageable(w)}}
        /\ fail_operation(i)
  /\ UNCHANGED <<catalog, inbox, updater, running, touched>>

activate_pending_update_detached(i) ==
  /\ installer[i].pc = "activating"
  /\ \/ /\ updater.pc = "idle"
        /\ updater' = [updater EXCEPT !.pc = "resolve", !.rollback = FALSE]
        /\ LeaveInstaller(i, "done") /\ UNCHANGED <<updateRecord, updateFaults>>
     \/ fail_operation(i) /\ UNCHANGED updater
  /\ UNCHANGED <<catalog, inbox, slot, running, touched>>

\* Mutant: the activation is recorded only once it has been started.
stage_and_activate_late(i) ==
  \/ advance(i, "verified", "staging", "staging")
  \/ run_update_stage(i)
  \/ /\ installer[i].pc = "staged" /\ updater.pc = "idle"
     /\ updater' = [updater EXCEPT !.pc = "resolve", !.rollback = FALSE]
     /\ LeaveInstaller(i, "activating")
     /\ UNCHANGED <<catalog, updateRecord, inbox, slot, running, touched, updateFaults>>
  \/ advance(i, "activating", "activating", "done")

stage_and_activate(i) ==
  \/ advance(i, "verified", "staging", "staging")
  \/ run_update_stage(i)
  \/ advance(i, "staged", "activating", "activating")
  \/ activate_pending_update_detached(i)

run_published_update(i) ==
  \/ advance(i, "queued", "downloading", "downloading")
  \/ prepare_published(i)
  \/ advance(i, "downloaded", "verifying", "verified")
-----------------------------------------------------------------------------
(* The root updater.                                                       *)

UpdaterIdle == [pc |-> "idle", rollback |-> FALSE]

ToStep(pc) == updater' = [updater EXCEPT !.pc = pc]

\* The installed files around the slots must be the release's own.
verify_runtime_layout_compatibility(v) == v \notin Incompatible

\* router-update activate: the pending version, its layout, then the pointer.
activate_slot ==
  LET v == slot.pending IN
  /\ updater.pc = "resolve"
  /\ \/ /\ v \in slot.staged /\ v > slot.floor
        /\ verify_runtime_layout_compatibility(v)
        /\ verify_runtime_layout_compatibility(slot.current)
        /\ slot' = [slot EXCEPT !.previous = slot.current, !.current = v,
                                !.pending = Nothing, !.floor = v]
        /\ ToStep("stop") /\ Unfaulty
     \/ /\ ~(v \in slot.staged /\ verify_runtime_layout_compatibility(v))
        /\ updater' = UpdaterIdle /\ UNCHANGED <<slot, updateFaults>>
     \/ updater' = UpdaterIdle /\ UNCHANGED slot /\ Faulty
  /\ UNCHANGED <<catalog, updateRecord, installer, inbox, busyLock, running, touched>>

rollback_slot ==
  /\ updater.pc = "rollback"
  /\ \/ IF slot.previous # Nothing
        THEN /\ slot' = [slot EXCEPT !.current = slot.previous, !.previous = slot.current,
                                     !.pending = Nothing]
             /\ updater' = [pc |-> "stop", rollback |-> TRUE] /\ Unfaulty
        ELSE updater' = UpdaterIdle /\ UNCHANGED <<slot, updateFaults>>
     \/ updater' = UpdaterIdle /\ UNCHANGED slot /\ Faulty
  /\ UNCHANGED <<catalog, updateRecord, installer, inbox, busyLock, running, touched>>

\* A failed command rolls an activation back and ends a rollback.
CommandFails == IF updater.rollback THEN updater' = UpdaterIdle ELSE ToStep("rollback")

NoInstaller == [i \in 1..MaxUpdates |-> [pc |-> "done", target |-> Nothing]]

\* A stopped routerd takes its threads and its memory with it.
Stopped ==
  /\ installer' = NoInstaller /\ busyLock' = FALSE
  /\ catalog' = [catalog EXCEPT !.cached = {}, !.fresh = FALSE]

StopRouterd ==
  /\ updater.pc = "stop"
  /\ \/ /\ running' = [running EXCEPT !.routerd = Nothing]
        /\ Stopped /\ ToStep("helper") /\ Unfaulty
     \/ CommandFails /\ Faulty /\ UNCHANGED <<running, installer, busyLock, catalog>>
  /\ UNCHANGED <<updateRecord, inbox, slot, touched>>

\* The restart may fail with the helper down, as it was, or up but late.
RestartHelper ==
  /\ updater.pc = "helper"
  /\ \/ running' = [running EXCEPT !.applyd = slot.current] /\ ToStep("start") /\ Unfaulty
     \/ /\ running' \in {[running EXCEPT !.applyd = v] : v \in {Nothing, slot.current, running.applyd}}
        /\ CommandFails /\ Faulty
  /\ UNCHANGED <<catalog, updateRecord, installer, inbox, busyLock, slot, touched>>

\* reconcile_interrupted_update: the slot pointer decides what happened.
reconcile_interrupted_update(op) ==
  CASE op.state \in Terminal -> op
    [] op.state \in past_activation /\ slot.current = op.target ->
         [op EXCEPT !.state = "succeeded"]
    [] op.state \in past_activation /\ slot.current = op.from ->
         [op EXCEPT !.state = "rolled_back"]
    [] op.state \in past_activation -> [op EXCEPT !.state = "recovery_required"]
    [] OTHER -> [op EXCEPT !.state = "failed"]

Reconciled ==
  LET op == reconcile_interrupted_update(updateRecord.file)
  IN  updateRecord' \in {[memory |-> op, file |-> op], [memory |-> op, file |-> updateRecord.file]}

\* routerd reconciles before it is ready: a start that fails later in the
\* sequence has already written the record.
RespawnRouterd ==
  /\ updater.pc = "start"
  /\ \/ /\ running' = [running EXCEPT !.routerd = slot.current]
        /\ Reconciled /\ ToStep("status") /\ Unfaulty
     \/ /\ \/ running' = [running EXCEPT !.routerd = slot.current] /\ Reconciled
           \/ UNCHANGED <<running, updateRecord>>
        /\ CommandFails /\ Faulty
  /\ UNCHANGED <<catalog, installer, inbox, busyLock, slot, touched>>

ServicesStatus ==
  /\ updater.pc = "status"
  /\ \/ updater' = UpdaterIdle /\ Unfaulty
     \/ CommandFails /\ Faulty
  /\ UNCHANGED <<catalog, updateRecord, installer, inbox, busyLock, slot, running, touched>>

restart_runtime_pair == StopRouterd \/ RestartHelper \/ RespawnRouterd \/ ServicesStatus

\* rollback_and_restart, from the console.
ConsoleRollback ==
  /\ updater.pc = "idle" /\ slot.previous # Nothing /\ Faulty
  /\ updater' = [pc |-> "rollback", rollback |-> TRUE]
  /\ touched' = [touched EXCEPT !.console = TRUE]
  /\ UNCHANGED <<catalog, updateRecord, installer, inbox, busyLock, slot, running>>
-----------------------------------------------------------------------------
(* What happens behind the updater's back.                                 *)

\* The supervisor respawns a dead service from the slot it finds.
RouterdRespawns ==
  /\ running.routerd # Nothing /\ Faulty
  /\ running' = [running EXCEPT !.routerd = slot.current]
  /\ Stopped /\ Reconciled
  /\ touched' = [touched EXCEPT !.respawn = TRUE, !.outlived = @ \/ updater.pc # "idle"]
  /\ UNCHANGED <<inbox, slot, updater>>

HelperRespawns ==
  /\ running.applyd # Nothing /\ Faulty
  /\ running' = [running EXCEPT !.applyd = slot.current]
  /\ touched' = [touched EXCEPT !.respawn = TRUE]
  /\ UNCHANGED <<catalog, updateRecord, installer, inbox, busyLock, slot, updater>>

PowerCut ==
  /\ Faulty
  /\ running' = [routerd |-> slot.current, applyd |-> slot.current]
  /\ updater' = UpdaterIdle
  /\ Stopped /\ Reconciled
  /\ UNCHANGED <<inbox, slot, touched>>
-----------------------------------------------------------------------------
UpdateInit ==
  /\ catalog = [cached |-> {}, fresh |-> FALSE, channel |-> "beta"]
  /\ updateRecord = [memory |-> NoRecord, file |-> NoRecord]
  /\ installer = NoInstaller
  /\ inbox = Nothing /\ busyLock = FALSE
  /\ \E v \in {Baseline, 1} :
       /\ slot = [current |-> v, previous |-> Nothing, pending |-> Nothing,
                  floor |-> 1, staged |-> {v}]
       /\ running = [routerd |-> v, applyd |-> v]
  /\ updater = UpdaterIdle
  /\ touched = [console |-> FALSE, respawn |-> FALSE, outlived |-> FALSE]
  /\ updateFaults = 0

Discovery ==
  \/ check \/ CheckGoesStale
  \/ \E c \in {"stable", "beta"} : set_channel(c)

InstallerStep == \E i \in 1..MaxUpdates : run_published_update(i) \/ stage_and_activate(i)

UpdaterStep == activate_slot \/ rollback_slot \/ restart_runtime_pair

UpdateNext ==
  \/ Discovery
  \/ \E v \in Published : handle_firmware_update(v)
  \/ BeginUpload \/ (\E v \in Published : prepare_local_release(v))
  \/ InstallerStep
  \/ UpdaterStep
  \/ ConsoleRollback \/ RouterdRespawns \/ HelperRespawns \/ PowerCut

UpdateSpec ==
  /\ UpdateInit /\ [][UpdateNext]_updateVars
  /\ WF_updateVars(InstallerStep) /\ WF_updateVars(UpdaterStep)
-----------------------------------------------------------------------------
(* Properties.                                                             *)

InstallerPCs == {"queued", "downloading", "downloaded", "verified", "staging",
                 "staged", "activating", "done"}

\* Every variable holds what the code can put there.
UpdateTypeOK ==
  /\ catalog \in [cached : SUBSET Published, fresh : BOOLEAN, channel : {"stable", "beta"}]
  /\ updateRecord \in [memory : Operations, file : Operations]
  /\ installer \in [1..MaxUpdates -> [pc : InstallerPCs, target : Published \cup {0}]]
  /\ inbox \in Published \cup {0} /\ busyLock \in BOOLEAN
  /\ slot \in [current : SlotNames, previous : SlotNames \cup {0},
               pending : Published \cup {0}, floor : Published \cup {1},
               staged : SUBSET SlotNames]
  /\ updater \in [pc : {"idle", "resolve", "rollback", "stop", "helper", "start", "status"},
                  rollback : BOOLEAN]
  /\ running \in [routerd : SlotNames \cup {0}, applyd : SlotNames \cup {0}]
  /\ touched \in [console : BOOLEAN, respawn : BOOLEAN, outlived : BOOLEAN]
  /\ updateFaults \in 0..MaxUpdateFaults

\* "Exactly one record: two concurrent updates are never valid": whoever is
\* still installing owns the recorded operation, whatever failed before.
InstallerHoldsRecord ==
  \A i \in 1..MaxUpdates :
    installer[i].pc # "done" =>
      /\ updateRecord.memory.id = i /\ updateRecord.memory.state \in InProgress
      /\ updateRecord.memory.target = installer[i].target

\* "Nothing was installed; the update can be started again": an operation
\* recorded as failed never became the running slot, through every lost
\* save, restart and power cut, unless the console moved the pointer or an
\* updater outlived the routerd that started it: that updater has yet to read
\* which version is pending, and may read what a later operation staged.
FailedInstalledNothing ==
  updateRecord.memory.state = "failed" /\ updateRecord.memory.id # 0 =>
    \/ touched.console \/ touched.outlived
    \/ slot.current # updateRecord.memory.target

\* "The confirmation is pinned": what an installer stages is the release its
\* operation names, although the inbox is shared by every operation.
StagesWhatWasConfirmed ==
  [][\A i \in 1..MaxUpdates :
       installer[i].pc = "staging" /\ slot'.pending # slot.pending
       /\ updater.pc \notin {"resolve", "rollback"}
         => slot'.pending = updateRecord.memory.target]_updateVars

\* "no mixed-slot RPC window": as long as no service died on its own, both
\* services that are up run from the same slot at every instant of an
\* activation, a failed activation and a rollback.
NoMixedPair ==
  touched.respawn \/ Nothing \in {running.routerd, running.applyd}
  \/ running.routerd = running.applyd

\* An accepted update is not left in progress for ever: either it reaches an
\* outcome, or nothing is working on it any more.
UpdateEnds ==
  updateRecord.memory.state \in InProgress ~>
    \/ updateRecord.memory.state \in Terminal
    \/ updater.pc = "idle" /\ \A i \in 1..MaxUpdates : installer[i].pc = "done"

\* One installer holds the update record, an update recorded as failed has not
\* become the running slot, and helper and daemon never run from different slots,
\* with the exceptions named above.
UpdateSound ==
  /\ UpdateTypeOK /\ InstallerHoldsRecord /\ FailedInstalledNothing
  /\ NoMixedPair
=============================================================================
