-------------------------- MODULE OperationProofs ---------------------------
(***************************************************************************)
(* Proofs about three operations that routerd starts and the helper, or a  *)
(* process of its own, carries out, WebUpdate, DevicePauses and            *)
(* RestoreOperation. For every set of releases and devices and every       *)
(* number of failures. Each part starts with its inductive invariant.      *)
(***************************************************************************)
EXTENDS WebUpdate, DevicePauses, RestoreOperation, TLAPS

\* Most leaves are first-order reasoning; the others name their prover.
USE Zenon

-----------------------------------------------------------------------------
(***************************************************************************)
(* WebUpdate. That a failed operation did not become the running slot      *)
(* needs that it was not on its way there either: NotInstalled says it of  *)
(* the slot the updater may still return to, Handed that an activation     *)
(* under way belongs to the recorded operation, and Held and Prepared who  *)
(* owns the record and the inbox meanwhile.                                *)
(***************************************************************************)

\* No installer thread is left.
AllDone == \A i \in 1..MaxUpdates : installer[i].pc = "done"
\* Neither the console nor an updater that outlived its routerd has moved the
\* slots.
Untouched == ~touched.console /\ ~touched.outlived
\* The updater may still go back to the previous slot.
MayRollBack == updater.pc \in {"rollback", "stop", "helper", "start", "status"} /\ ~updater.rollback
\* Before the activation was handed over, or after it was given up.
Unstarted == {"queued", "downloading", "verifying", "staging", "failed"}
Untaken ==
  \/ updateRecord.memory.state \in Unstarted \/ updateRecord.file.state \in Unstarted
  \/ ~AllDone

\* The two copies of the record are of one operation.
OneOperation ==
  /\ updateRecord.memory.id = updateRecord.file.id
  /\ updateRecord.memory.target = updateRecord.file.target
\* Who may hold the busy lock, and while which processes are down.
Held ==
  /\ busyLock /\ AllDone =>
       updateRecord.memory.id < MaxUpdates /\ updateRecord.memory.state \in Terminal
  /\ running.routerd = Nothing => AllDone /\ ~busyLock
  /\ updater.pc \in {"helper", "start"} => running.routerd = Nothing
\* The helper is restarted before routerd, from the slot in use.
HelperFirst == touched.respawn \/ (updater.pc = "start" => running.applyd = slot.current)
\* Between its download and its staging an installer owns the inbox.
Prepared ==
  \A i \in 1..MaxUpdates :
    installer[i].pc \in {"downloaded", "verified", "staging"} => inbox = installer[i].target
\* An activation under way belongs to the recorded operation.
Handed ==
  /\ \A i \in 1..MaxUpdates : installer[i].pc = "activating" =>
       updateRecord.memory.state = "activating" /\ updateRecord.file.state = "activating"
  /\ updater.pc = "resolve" => ~updater.rollback
  /\ Untouched /\ updater.pc = "rollback" => ~updater.rollback
  /\ Untouched /\ updater.pc \in {"resolve", "stop", "helper", "start"} /\ ~updater.rollback =>
       /\ updateRecord.memory.state = "activating" /\ updateRecord.file.state = "activating"
       /\ AllDone /\ ~busyLock
\* No slot is above the floor, and a rollback leads down.
Ordered ==
  /\ slot.current <= slot.floor /\ slot.previous <= slot.floor
  /\ Untouched /\ MayRollBack => slot.previous < slot.current
\* An operation that was not handed over is in no slot that may run.
NotInstalled ==
  Untouched /\ updateRecord.memory.id # 0 /\ Untaken =>
    /\ slot.current # updateRecord.memory.target
    /\ MayRollBack => slot.previous # updateRecord.memory.target

\* The fields of the records.
Catalogs == [cached : SUBSET Published, fresh : BOOLEAN, channel : {"stable", "beta"}]
Records == [memory : Operations, file : Operations]
Works == [pc : InstallerPCs, target : Published \cup {0}]
Installers == [1..MaxUpdates -> Works]
Slots == [current : SlotNames, previous : SlotNames \cup {0}, pending : Published \cup {0},
          floor : Published \cup {1}, staged : SUBSET SlotNames]
Updaters == [pc : {"idle", "resolve", "rollback", "stop", "helper", "start", "status"},
             rollback : BOOLEAN]
Services == [routerd : SlotNames \cup {0}, applyd : SlotNames \cup {0}]
Touches == [console : BOOLEAN, respawn : BOOLEAN, outlived : BOOLEAN]

UpdateTyped ==
  /\ catalog \in Catalogs /\ updateRecord \in Records /\ installer \in Installers
  /\ inbox \in Published \cup {0} /\ busyLock \in BOOLEAN
  /\ slot \in Slots /\ updater \in Updaters /\ running \in Services /\ touched \in Touches
  /\ updateFaults \in 0..MaxUpdateFaults

UpdateInv ==
  /\ UpdateTyped /\ InstallerHoldsRecord /\ NoMixedPair
  /\ OneOperation /\ Held /\ HelperFirst /\ Prepared /\ Handed /\ Ordered /\ NotInstalled

LEMMA NumbersOf ==
  /\ MaxUpdates \in Nat /\ Published \subseteq Int
  /\ \A v \in Published : v \in Int /\ v > 1
  /\ \A v \in SlotNames : v \in Int /\ v # 0
BY SMT, UpdateAssumption DEF SlotNames, Baseline

\* A record with another state is a record of the same operation.
LEMMA StateTyped ==
  ASSUME NEW op \in Operations, NEW state \in Terminal \cup InProgress,
         NEW new, new = [op EXCEPT !.state = state]
  PROVE  /\ new \in Operations /\ new.state = state
         /\ new.id = op.id /\ new.target = op.target
BY DEF Operations

LEMMA ReconcileFacts ==
  ASSUME NEW op \in Operations, NEW new, new = reconcile_interrupted_update(op)
  PROVE  /\ new \in Operations /\ new.state \in Terminal
         /\ new.id = op.id /\ new.target = op.target
         /\ new.state \in Unstarted => op.state \in Unstarted
<1> DEFINE with(s) == [op EXCEPT !.state = s]
<1>1. \A s \in Terminal : with(s) \in Operations /\ with(s).state = s
                         /\ with(s).id = op.id /\ with(s).target = op.target
  BY SMT, StateTyped
<1>2. op.state \in Terminal \cup InProgress BY DEF Operations
<1>3. \/ op.state \in Terminal /\ new = op
      \/ op.state \in past_activation /\ new \in {with("succeeded"), with("rolled_back"), with("recovery_required")}
      \/ op.state \notin Terminal /\ op.state \notin past_activation /\ new = with("failed")
  BY SMT DEF reconcile_interrupted_update
<1> HIDE DEF with
<1>4. CASE op.state \in Terminal /\ new = op
  BY <1>4
<1>5. CASE op.state \in past_activation /\ new \in {with("succeeded"), with("rolled_back"), with("recovery_required")}
  BY <1>1, <1>5 DEF Terminal, Unstarted
<1>6. CASE op.state \notin Terminal /\ op.state \notin past_activation /\ new = with("failed")
  BY <1>1, <1>2, <1>6 DEF Terminal, Unstarted, InProgress, past_activation
<1> QED BY <1>3, <1>4, <1>5, <1>6

\* What a start of routerd reads is the operation it left, with an outcome.
LEMMA ReconciledFacts ==
  ASSUME updateRecord \in Records, OneOperation, Reconciled
  PROVE  /\ updateRecord' \in Records
         /\ OneOperation'
         /\ updateRecord'.memory.id = updateRecord.memory.id
         /\ updateRecord'.memory.target = updateRecord.memory.target
         /\ updateRecord'.memory.state \in Terminal
         /\ updateRecord'.memory.state \in Unstarted => updateRecord.file.state \in Unstarted
         /\ updateRecord'.file.state \in Unstarted => updateRecord.file.state \in Unstarted
<1> DEFINE op == reconcile_interrupted_update(updateRecord.file)
<1>1. updateRecord.file \in Operations /\ updateRecord.memory \in Operations
  BY DEF Records
<1>2. /\ op \in Operations /\ op.state \in Terminal
      /\ op.id = updateRecord.file.id /\ op.target = updateRecord.file.target
      /\ op.state \in Unstarted => updateRecord.file.state \in Unstarted
  BY <1>1, ReconcileFacts
<1>3. updateRecord' \in {[memory |-> op, file |-> op], [memory |-> op, file |-> updateRecord.file]}
  BY DEF Reconciled
<1> HIDE DEF op
<1> QED BY SMT, <1>1, <1>2, <1>3 DEF OneOperation, Records

\* A write of the record, saved or not, by which the operation stays the same.
LEMMA WriteFacts ==
  ASSUME updateRecord \in Records, OneOperation, NEW op \in Operations,
         op.id = updateRecord.memory.id, op.target = updateRecord.memory.target,
         Saved(op) \/ updateRecord' = [updateRecord EXCEPT !.memory = op]
  PROVE  /\ updateRecord' \in Records /\ updateRecord'.memory = op
         /\ updateRecord'.file.id = op.id /\ updateRecord'.file.target = op.target
         /\ updateRecord'.file = updateRecord.file \/ updateRecord'.file = op
         /\ Saved(op) => updateRecord'.file = op
<1>1. updateRecord.file \in Operations /\ updateRecord.memory \in Operations
  BY DEF Records
<1>2. CASE Saved(op) BY <1>1, <1>2 DEF Saved, Records
<1>3. CASE updateRecord' = [updateRecord EXCEPT !.memory = op]
  <2>1. updateRecord' \in Records /\ updateRecord'.memory = op /\ updateRecord'.file = updateRecord.file
    BY <1>1, <1>3 DEF Records
  <2> QED BY SMT, <2>1 DEF OneOperation, Saved
<1> QED BY <1>2, <1>3

LEMMA NoneInstalling ==
  /\ NoInstaller \in Installers
  /\ \A i \in 1..MaxUpdates : NoInstaller[i].pc = "done"
BY NumbersOf DEF NoInstaller, InstallerPCs, Nothing, Installers, Works

LEMMA LeaveFacts ==
  ASSUME UpdateTyped, NEW i \in 1..MaxUpdates, NEW pc \in InstallerPCs, LeaveInstaller(i, pc)
  PROVE  /\ installer' \in Installers
         /\ busyLock' \in BOOLEAN /\ (busyLock' => busyLock /\ pc # "done")
         /\ installer'[i].pc = pc /\ installer'[i].target = installer[i].target
         /\ \A j \in 1..MaxUpdates : j # i => installer'[j] = installer[j]
<1>1. installer \in Installers
      /\ busyLock \in BOOLEAN
  BY DEF UpdateTyped
<1>2. installer' = [installer EXCEPT ![i].pc = pc]
      /\ busyLock' = IF pc = "done" THEN FALSE ELSE busyLock
  BY DEF LeaveInstaller
<1> QED BY <1>1, <1>2 DEF Installers, Works

\* Only one installer is at work, and it is the recorded operation's.
LEMMA OnlyOne ==
  ASSUME InstallerHoldsRecord, NEW i \in 1..MaxUpdates, installer[i].pc # "done"
  PROVE  /\ \A j \in 1..MaxUpdates : j # i => installer[j].pc = "done"
         /\ updateRecord.memory.id = i /\ Holds(i) /\ ~AllDone
BY DEF InstallerHoldsRecord, Holds, AllDone

LEMMA UpdateBegins == UpdateInit => UpdateInv
<1> SUFFICES ASSUME UpdateInit PROVE UpdateInv OBVIOUS
<1>1. NoRecord \in Operations
  BY SMT, NumbersOf DEF NoRecord, Operations, Terminal
<1>2. UpdateTyped
  <2>1. catalog \in Catalogs
    BY DEF UpdateInit, Catalogs
  <2>2. updateRecord \in Records
    BY <1>1 DEF UpdateInit, Records
  <2>3. slot \in Slots
        /\ running \in Services
    BY SMT DEF UpdateInit, SlotNames, Nothing, Slots, Services
  <2>4. /\ installer \in Installers
        /\ inbox \in Published \cup {0} /\ busyLock \in BOOLEAN
    BY NoneInstalling DEF UpdateInit, Nothing
  <2>5. updater \in Updaters
        /\ touched \in Touches
    BY DEF UpdateInit, UpdaterIdle, Updaters, Touches
  <2>6. updateFaults \in 0..MaxUpdateFaults
    BY SMT, UpdateAssumption DEF UpdateInit
  <2> QED BY <2>1, <2>2, <2>3, <2>4, <2>5, <2>6 DEF UpdateTyped
<1>3. InstallerHoldsRecord /\ Prepared /\ AllDone
  BY NoneInstalling DEF UpdateInit, InstallerHoldsRecord, Prepared, AllDone
<1>4. OneOperation /\ NotInstalled
  BY DEF UpdateInit, OneOperation, NotInstalled, NoRecord
<1>5. Held /\ HelperFirst /\ NoMixedPair
  BY SMT, NumbersOf DEF UpdateInit, Held, HelperFirst, NoMixedPair, UpdaterIdle, SlotNames, Baseline, Nothing
<1>6. Handed /\ Ordered
  BY SMT, <1>3 DEF UpdateInit, Handed, Ordered, AllDone, UpdaterIdle, MayRollBack, Baseline, Nothing
<1> QED BY <1>2, <1>3, <1>4, <1>5, <1>6 DEF UpdateInv

\* Looking for releases touches the catalogue only.
LEMMA DiscoveryKeeps == UpdateInv /\ Discovery => UpdateInv'
<1> SUFFICES ASSUME UpdateInv, Discovery PROVE UpdateInv' OBVIOUS
<1> USE DEF UpdateInv
<1>1. UNCHANGED <<updateRecord, installer, inbox, busyLock, slot, updater, running, touched, updateFaults>>
  BY DEF Discovery, check, CheckGoesStale, set_channel
<1>2. catalog' \in Catalogs
  <2>1. catalog \in Catalogs
    BY DEF UpdateTyped
  <2>2. \A releases \in fetch : releases \subseteq Published
    BY <2>1 DEF fetch, Catalogs
  <2>3. CASE check BY <2>1, <2>2, <2>3 DEF check, Catalogs
  <2>4. CASE CheckGoesStale BY <2>1, <2>4 DEF CheckGoesStale, Catalogs
  <2>5. ASSUME NEW c \in {"stable", "beta"}, set_channel(c)
        PROVE  catalog' \in Catalogs
    BY <2>1, <2>5 DEF set_channel, Catalogs
  <2> QED BY <2>3, <2>4, <2>5 DEF Discovery
<1>3. UpdateTyped'
  BY <1>1, <1>2 DEF UpdateTyped
<1>4. InstallerHoldsRecord' /\ NoMixedPair' /\ OneOperation' /\ HelperFirst' /\ Prepared'
  BY <1>1 DEF InstallerHoldsRecord, NoMixedPair, OneOperation, HelperFirst, Prepared
<1>5. Held' /\ Handed' BY <1>1 DEF Held, Handed, AllDone, Untouched
<1>6. Ordered' /\ NotInstalled' BY <1>1 DEF Ordered, NotInstalled, AllDone, Untouched, MayRollBack, Untaken
<1> QED BY <1>3, <1>4, <1>5, <1>6

\* A recorded operation: its target is newer than every slot that may run.
LEMMA BeginKeeps ==
  ASSUME UpdateInv, NEW v \in Published, v > current_appliance_version, AllDone,
         updateRecord.memory.state \in Terminal, updateRecord.memory.id < MaxUpdates,
         NEW at \in {"queued", "verified"},
         begin(NewOperation(v)), running.routerd # Nothing,
         installer' = [installer EXCEPT ![updateRecord.memory.id + 1] = [pc |-> at, target |-> v]],
         inbox' \in Published \cup {0}, at = "verified" => inbox' = v,
         UNCHANGED <<catalog, busyLock, slot, updater, running, touched, updateFaults>>
  PROVE  UpdateInv'
<1> USE DEF UpdateInv
<1> DEFINE op == NewOperation(v)
           k == updateRecord.memory.id + 1
<1>1. /\ updateRecord.memory.id \in 0..MaxUpdates /\ k \in 1..MaxUpdates /\ k # 0
      /\ v \in Int /\ v > 1 /\ slot.current \in SlotNames /\ slot.current \in Int
  BY SMT, NumbersOf DEF UpdateTyped, Operations, Records, Slots
<1>2. op \in Operations /\ op.id = k /\ op.state = "queued" /\ op.target = v
  <2>1. current_appliance_version \in Published \cup {0, 1}
    BY <1>1 DEF current_appliance_version, SlotNames, Baseline
  <2>2. k \in 0..MaxUpdates BY SMT, <1>1
  <2>3. op = [id |-> k, state |-> "queued", from |-> current_appliance_version, target |-> v]
    BY DEF NewOperation
  <2> HIDE DEF op, k
  <2> QED BY <2>1, <2>2, <2>3 DEF Operations, InProgress
<1>3. updateRecord' = [memory |-> op, file |-> op]
  BY DEF begin, Saved
<1>4. /\ installer' = [installer EXCEPT ![k] = [pc |-> at, target |-> v]]
      /\ installer \in Installers
  BY DEF UpdateTyped
<1> HIDE DEF op, k
<1>5. /\ installer' \in Installers
      /\ installer'[k].pc = at /\ installer'[k].target = v
      /\ \A j \in 1..MaxUpdates : j # k => installer'[j] = installer[j]
  <2>1. [pc |-> at, target |-> v] \in Works
    BY DEF InstallerPCs, Works
  <2>2. [pc |-> at, target |-> v].pc = at /\ [pc |-> at, target |-> v].target = v
    OBVIOUS
  <2> HIDE DEF Works
  <2> QED BY <1>1, <1>4, <2>1, <2>2 DEF Installers
<1>6. /\ updateRecord'.memory = op /\ updateRecord'.file = op
      /\ updateRecord' \in Records
  BY <1>2, <1>3 DEF Records
<1>7. UpdateTyped'
  BY <1>5, <1>6 DEF UpdateTyped
<1>8. InstallerHoldsRecord' /\ ~AllDone'
  BY SMT, <1>1, <1>2, <1>5, <1>6 DEF InstallerHoldsRecord, InProgress, AllDone
<1>9. NoMixedPair' /\ OneOperation' /\ HelperFirst'
  BY <1>6 DEF NoMixedPair, OneOperation, HelperFirst
<1>10. Held'
  BY <1>8 DEF Held
<1>11. Prepared'
  BY <1>5 DEF Prepared, AllDone
<1>12. updater.pc \in {"resolve", "stop", "helper", "start"} /\ ~updater.rollback => ~Untouched
  BY DEF Handed, Terminal
<1>13. Handed'
  BY <1>5, <1>12 DEF Handed, AllDone, Untouched
<1>14. Ordered'
  BY DEF Ordered, Untouched, MayRollBack
<1>15. v > slot.current
  BY SMT, <1>1 DEF current_appliance_version, Baseline
<1>16. NotInstalled'
  <2>1. slot.current # v BY SMT, <1>1, <1>15
  <2>2. Untouched /\ MayRollBack => slot.previous # v
    <3>1. slot.previous \in SlotNames \cup {0} BY DEF UpdateTyped, Slots
    <3>2. slot.previous \in Int BY SMT, <3>1, NumbersOf
    <3>3. Untouched /\ MayRollBack => slot.previous < slot.current BY DEF Ordered
    <3> QED BY SMT, <1>1, <1>15, <3>2, <3>3
  <2> QED BY <1>2, <1>6, <2>1, <2>2 DEF NotInstalled, Untouched, MayRollBack
<1> QED BY <1>7, <1>8, <1>9, <1>10, <1>11, <1>13, <1>14, <1>16

LEMMA RequestUpdateKeeps ==
  ASSUME UpdateInv, NEW v \in Published, handle_firmware_update(v)
  PROVE  UpdateInv'
<1>1. AllDone
  <2>1. updateRecord.memory.state \in Terminal
    BY DEF handle_firmware_update, assess_update_capability
  <2> QED BY <2>1 DEF UpdateInv, InstallerHoldsRecord, AllDone, Terminal, InProgress, past_activation
<1>2. inbox \in Published \cup {0} BY DEF UpdateInv, UpdateTyped
<1> QED BY <1>1, <1>2, BeginKeeps, "queued" \in {"queued", "verified"}
         DEF handle_firmware_update, assess_update_capability

LEMMA UploadKeeps ==
  ASSUME UpdateInv, NEW v \in Published, prepare_local_release(v)
  PROVE  UpdateInv'
<1>1. AllDone /\ busyLock
  BY DEF prepare_local_release, Uploading, AllDone, UpdateInv, UpdateTyped, Installers
<1>2. updateRecord.memory.id < MaxUpdates /\ updateRecord.memory.state \in Terminal
      /\ running.routerd # Nothing
  BY <1>1 DEF UpdateInv, Held
<1>3. UNCHANGED <<catalog, slot, updater, running, touched, updateFaults>>
  BY DEF prepare_local_release
<1>4. CASE /\ v > current_appliance_version
           /\ begin(NewOperation(v))
           /\ installer' = [installer EXCEPT ![updateRecord.memory.id + 1] =
                              [pc |-> "verified", target |-> v]]
           /\ inbox' = v
           /\ UNCHANGED busyLock
  BY <1>1, <1>2, <1>3, <1>4, BeginKeeps
<1>5. CASE inbox' \in {inbox, Nothing, v} /\ busyLock' = FALSE /\ UNCHANGED <<updateRecord, installer>>
  <2> USE DEF UpdateInv
  <2>1. UpdateTyped'
    <3>1. inbox' \in Published \cup {0} BY <1>5 DEF UpdateTyped, Nothing
    <3> QED BY <1>3, <1>5, <3>1 DEF UpdateTyped
  <2>2. InstallerHoldsRecord' /\ NoMixedPair' /\ OneOperation' /\ HelperFirst'
    BY <1>3, <1>5 DEF InstallerHoldsRecord, NoMixedPair, OneOperation, HelperFirst
  <2>3. Prepared' BY <1>1, <1>5 DEF Prepared, AllDone
  <2>4. Held' /\ Handed' BY <1>3, <1>5 DEF Held, Handed, AllDone, Untouched
  <2>5. Ordered' /\ NotInstalled'
    BY <1>3, <1>5 DEF Ordered, NotInstalled, AllDone, Untouched, MayRollBack, Untaken
  <2> QED BY <2>1, <2>2, <2>3, <2>4, <2>5
<1> QED BY <1>4, <1>5 DEF prepare_local_release

LEMMA BeginUploadKeeps == UpdateInv /\ BeginUpload => UpdateInv'
<1> SUFFICES ASSUME UpdateInv, BeginUpload PROVE UpdateInv' OBVIOUS
<1> USE DEF UpdateInv
<1>1. /\ UNCHANGED <<catalog, updateRecord, installer, inbox, slot, updater, running, touched, updateFaults>>
      /\ busyLock' = TRUE /\ running.routerd # Nothing
      /\ updateRecord.memory.id < MaxUpdates /\ updateRecord.memory.state \in Terminal
  BY DEF BeginUpload, assess_update_capability
<1>2. UpdateTyped' BY <1>1 DEF UpdateTyped
<1>3. InstallerHoldsRecord' /\ NoMixedPair' /\ OneOperation' /\ HelperFirst' /\ Prepared'
  BY <1>1 DEF InstallerHoldsRecord, NoMixedPair, OneOperation, HelperFirst, Prepared
<1>4. Held' BY <1>1 DEF Held, AllDone
<1>5. Handed' BY <1>1 DEF Handed, AllDone, Untouched, Terminal
<1>6. Ordered' /\ NotInstalled'
  BY <1>1 DEF Ordered, NotInstalled, AllDone, Untouched, MayRollBack, Untaken
<1> QED BY <1>2, <1>3, <1>4, <1>5, <1>6

\* Writes of the record by the operation's own installer: the operation stays
\* the same, and an installer that is not done left it in progress.
LEMMA AdvanceKeeps ==
  ASSUME UpdateInv, NEW i \in 1..MaxUpdates, NEW at \in InstallerPCs \ {"done", "activating"},
         NEW state \in InProgress, NEW to \in InstallerPCs \ {"done"},
         to \in {"downloaded", "verified", "staging"} =>
           at \in {"downloaded", "verified", "staging"},
         to = "activating" => state = "activating",
         advance(i, at, state, to)
  PROVE  UpdateInv'
<1> USE DEF UpdateInv
<1> DEFINE op == [updateRecord.memory EXCEPT !.state = state]
<1>1. installer[i].pc # "done" BY DEF advance
<1>2. /\ updateRecord.memory.id = i /\ Holds(i) /\ ~AllDone
      /\ updateRecord.memory.state \in InProgress /\ updateRecord.memory.target = installer[i].target
      /\ \A j \in 1..MaxUpdates : j # i => installer[j].pc = "done"
  BY <1>1, OnlyOne DEF InstallerHoldsRecord
<1>3. op \in Operations /\ op.state = state /\ op.id = i /\ op.target = installer[i].target
  BY SMT, <1>2, StateTyped DEF UpdateTyped, Records
<1>4. /\ installer[i].pc = at
      /\ UNCHANGED <<catalog, inbox, slot, updater, running, touched>>
      /\ updateFaults' \in 0..MaxUpdateFaults
  BY SMT, <1>2, UpdateAssumption DEF advance, Unfaulty, Faulty, UpdateTyped
<1>5. \/ Saved(op) /\ LeaveInstaller(i, to)
      \/ updateRecord' = [updateRecord EXCEPT !.memory = op] /\ LeaveInstaller(i, "done")
  BY <1>2 DEF advance
<1>6. PICK pc \in {to, "done"} :
        /\ LeaveInstaller(i, pc)
        /\ pc # "done" => Saved(op)
        /\ Saved(op) \/ updateRecord' = [updateRecord EXCEPT !.memory = op]
  BY <1>5
<1> HIDE DEF op
<1>7. /\ installer' \in Installers /\ busyLock' \in BOOLEAN /\ (busyLock' => busyLock /\ pc # "done")
      /\ installer'[i].pc = pc /\ installer'[i].target = installer[i].target
      /\ \A j \in 1..MaxUpdates : j # i => installer'[j] = installer[j]
  <2>1. pc \in InstallerPCs BY DEF InstallerPCs
  <2> QED BY <1>6, <2>1, LeaveFacts
<1>8. /\ updateRecord' \in Records /\ updateRecord'.memory = op
      /\ updateRecord'.file.id = i /\ updateRecord'.file.target = installer[i].target
      /\ updateRecord'.file = updateRecord.file \/ updateRecord'.file = op
      /\ pc # "done" => updateRecord'.file = op
  BY <1>2, <1>3, <1>6, WriteFacts DEF UpdateTyped
<1>9. UpdateTyped' BY <1>4, <1>7, <1>8 DEF UpdateTyped
<1>10. InstallerHoldsRecord' BY SMT, <1>2, <1>3, <1>7, <1>8 DEF InstallerHoldsRecord
<1>11. NoMixedPair' /\ OneOperation' /\ HelperFirst'
  BY <1>3, <1>4, <1>8 DEF NoMixedPair, OneOperation, HelperFirst
<1>12. running.routerd # Nothing
  BY <1>2 DEF Held
<1>13. Held'
  <2>1. busyLock' => ~AllDone' BY <1>7 DEF AllDone
  <2> QED BY <1>4, <1>12, <2>1 DEF Held
<1>14. Prepared' BY <1>2, <1>4, <1>6, <1>7 DEF Prepared
<1>15. updater.pc \in {"resolve", "stop", "helper", "start"} /\ ~updater.rollback => ~Untouched
  BY <1>2 DEF Handed
<1>16. Handed' BY <1>2, <1>3, <1>4, <1>6, <1>7, <1>8, <1>15 DEF Handed, Untouched
<1>17. Ordered' BY <1>4 DEF Ordered, Untouched, MayRollBack
<1>18. NotInstalled'
  BY <1>2, <1>3, <1>4, <1>8 DEF NotInstalled, Untouched, MayRollBack, Untaken
<1> QED BY <1>9, <1>10, <1>11, <1>13, <1>14, <1>16, <1>17, <1>18

\* A failed operation: whatever was staged, the running slot is not its target.
LEMMA FailKeeps ==
  ASSUME UpdateInv, NEW i \in 1..MaxUpdates, installer[i].pc # "done", fail_operation(i),
         inbox' \in Published \cup {0},
         slot' \in Slots, slot'.current = slot.current, slot'.previous = slot.previous,
         slot'.floor = slot.floor,
         UNCHANGED <<catalog, updater, running, touched>>
  PROVE  UpdateInv'
<1> USE DEF UpdateInv
<1> DEFINE op == [updateRecord.memory EXCEPT !.state = "failed"]
<1>2. /\ updateRecord.memory.id = i /\ Holds(i) /\ ~AllDone
      /\ updateRecord.memory.target = installer[i].target
      /\ \A j \in 1..MaxUpdates : j # i => installer[j].pc = "done"
  BY OnlyOne DEF InstallerHoldsRecord
<1>3. op \in Operations /\ op.state = "failed" /\ op.id = i /\ op.target = installer[i].target
  BY SMT, <1>2, StateTyped DEF UpdateTyped, Records, Terminal
<1>4. /\ updateFaults' \in 0..MaxUpdateFaults /\ LeaveInstaller(i, "done")
      /\ Saved(op) \/ updateRecord' = [updateRecord EXCEPT !.memory = op]
  BY SMT, <1>2, UpdateAssumption DEF fail_operation, Recorded, Unfaulty, Faulty, UpdateTyped
<1> HIDE DEF op
<1>5. /\ installer' \in Installers /\ busyLock' = FALSE
      /\ installer'[i].pc = "done"
      /\ \A j \in 1..MaxUpdates : j # i => installer'[j] = installer[j]
  <2>1. "done" \in InstallerPCs BY DEF InstallerPCs
  <2> QED BY <1>4, <2>1, LeaveFacts
<1>6. AllDone' BY <1>2, <1>5 DEF AllDone
<1>7. /\ updateRecord' \in Records /\ updateRecord'.memory = op
      /\ updateRecord'.file.id = i /\ updateRecord'.file.target = installer[i].target
  BY <1>2, <1>3, <1>4, WriteFacts DEF UpdateTyped
<1>8. UpdateTyped' BY <1>4, <1>5, <1>7 DEF UpdateTyped
<1>9. InstallerHoldsRecord' /\ Prepared' BY <1>6 DEF InstallerHoldsRecord, Prepared, AllDone
<1>10. NoMixedPair' /\ OneOperation' /\ HelperFirst'
  BY <1>3, <1>7 DEF NoMixedPair, OneOperation, HelperFirst
<1>11. Held' BY <1>5, <1>6 DEF Held
<1>12. updater.pc \in {"resolve", "stop", "helper", "start"} /\ ~updater.rollback => ~Untouched
  BY <1>2 DEF Handed
<1>13. Handed' BY <1>6, <1>12 DEF Handed, Untouched, AllDone
<1>14. Ordered' BY DEF Ordered, Untouched, MayRollBack
<1>15. NotInstalled'
  BY <1>2, <1>3, <1>7 DEF NotInstalled, Untouched, MayRollBack, Untaken
<1> QED BY <1>8, <1>9, <1>10, <1>11, <1>13, <1>14, <1>15

\* The installer goes on to a step that leaves the record alone.
LEMMA GoOnKeeps ==
  ASSUME UpdateInv, NEW i \in 1..MaxUpdates, installer[i].pc # "done",
         NEW to \in {"downloaded", "staged"}, LeaveInstaller(i, to),
         inbox' \in Published \cup {0}, to = "downloaded" => inbox' = installer[i].target,
         slot' \in Slots, slot'.current = slot.current, slot'.previous = slot.previous,
         slot'.floor = slot.floor,
         UNCHANGED <<catalog, updateRecord, updater, running, touched, updateFaults>>
  PROVE  UpdateInv'
<1> USE DEF UpdateInv
<1>2. /\ updateRecord.memory.id = i /\ ~AllDone
      /\ updateRecord.memory.target = installer[i].target /\ updateRecord.memory.state \in InProgress
      /\ \A j \in 1..MaxUpdates : j # i => installer[j].pc = "done"
  BY OnlyOne DEF InstallerHoldsRecord
<1>5. /\ installer' \in Installers /\ busyLock' \in BOOLEAN
      /\ installer'[i].pc = to /\ installer'[i].target = installer[i].target
      /\ \A j \in 1..MaxUpdates : j # i => installer'[j] = installer[j]
  <2>1. to \in InstallerPCs BY DEF InstallerPCs
  <2> QED BY <2>1, LeaveFacts
<1>6. ~AllDone' BY <1>5 DEF AllDone
<1>8. UpdateTyped' BY <1>5 DEF UpdateTyped
<1>9. InstallerHoldsRecord' /\ Prepared' BY SMT, <1>2, <1>5 DEF InstallerHoldsRecord, Prepared
<1>10. NoMixedPair' /\ OneOperation' /\ HelperFirst'
  BY DEF NoMixedPair, OneOperation, HelperFirst
<1>11. Held' BY <1>2, <1>6 DEF Held
<1>12. updater.pc \in {"resolve", "stop", "helper", "start"} /\ ~updater.rollback => ~Untouched
  BY <1>2 DEF Handed
<1>13. Handed' BY <1>2, <1>5, <1>12 DEF Handed, Untouched
<1>14. Ordered' BY DEF Ordered, Untouched, MayRollBack
<1>15. NotInstalled'
  BY <1>2, <1>6 DEF NotInstalled, Untouched, MayRollBack, Untaken
<1> QED BY <1>8, <1>9, <1>10, <1>11, <1>13, <1>14, <1>15

LEMMA InstallerKeeps ==
  ASSUME UpdateInv, InstallerStep
  PROVE  UpdateInv'
<1>1. PICK i \in 1..MaxUpdates : run_published_update(i) \/ stage_and_activate(i)
  BY DEF InstallerStep
<1>2. inbox \in Published \cup {0} /\ slot \in Slots BY DEF UpdateInv, UpdateTyped
<1>3. CASE advance(i, "queued", "downloading", "downloading")
  BY <1>3, AdvanceKeeps DEF InstallerPCs, InProgress
<1>4. CASE advance(i, "downloaded", "verifying", "verified")
  BY <1>4, AdvanceKeeps DEF InstallerPCs, InProgress
<1>5. CASE advance(i, "verified", "staging", "staging")
  BY <1>5, AdvanceKeeps DEF InstallerPCs, InProgress
<1>6. CASE advance(i, "staged", "activating", "activating")
  BY <1>6, AdvanceKeeps DEF InstallerPCs, InProgress, past_activation
<1>7. CASE prepare_published(i)
  <2>1. installer[i].pc # "done" /\ UNCHANGED <<catalog, slot, updater, running, touched>>
    BY <1>7 DEF prepare_published
  <2>2. installer[i].target \in Published \cup {0}
    BY DEF UpdateInv, UpdateTyped, Installers, Works
  <2>3. CASE /\ inbox' = installer[i].target /\ LeaveInstaller(i, "downloaded")
             /\ UNCHANGED <<updateRecord, updateFaults>>
    BY <1>2, <2>1, <2>2, <2>3, GoOnKeeps
  <2>4. CASE inbox' \in {inbox, Nothing} /\ fail_operation(i)
    <3>1. inbox' \in Published \cup {0} BY <1>2, <2>4 DEF Nothing
    <3> QED BY <1>2, <2>1, <2>4, <3>1, FailKeeps
  <2> QED BY <1>7, <2>3, <2>4 DEF prepare_published
<1>8. CASE run_update_stage(i)
  <2>1. installer[i].pc # "done" /\ UNCHANGED <<catalog, inbox, updater, running, touched>>
    BY <1>8 DEF run_update_stage
  <2>2. ASSUME Stageable(inbox)
        PROVE  /\ Staged(inbox) \in Slots /\ Staged(inbox).current = slot.current
               /\ Staged(inbox).previous = slot.previous /\ Staged(inbox).floor = slot.floor
    <3>1. inbox \in SlotNames BY <1>2, <2>2 DEF Stageable, Nothing, SlotNames
    <3> QED BY <1>2, <3>1 DEF Staged, Slots
  <2>3. CASE /\ Stageable(inbox) /\ slot' = Staged(inbox) /\ LeaveInstaller(i, "staged")
             /\ UNCHANGED <<updateRecord, updateFaults>>
    BY <1>2, <2>1, <2>2, <2>3, GoOnKeeps
  <2>4. CASE /\ slot' \in {slot} \cup {Staged(v) : v \in {w \in {inbox} : Stageable(w)}}
             /\ fail_operation(i)
    <3>1. slot' \in Slots /\ slot'.current = slot.current /\ slot'.previous = slot.previous
          /\ slot'.floor = slot.floor
      BY <1>2, <2>2, <2>4
    <3> QED BY <1>2, <2>1, <2>4, <3>1, FailKeeps
  <2> QED BY <1>8, <2>3, <2>4 DEF run_update_stage
<1>9. CASE activate_pending_update_detached(i)
  <2>1. installer[i].pc = "activating" /\ UNCHANGED <<catalog, inbox, slot, running, touched>>
    BY <1>9 DEF activate_pending_update_detached
  <2>2. CASE fail_operation(i) /\ UNCHANGED updater
    BY <1>2, <2>1, <2>2, FailKeeps
  <2>3. CASE /\ updater.pc = "idle"
             /\ updater' = [updater EXCEPT !.pc = "resolve", !.rollback = FALSE]
             /\ LeaveInstaller(i, "done") /\ UNCHANGED <<updateRecord, updateFaults>>
    <3> USE DEF UpdateInv
    <3>1. /\ updateRecord.memory.state = "activating" /\ updateRecord.file.state = "activating"
          /\ \A j \in 1..MaxUpdates : j # i => installer[j].pc = "done"
      BY <2>1, OnlyOne DEF Handed
    <3>2. /\ installer' \in Installers /\ busyLock' = FALSE /\ installer'[i].pc = "done"
          /\ \A j \in 1..MaxUpdates : j # i => installer'[j] = installer[j]
      <4>1. "done" \in InstallerPCs BY DEF InstallerPCs
      <4> QED BY <2>3, <4>1, LeaveFacts
    <3>3. AllDone' BY <3>1, <3>2 DEF AllDone
    <3>4. updater' \in Updaters /\ updater'.pc = "resolve" /\ updater'.rollback = FALSE
      BY <2>3 DEF UpdateTyped, Updaters
    <3>5. UpdateTyped' BY <2>1, <2>3, <3>2, <3>4 DEF UpdateTyped
    <3>6. InstallerHoldsRecord' /\ Prepared' BY <3>3 DEF InstallerHoldsRecord, Prepared, AllDone
    <3>7. NoMixedPair' /\ OneOperation' /\ HelperFirst'
      BY <2>1, <2>3, <3>4 DEF NoMixedPair, OneOperation, HelperFirst
    <3>8. Held' BY <2>1, <3>2, <3>3, <3>4 DEF Held
    <3>9. Handed' BY <2>3, <3>1, <3>2, <3>3, <3>4 DEF Handed, AllDone
    <3>10. Ordered' BY <2>1, <3>4 DEF Ordered, MayRollBack
    <3>11. NotInstalled'
      BY <2>3, <3>1, <3>3 DEF NotInstalled, Untaken, Unstarted
    <3> QED BY <3>5, <3>6, <3>7, <3>8, <3>9, <3>10, <3>11
  <2> QED BY <1>9, <2>2, <2>3 DEF activate_pending_update_detached
<1> QED BY <1>1, <1>3, <1>4, <1>5, <1>6, <1>7, <1>8, <1>9
        DEF run_published_update, stage_and_activate

LEMMA UpdaterStepTo ==
  ASSUME updater \in Updaters, NEW pc \in {"stop", "helper", "start", "status", "rollback"}, ToStep(pc)
  PROVE  updater' \in Updaters /\ updater'.pc = pc /\ updater'.rollback = updater.rollback
BY DEF ToStep, Updaters

LEMMA IdleFacts ==
  UpdaterIdle \in Updaters /\ UpdaterIdle.pc = "idle" /\ UpdaterIdle.rollback = FALSE
BY DEF UpdaterIdle, Updaters

\* A failed command: an activation turns to its rollback, a rollback ends.
LEMMA FailedCommand ==
  ASSUME updater \in Updaters, CommandFails
  PROVE  /\ updater' \in Updaters
         /\ \/ updater'.pc = "idle" /\ ~updater'.rollback
            \/ updater'.pc = "rollback" /\ ~updater'.rollback /\ ~updater.rollback
BY IdleFacts, UpdaterStepTo DEF CommandFails, Updaters

LEMMA FaultCounts ==
  ASSUME updateFaults \in 0..MaxUpdateFaults, Faulty \/ Unfaulty
  PROVE  updateFaults' \in 0..MaxUpdateFaults
BY SMT, UpdateAssumption DEF Faulty, Unfaulty

\* What stops with routerd leaves nobody at work.
LEMMA StoppedFacts ==
  ASSUME catalog \in Catalogs, Stopped
  PROVE  /\ catalog' \in Catalogs /\ installer' \in Installers /\ busyLock' = FALSE
         /\ AllDone' /\ InstallerHoldsRecord' /\ Prepared'
<1>1. catalog' \in Catalogs BY DEF Stopped, Catalogs
<1>2. installer' \in Installers /\ busyLock' = FALSE BY NoneInstalling DEF Stopped
<1>3. \A i \in 1..MaxUpdates : installer'[i].pc = "done" BY NoneInstalling DEF Stopped
<1> QED BY <1>1, <1>2, <1>3 DEF AllDone, InstallerHoldsRecord, Prepared

\* The pointer moves to the pending slot, newer than all before it.
LEMMA ActivateKeeps == UpdateInv /\ activate_slot => UpdateInv'
<1> SUFFICES ASSUME UpdateInv, activate_slot PROVE UpdateInv' OBVIOUS
<1> USE DEF UpdateInv
<1>1. /\ UNCHANGED <<catalog, updateRecord, installer, inbox, busyLock, running, touched>>
      /\ updater.pc = "resolve" /\ ~updater.rollback
      /\ updater \in Updaters /\ slot \in Slots
  BY DEF activate_slot, Handed, UpdateTyped
<1>2. updateFaults' \in 0..MaxUpdateFaults
  BY FaultCounts DEF activate_slot, Unfaulty, UpdateTyped
<1>3. InstallerHoldsRecord' /\ OneOperation' /\ Prepared' /\ NoMixedPair'
  BY <1>1 DEF InstallerHoldsRecord, OneOperation, Prepared, NoMixedPair
<1>4. Untouched => /\ updateRecord.memory.state = "activating" /\ updateRecord.file.state = "activating"
                   /\ AllDone /\ ~busyLock
  BY <1>1 DEF Handed
<1>5. NotInstalled'
  BY <1>1, <1>4 DEF NotInstalled, Untaken, Unstarted, Untouched, AllDone
<1>6. CASE updater' = UpdaterIdle /\ UNCHANGED slot
  <2>1. updater' \in Updaters /\ updater'.pc = "idle" BY <1>6, IdleFacts
  <2>2. UpdateTyped' BY <1>1, <1>2, <1>6, <2>1 DEF UpdateTyped
  <2>3. Held' /\ HelperFirst' BY <1>1, <2>1 DEF Held, HelperFirst, AllDone
  <2>4. Handed' /\ Ordered' BY <1>1, <1>6, <2>1 DEF Handed, Ordered, MayRollBack, AllDone
  <2> QED BY <1>3, <1>5, <2>2, <2>3, <2>4
<1>7. CASE /\ slot.pending \in slot.staged /\ slot.pending > slot.floor
           /\ slot' = [slot EXCEPT !.previous = slot.current, !.current = slot.pending,
                                   !.pending = Nothing, !.floor = slot.pending]
           /\ ToStep("stop")
  <2>1. updater' \in Updaters /\ updater'.pc = "stop" /\ ~updater'.rollback BY <1>1, <1>7, UpdaterStepTo
  <2>2. slot.pending \in Published /\ slot.pending \in SlotNames
    <3>1. slot.pending \in Published \cup {0} /\ slot.pending \in SlotNames
      BY <1>1, <1>7 DEF Slots
    <3> QED BY <3>1, NumbersOf
  <2>3. /\ slot' \in Slots /\ slot'.current = slot.pending /\ slot'.previous = slot.current
        /\ slot'.floor = slot.pending
    <3>1. slot.current \in SlotNames \cup {0} /\ Nothing \in Published \cup {0}
      BY <1>1 DEF Slots, Nothing
    <3> QED BY <1>1, <1>7, <2>2, <3>1 DEF Slots
  <2>4. UpdateTyped' BY <1>1, <1>2, <2>1, <2>3 DEF UpdateTyped
  <2>5. Held' /\ HelperFirst' BY <1>1, <2>1 DEF Held, HelperFirst, AllDone
  <2>6. Handed' BY <1>1, <1>4, <2>1 DEF Handed, AllDone, Untouched
  <2>7. Ordered'
    <3>1. slot.current \in Int /\ slot.pending \in Int /\ slot.floor \in Int
      <4>1. slot.current \in SlotNames /\ slot.floor \in Published \cup {1}
        BY <1>1 DEF Slots
      <4>2. slot.current \in Int BY <4>1, NumbersOf
      <4>3. slot.pending \in Int BY <2>2, NumbersOf
      <4>4. slot.floor \in Int
        <5>1. CASE slot.floor \in Published BY <5>1, NumbersOf
        <5>2. CASE slot.floor = 1 BY SMT, <5>2
        <5> QED BY <4>1, <5>1, <5>2
      <4> QED BY <4>2, <4>3, <4>4
    <3> QED BY SMT, <1>7, <2>3, <3>1 DEF Ordered
  <2> QED BY <1>3, <1>5, <2>4, <2>5, <2>6, <2>7
<1> QED BY <1>6, <1>7 DEF activate_slot

LEMMA RollbackKeeps == UpdateInv /\ rollback_slot => UpdateInv'
<1> SUFFICES ASSUME UpdateInv, rollback_slot PROVE UpdateInv' OBVIOUS
<1> USE DEF UpdateInv
<1>1. /\ UNCHANGED <<catalog, updateRecord, installer, inbox, busyLock, running, touched>>
      /\ updater.pc = "rollback" /\ updater \in Updaters /\ slot \in Slots
  BY DEF rollback_slot, UpdateTyped
<1>2. updateFaults' \in 0..MaxUpdateFaults
  BY FaultCounts DEF rollback_slot, Unfaulty, UpdateTyped
<1>3. InstallerHoldsRecord' /\ OneOperation' /\ Prepared' /\ NoMixedPair'
  BY <1>1 DEF InstallerHoldsRecord, OneOperation, Prepared, NoMixedPair
<1>4. CASE updater' = UpdaterIdle /\ UNCHANGED slot
  <2>1. updater' \in Updaters /\ updater'.pc = "idle" BY <1>4, IdleFacts
  <2>2. UpdateTyped' BY <1>1, <1>2, <1>4, <2>1 DEF UpdateTyped
  <2>3. Held' /\ HelperFirst' BY <1>1, <2>1 DEF Held, HelperFirst, AllDone
  <2>4. Handed' /\ Ordered' BY <1>1, <1>4, <2>1 DEF Handed, Ordered, MayRollBack, AllDone
  <2>5. NotInstalled'
    BY <1>1, <1>4, <2>1 DEF NotInstalled, Untaken, Untouched, AllDone, MayRollBack
  <2> QED BY <1>3, <2>2, <2>3, <2>4, <2>5
<1>5. CASE /\ slot.previous # Nothing
           /\ slot' = [slot EXCEPT !.current = slot.previous, !.previous = slot.current,
                                   !.pending = Nothing]
           /\ updater' = [pc |-> "stop", rollback |-> TRUE]
  <2>1. updater' \in Updaters /\ updater'.pc = "stop" /\ updater'.rollback
    BY <1>5 DEF Updaters
  <2>2. /\ slot' \in Slots /\ slot'.current = slot.previous /\ slot'.previous = slot.current
        /\ slot'.floor = slot.floor
    <3>1. slot.current \in SlotNames \cup {0} /\ slot.previous \in SlotNames
          /\ Nothing \in Published \cup {0}
      BY <1>1, <1>5 DEF Slots, Nothing
    <3> QED BY <1>1, <1>5, <3>1 DEF Slots
  <2>3. UpdateTyped' BY <1>1, <1>2, <2>1, <2>2 DEF UpdateTyped
  <2>4. Held' /\ HelperFirst' BY <1>1, <2>1 DEF Held, HelperFirst, AllDone
  <2>5. Handed' BY <1>1, <2>1 DEF Handed, AllDone
  <2>6. Ordered' BY <2>1, <2>2 DEF Ordered, MayRollBack
  <2>7. NotInstalled'
    BY <1>1, <2>1, <2>2 DEF NotInstalled, Untaken, Untouched, AllDone, MayRollBack, Handed
  <2> QED BY <1>3, <2>3, <2>4, <2>5, <2>6, <2>7
<1> QED BY <1>4, <1>5 DEF rollback_slot

\* What the updater's service commands share: the slot table, the inbox and
\* the order of versions stay as they are.
LEMMA CommandKeeps ==
  ASSUME UpdateInv, UNCHANGED <<inbox, slot, touched>>,
         updater.pc \in {"stop", "helper", "start", "status"},
         catalog' \in Catalogs, installer' \in Installers, busyLock' \in BOOLEAN,
         updateRecord' \in Records, OneOperation',
         updateRecord'.memory.id = updateRecord.memory.id,
         updateRecord'.memory.target = updateRecord.memory.target,
         updateRecord'.memory.state \in Unstarted => Untaken,
         updateRecord'.file.state \in Unstarted => Untaken,
         AllDone \/ UNCHANGED updateRecord, AllDone' \/ (UNCHANGED installer /\ UNCHANGED updateRecord),
         running' \in Services, updateFaults' \in 0..MaxUpdateFaults,
         updater' \in Updaters,
         \/ updater'.pc = "idle"
         \/ updater'.pc = "rollback" /\ ~updater'.rollback /\ ~updater.rollback
         \/ updater'.pc = "status" /\ updater'.rollback = updater.rollback
         \/ /\ updater'.pc \in {"helper", "start"} /\ updater'.rollback = updater.rollback
            /\ updater.pc \in {"stop", "helper"}
            /\ UNCHANGED updateRecord /\ AllDone' /\ ~busyLock',
         Held', HelperFirst', NoMixedPair'
  PROVE  UpdateInv'
<1> USE DEF UpdateInv
<1>1. UpdateTyped' BY DEF UpdateTyped
<1>2. InstallerHoldsRecord' /\ Prepared'
  BY DEF InstallerHoldsRecord, Prepared, AllDone
<1>3. Handed'
  <2>1. \A i \in 1..MaxUpdates : installer'[i].pc = "activating" =>
          updateRecord'.memory.state = "activating" /\ updateRecord'.file.state = "activating"
    BY DEF Handed, AllDone
  <2>2. /\ updater'.pc = "resolve" => ~updater'.rollback
        /\ Untouched' /\ updater'.pc = "rollback" => ~updater'.rollback
    OBVIOUS
  <2>3. /\ Untouched' /\ updater'.pc \in {"resolve", "stop", "helper", "start"} /\ ~updater'.rollback =>
             /\ updateRecord'.memory.state = "activating" /\ updateRecord'.file.state = "activating"
             /\ AllDone' /\ ~busyLock'
    BY DEF Handed, Untouched
  <2> QED BY <2>1, <2>2, <2>3 DEF Handed, AllDone
<1>4. Untouched' = Untouched /\ (MayRollBack' => MayRollBack)
  BY DEF Untouched, MayRollBack
<1>5. Ordered' BY <1>4 DEF Ordered
<1>6. Untaken' => Untaken
  BY DEF Untaken, AllDone
<1>7. NotInstalled' BY <1>4, <1>6 DEF NotInstalled
<1> QED BY <1>1, <1>2, <1>3, <1>5, <1>7

LEMMA StopRouterdKeeps == UpdateInv /\ StopRouterd => UpdateInv'
<1> SUFFICES ASSUME UpdateInv, StopRouterd PROVE UpdateInv' OBVIOUS
<1>1. /\ UNCHANGED <<updateRecord, inbox, slot, touched>> /\ updater.pc = "stop"
      /\ updateFaults' \in 0..MaxUpdateFaults
  BY FaultCounts DEF StopRouterd, UpdateInv, UpdateTyped
<1>2. /\ updater \in Updaters /\ running \in Services /\ catalog \in Catalogs
      /\ updateRecord \in Records /\ OneOperation /\ installer \in Installers /\ busyLock \in BOOLEAN
  BY DEF UpdateInv, UpdateTyped
<1>3. OneOperation' BY <1>1, <1>2 DEF OneOperation
<1>4. updateRecord.memory.state \in Unstarted \/ updateRecord.file.state \in Unstarted => Untaken
  BY DEF Untaken
<1>5. CASE running' = [running EXCEPT !.routerd = Nothing] /\ Stopped /\ ToStep("helper")
  <2>1. updater' \in Updaters /\ updater'.pc = "helper" /\ updater'.rollback = updater.rollback
    BY <1>2, <1>5, UpdaterStepTo
  <2>2. running' \in Services /\ running'.routerd = Nothing
    BY <1>2, <1>5 DEF Services, Nothing
  <2>3. /\ catalog' \in Catalogs /\ installer' \in Installers /\ busyLock' = FALSE /\ AllDone'
    BY <1>2, <1>5, StoppedFacts
  <2>4. Held' /\ HelperFirst' /\ NoMixedPair'
    BY <2>1, <2>2, <2>3 DEF Held, HelperFirst, NoMixedPair
  <2> QED BY <1>1, <1>2, <1>3, <1>4, <2>1, <2>2, <2>3, <2>4, CommandKeeps
<1>6. CASE CommandFails /\ UNCHANGED <<running, installer, busyLock, catalog>>
  <2>1. /\ updater' \in Updaters
        /\ \/ updater'.pc = "idle" /\ ~updater'.rollback
           \/ updater'.pc = "rollback" /\ ~updater'.rollback /\ ~updater.rollback
    BY <1>2, <1>6, FailedCommand
  <2>2. Held' /\ HelperFirst' /\ NoMixedPair'
    BY <1>1, <1>6, <2>1 DEF Held, HelperFirst, NoMixedPair, AllDone, UpdateInv
  <2> QED BY <1>1, <1>2, <1>3, <1>4, <1>6, <2>1, <2>2, CommandKeeps
<1> QED BY <1>5, <1>6 DEF StopRouterd

LEMMA RestartHelperKeeps == UpdateInv /\ RestartHelper => UpdateInv'
<1> SUFFICES ASSUME UpdateInv, RestartHelper PROVE UpdateInv' OBVIOUS
<1>1. /\ UNCHANGED <<catalog, updateRecord, installer, inbox, busyLock, slot, touched>>
      /\ updater.pc = "helper" /\ updateFaults' \in 0..MaxUpdateFaults
  BY FaultCounts DEF RestartHelper, UpdateInv, UpdateTyped
<1>2. /\ updater \in Updaters /\ running \in Services /\ catalog \in Catalogs
      /\ updateRecord \in Records /\ OneOperation /\ installer \in Installers /\ busyLock \in BOOLEAN
      /\ slot.current \in SlotNames
  BY DEF UpdateInv, UpdateTyped, Slots
<1>3. OneOperation' BY <1>1, <1>2 DEF OneOperation
<1>4. updateRecord.memory.state \in Unstarted \/ updateRecord.file.state \in Unstarted => Untaken
  BY DEF Untaken
<1>5. running.routerd = Nothing /\ AllDone /\ ~busyLock /\ AllDone'
  BY <1>1 DEF UpdateInv, Held, AllDone
<1>6. CASE running' = [running EXCEPT !.applyd = slot.current] /\ ToStep("start")
  <2>1. updater' \in Updaters /\ updater'.pc = "start" /\ updater'.rollback = updater.rollback
    BY <1>2, <1>6, UpdaterStepTo
  <2>2. running' \in Services /\ running'.routerd = Nothing /\ running'.applyd = slot.current
    BY <1>2, <1>5, <1>6 DEF Services
  <2>3. Held' /\ HelperFirst' /\ NoMixedPair'
    BY <1>1, <1>5, <2>1, <2>2 DEF Held, HelperFirst, NoMixedPair
  <2> QED BY <1>1, <1>2, <1>3, <1>4, <1>5, <2>1, <2>2, <2>3, CommandKeeps
<1>7. CASE /\ running' \in {[running EXCEPT !.applyd = v] : v \in {Nothing, slot.current, running.applyd}}
           /\ CommandFails
  <2>1. /\ updater' \in Updaters
        /\ \/ updater'.pc = "idle" /\ ~updater'.rollback
           \/ updater'.pc = "rollback" /\ ~updater'.rollback /\ ~updater.rollback
    BY <1>2, <1>7, FailedCommand
  <2>2. running' \in Services /\ running'.routerd = Nothing
    BY <1>2, <1>5, <1>7 DEF Services, Nothing
  <2>3. Held' /\ HelperFirst' /\ NoMixedPair'
    BY <1>1, <1>5, <2>1, <2>2 DEF Held, HelperFirst, NoMixedPair
  <2> QED BY <1>1, <1>2, <1>3, <1>4, <1>5, <2>1, <2>2, <2>3, CommandKeeps
<1> QED BY <1>6, <1>7 DEF RestartHelper

LEMMA RespawnRouterdKeeps == UpdateInv /\ RespawnRouterd => UpdateInv'
<1> SUFFICES ASSUME UpdateInv, RespawnRouterd PROVE UpdateInv' OBVIOUS
<1>1. /\ UNCHANGED <<catalog, installer, inbox, busyLock, slot, touched>>
      /\ updater.pc = "start" /\ updateFaults' \in 0..MaxUpdateFaults
  BY FaultCounts DEF RespawnRouterd, UpdateInv, UpdateTyped
<1>2. /\ updater \in Updaters /\ running \in Services /\ catalog \in Catalogs
      /\ updateRecord \in Records /\ OneOperation /\ installer \in Installers /\ busyLock \in BOOLEAN
      /\ slot.current \in SlotNames
  BY DEF UpdateInv, UpdateTyped, Slots
<1>3. running.routerd = Nothing /\ AllDone /\ ~busyLock /\ AllDone'
  BY <1>1 DEF UpdateInv, Held, AllDone
<1>4. /\ updateRecord' \in Records /\ OneOperation'
      /\ updateRecord'.memory.id = updateRecord.memory.id
      /\ updateRecord'.memory.target = updateRecord.memory.target
      /\ updateRecord'.memory.state \in Unstarted => Untaken
      /\ updateRecord'.file.state \in Unstarted => Untaken
  <2>1. CASE Reconciled BY <1>2, <2>1, ReconciledFacts DEF Untaken
  <2>2. CASE UNCHANGED updateRecord BY <1>2, <2>2 DEF Untaken, OneOperation
  <2> QED BY <2>1, <2>2 DEF RespawnRouterd
<1>5. \/ running' = [running EXCEPT !.routerd = slot.current]
      \/ running' = running
  BY DEF RespawnRouterd
<1>6. /\ running' \in Services /\ running'.applyd = running.applyd
      /\ running'.routerd = slot.current \/ running'.routerd = Nothing
  BY <1>2, <1>3, <1>5 DEF Services
<1>7. /\ updater' \in Updaters
      /\ \/ updater'.pc = "idle"
         \/ updater'.pc = "rollback" /\ ~updater'.rollback /\ ~updater.rollback
         \/ updater'.pc = "status" /\ updater'.rollback = updater.rollback
  <2>1. CASE ToStep("status") BY <1>2, <2>1, UpdaterStepTo
  <2>2. CASE CommandFails BY <1>2, <2>2, FailedCommand
  <2> QED BY <2>1, <2>2 DEF RespawnRouterd
<1>8. Held' /\ HelperFirst' /\ NoMixedPair'
  BY <1>1, <1>3, <1>6, <1>7 DEF Held, HelperFirst, NoMixedPair, UpdateInv
<1> QED BY <1>1, <1>2, <1>3, <1>4, <1>6, <1>7, <1>8, CommandKeeps

LEMMA ServicesStatusKeeps == UpdateInv /\ ServicesStatus => UpdateInv'
<1> SUFFICES ASSUME UpdateInv, ServicesStatus PROVE UpdateInv' OBVIOUS
<1>1. /\ UNCHANGED <<catalog, updateRecord, installer, inbox, busyLock, slot, running, touched>>
      /\ updater.pc = "status" /\ updateFaults' \in 0..MaxUpdateFaults
  BY FaultCounts DEF ServicesStatus, UpdateInv, UpdateTyped
<1>2. /\ updater \in Updaters /\ running \in Services /\ catalog \in Catalogs
      /\ updateRecord \in Records /\ OneOperation /\ installer \in Installers /\ busyLock \in BOOLEAN
  BY DEF UpdateInv, UpdateTyped
<1>3. OneOperation' BY <1>1, <1>2 DEF OneOperation
<1>4. updateRecord.memory.state \in Unstarted \/ updateRecord.file.state \in Unstarted => Untaken
  BY DEF Untaken
<1>5. /\ updater' \in Updaters
      /\ \/ updater'.pc = "idle"
         \/ updater'.pc = "rollback" /\ ~updater'.rollback /\ ~updater.rollback
  BY <1>2, IdleFacts, FailedCommand DEF ServicesStatus
<1>6. Held' /\ HelperFirst' /\ NoMixedPair'
  BY <1>1, <1>5 DEF Held, HelperFirst, NoMixedPair, AllDone, UpdateInv
<1> QED BY <1>1, <1>2, <1>3, <1>4, <1>5, <1>6, CommandKeeps

\* The console turns an idle updater to a rollback; the exception is noted.
LEMMA ConsoleKeeps == UpdateInv /\ ConsoleRollback => UpdateInv'
<1> SUFFICES ASSUME UpdateInv, ConsoleRollback PROVE UpdateInv' OBVIOUS
<1> USE DEF UpdateInv
<1>1. /\ UNCHANGED <<catalog, updateRecord, installer, inbox, busyLock, slot, running>>
      /\ updateFaults' \in 0..MaxUpdateFaults
  BY FaultCounts DEF ConsoleRollback, UpdateTyped
<1>2. updater' \in Updaters /\ updater'.pc = "rollback" /\ updater'.rollback
  BY DEF ConsoleRollback, Updaters
<1>3. touched' \in Touches /\ touched'.console /\ touched'.respawn = touched.respawn
  BY DEF ConsoleRollback, UpdateTyped, Touches
<1>4. UpdateTyped' BY <1>1, <1>2, <1>3 DEF UpdateTyped
<1>5. InstallerHoldsRecord' /\ OneOperation' /\ Prepared' /\ NoMixedPair' /\ HelperFirst'
  BY <1>1, <1>2, <1>3 DEF InstallerHoldsRecord, OneOperation, Prepared, NoMixedPair, HelperFirst
<1>6. Held' BY <1>1, <1>2 DEF Held, AllDone
<1>7. ~Untouched' BY <1>3 DEF Untouched
<1>8. Handed' BY <1>1, <1>2, <1>7 DEF Handed
<1>9. Ordered' /\ NotInstalled' BY <1>1, <1>7 DEF Ordered, NotInstalled
<1> QED BY <1>4, <1>5, <1>6, <1>8, <1>9

LEMMA RouterdDiesKeeps == UpdateInv /\ RouterdRespawns => UpdateInv'
<1> SUFFICES ASSUME UpdateInv, RouterdRespawns PROVE UpdateInv' OBVIOUS
<1> USE DEF UpdateInv
<1>1. /\ UNCHANGED <<inbox, slot, updater>> /\ updateFaults' \in 0..MaxUpdateFaults
      /\ Stopped /\ Reconciled /\ running.routerd # Nothing
      /\ running' = [running EXCEPT !.routerd = slot.current]
  BY FaultCounts DEF RouterdRespawns, UpdateTyped
<1>2. /\ touched' \in Touches /\ touched'.respawn /\ touched'.console = touched.console
      /\ touched'.outlived = (touched.outlived \/ updater.pc # "idle")
  BY DEF RouterdRespawns, UpdateTyped, Touches
<1>3. /\ catalog' \in Catalogs /\ installer' \in Installers /\ busyLock' = FALSE
      /\ AllDone' /\ InstallerHoldsRecord' /\ Prepared'
  BY <1>1, StoppedFacts DEF UpdateTyped
<1>4. /\ updateRecord' \in Records /\ OneOperation'
      /\ updateRecord'.memory.id = updateRecord.memory.id
      /\ updateRecord'.memory.target = updateRecord.memory.target
      /\ updateRecord'.memory.state \in Unstarted => Untaken
      /\ updateRecord'.file.state \in Unstarted => Untaken
  BY <1>1, ReconciledFacts DEF UpdateTyped, Untaken
<1>5. /\ slot.current \in SlotNames /\ slot.current # Nothing
      /\ running' \in Services /\ running'.routerd = slot.current
  <2>1. slot.current \in SlotNames BY DEF UpdateTyped, Slots
  <2>2. running' \in Services /\ running'.routerd = slot.current
    BY <1>1, <2>1 DEF UpdateTyped, Services
  <2> QED BY <2>1, <2>2, NumbersOf DEF Nothing
<1>6. UpdateTyped' BY <1>1, <1>2, <1>3, <1>4, <1>5 DEF UpdateTyped
<1>7. NoMixedPair' /\ HelperFirst' BY <1>2 DEF NoMixedPair, HelperFirst
<1>8. Held' BY <1>1, <1>3, <1>5 DEF Held
<1>9. Untouched' => Untouched /\ updater.pc = "idle"
  BY <1>2 DEF Untouched
<1>10. Handed' BY <1>1, <1>3, <1>9 DEF Handed, AllDone
<1>11. Ordered' BY <1>1, <1>9 DEF Ordered, MayRollBack
<1>12. NotInstalled' BY <1>1, <1>3, <1>4, <1>9 DEF NotInstalled, Untaken, MayRollBack
<1> QED BY <1>3, <1>4, <1>6, <1>7, <1>8, <1>10, <1>11, <1>12

LEMMA HelperDiesKeeps == UpdateInv /\ HelperRespawns => UpdateInv'
<1> SUFFICES ASSUME UpdateInv, HelperRespawns PROVE UpdateInv' OBVIOUS
<1> USE DEF UpdateInv
<1>1. /\ UNCHANGED <<catalog, updateRecord, installer, inbox, busyLock, slot, updater>>
      /\ updateFaults' \in 0..MaxUpdateFaults
  BY FaultCounts DEF HelperRespawns, UpdateTyped
<1>2. running' \in Services /\ running'.routerd = running.routerd
  <2>1. slot.current \in SlotNames BY DEF UpdateTyped, Slots
  <2> QED BY <2>1 DEF HelperRespawns, UpdateTyped, Services
<1>3. touched' \in Touches /\ touched'.respawn /\ touched'.console = touched.console
      /\ touched'.outlived = touched.outlived
  BY DEF HelperRespawns, UpdateTyped, Touches
<1>4. UpdateTyped' BY <1>1, <1>2, <1>3 DEF UpdateTyped
<1>5. InstallerHoldsRecord' /\ OneOperation' /\ Prepared' /\ NoMixedPair' /\ HelperFirst'
  BY <1>1, <1>3 DEF InstallerHoldsRecord, OneOperation, Prepared, NoMixedPair, HelperFirst
<1>6. Held' /\ Handed' BY <1>1, <1>2, <1>3 DEF Held, Handed, AllDone, Untouched
<1>7. Ordered' /\ NotInstalled'
  BY <1>1, <1>3 DEF Ordered, NotInstalled, Untouched, MayRollBack, Untaken, AllDone
<1> QED BY <1>4, <1>5, <1>6, <1>7

LEMMA PowerCutKeeps == UpdateInv /\ PowerCut => UpdateInv'
<1> SUFFICES ASSUME UpdateInv, PowerCut PROVE UpdateInv' OBVIOUS
<1> USE DEF UpdateInv
<1>1. /\ UNCHANGED <<inbox, slot, touched>> /\ updateFaults' \in 0..MaxUpdateFaults
      /\ Stopped /\ Reconciled /\ updater' = UpdaterIdle
      /\ running' = [routerd |-> slot.current, applyd |-> slot.current]
  BY FaultCounts DEF PowerCut, UpdateTyped
<1>2. updater' \in Updaters /\ updater'.pc = "idle" /\ ~updater'.rollback
  BY <1>1, IdleFacts
<1>3. /\ catalog' \in Catalogs /\ installer' \in Installers /\ busyLock' = FALSE
      /\ AllDone' /\ InstallerHoldsRecord' /\ Prepared'
  BY <1>1, StoppedFacts DEF UpdateTyped
<1>4. /\ updateRecord' \in Records /\ OneOperation'
      /\ updateRecord'.memory.id = updateRecord.memory.id
      /\ updateRecord'.memory.target = updateRecord.memory.target
      /\ updateRecord'.memory.state \in Unstarted => Untaken
      /\ updateRecord'.file.state \in Unstarted => Untaken
  BY <1>1, ReconciledFacts DEF UpdateTyped, Untaken
<1>5. /\ running' \in Services /\ running'.routerd = slot.current /\ running'.applyd = slot.current
  <2>1. slot.current \in SlotNames BY DEF UpdateTyped, Slots
  <2> QED BY <1>1, <2>1 DEF Services
<1>6. UpdateTyped' BY <1>1, <1>2, <1>3, <1>4, <1>5 DEF UpdateTyped
<1>7. NoMixedPair' /\ HelperFirst' BY <1>1, <1>2, <1>5 DEF NoMixedPair, HelperFirst
<1>8. Held' BY <1>2, <1>3 DEF Held
<1>9. Handed' BY <1>2, <1>3 DEF Handed, AllDone
<1>10. Ordered' BY <1>1, <1>2 DEF Ordered, MayRollBack
<1>11. NotInstalled'
  BY <1>1, <1>2, <1>3, <1>4 DEF NotInstalled, Untaken, MayRollBack, Untouched
<1> QED BY <1>3, <1>4, <1>6, <1>7, <1>8, <1>9, <1>10, <1>11

LEMMA UpdateStands == UpdateInv /\ UNCHANGED updateVars => UpdateInv'
<1> SUFFICES ASSUME UpdateInv, UNCHANGED updateVars PROVE UpdateInv' OBVIOUS
<1> USE DEF UpdateInv, updateVars
<1>1. UpdateTyped' BY DEF UpdateTyped
<1>2. InstallerHoldsRecord' /\ OneOperation' /\ Prepared' /\ NoMixedPair' /\ HelperFirst'
  BY DEF InstallerHoldsRecord, OneOperation, Prepared, NoMixedPair, HelperFirst
<1>3. Held' /\ Handed' BY DEF Held, Handed, AllDone, Untouched
<1>4. Ordered' /\ NotInstalled'
  BY DEF Ordered, NotInstalled, Untouched, MayRollBack, Untaken, AllDone
<1> QED BY <1>1, <1>2, <1>3, <1>4

LEMMA UpdateStepKeeps == UpdateInv /\ [UpdateNext]_updateVars => UpdateInv'
BY DiscoveryKeeps, RequestUpdateKeeps, BeginUploadKeeps, UploadKeeps, InstallerKeeps,
   ActivateKeeps, RollbackKeeps, StopRouterdKeeps, RestartHelperKeeps, RespawnRouterdKeeps,
   ServicesStatusKeeps, ConsoleKeeps, RouterdDiesKeeps, HelperDiesKeeps, PowerCutKeeps, UpdateStands
   DEF UpdateNext, UpdaterStep, restart_runtime_pair

\* Web updates are sound: one installer owns the record, an operation that is
\* recorded as failed did not become the running slot, and the two services
\* never run from different slots, with the exceptions the definitions name.
THEOREM UpdateIsSound == UpdateSpec => []UpdateSound
<1>1. UpdateInv => UpdateSound
  <2> SUFFICES ASSUME UpdateInv PROVE UpdateSound OBVIOUS
  <2>1. UpdateTypeOK
    BY DEF UpdateInv, UpdateTyped, UpdateTypeOK, Catalogs, Records, Installers, Works, Slots,
           Updaters, Services, Touches
  <2>2. FailedInstalledNothing
    BY DEF UpdateInv, NotInstalled, Untouched, Untaken, Unstarted, FailedInstalledNothing
  <2> QED BY <2>1, <2>2 DEF UpdateInv, UpdateSound
<1> QED BY <1>1, UpdateBegins, UpdateStepKeeps, PTL DEF UpdateSpec

\* What is staged is what was confirmed: while an installer is at the staging
\* step, nobody else fills the inbox or calls stage.
THEOREM UpdateStagesConfirmed == UpdateSpec => StagesWhatWasConfirmed
<1> DEFINE Confirmed == \A i \in 1..MaxUpdates :
             installer[i].pc = "staging" /\ slot'.pending # slot.pending
             /\ updater.pc \notin {"resolve", "rollback"}
               => slot'.pending = updateRecord.memory.target
<1>1. UpdateInv /\ [UpdateNext]_updateVars => [Confirmed]_updateVars
  <2> SUFFICES ASSUME UpdateInv, [UpdateNext]_updateVars, NEW i \in 1..MaxUpdates,
                      installer[i].pc = "staging", slot'.pending # slot.pending,
                      updater.pc \notin {"resolve", "rollback"}
               PROVE  slot'.pending = updateRecord.memory.target
    OBVIOUS
  <2>1. PICK j \in 1..MaxUpdates : run_update_stage(j)
    BY DEF UpdateNext, updateVars, Discovery, check, CheckGoesStale, set_channel,
           handle_firmware_update, BeginUpload, prepare_local_release, InstallerStep,
           run_published_update, stage_and_activate, advance, prepare_published,
           activate_pending_update_detached, UpdaterStep, activate_slot, rollback_slot,
           restart_runtime_pair, StopRouterd, RestartHelper, RespawnRouterd, ServicesStatus,
           ConsoleRollback, RouterdRespawns, HelperRespawns, PowerCut
  <2>2. slot \in Slots BY DEF UpdateInv, UpdateTyped
  <2>3. slot' = slot \/ slot' = Staged(inbox)
    BY <2>1 DEF run_update_stage
  <2>4. slot'.pending = inbox
    BY <2>2, <2>3 DEF Staged, Slots
  <2> QED BY <2>4 DEF UpdateInv, Prepared, InstallerHoldsRecord
<1>2. UpdateSpec => []UpdateInv
  BY UpdateBegins, UpdateStepKeeps, PTL DEF UpdateSpec
<1> QED BY <1>1, <1>2, PTL DEF UpdateSpec, StagesWhatWasConfirmed

-----------------------------------------------------------------------------
(***************************************************************************)
(* DevicePauses. The record a stop leaves is judged against the answers    *)
(* given so far, so the invariant follows a request through its steps:     *)
(* what was loaded (EarlyRecord), where the undo is kept (UndoHeld) and    *)
(* which side of the change the record and the kernel are on (OneSide).    *)
(***************************************************************************)

Actions == [step : PauseSteps, kind : {"status", "pause", "resume"}, device : Devices,
            until : Until, old : Pauses, new : Pauses]

PauseTyped ==
  /\ clock \in 0 .. MaxClock /\ lan \subseteq Devices /\ pauseFaults \in 0 .. MaxFaults
  /\ applied \in Pauses /\ blocked \in Pauses
  /\ undo \in Pauses \cup {NoPauses} /\ uncertain \in Pauses \cup {NoPauses}
  /\ action \in Actions
  /\ verdict \in {"success", "restored", "recovery", "down"}
  /\ promised \subseteq Pauses /\ promised # {}

(* The steps of a request before it has decided on a change. *)
Early == {"idle", "reassert", "settle", "settled", "change"}

(* What a stop at this step would leave to be loaded. *)
Found == IF undo # NoPauses THEN undo ELSE applied

AsPromised(pauses) == \E p \in promised : SameNow(pauses, p)

(* Until a change is decided the record is one the answers left possible, and
   the kernel was brought to what was loaded. *)
EarlyRecord ==
  /\ action.step \in Early => AsPromised(Found) /\ AsPromised(load_pause_record)
  /\ action.step \in {"settle", "settled", "change"} =>
       SameNow(action.old, load_pause_record) /\ SameNow(blocked, action.old)
  /\ action.step = "settled" => applied = load_pause_record
  /\ action.step = "change" => undo = NoPauses /\ uncertain = NoPauses

(* From then on the undo is held in memory and, once written, in the journal. *)
UndoHeld ==
  /\ action.step \notin Early => uncertain = action.old
  /\ action.step = "intent" => undo = NoPauses
  /\ action.step \in {"install", "commit", "clear", "undo install", "undo commit", "undo clear"} =>
       undo = action.old
  /\ action.step = "undo intent" => undo \in {action.old, NoPauses}

(* The committed set and the kernel are those of one side of the change. *)
OneSide ==
  /\ action.step \in {"intent", "install", "commit"} => SameNow(applied, action.old)
  /\ action.step = "clear" => applied = action.new
  /\ action.step \in {"undo intent", "undo install", "undo commit"} =>
       SameNow(applied, action.old) \/ SameNow(applied, action.new)
  /\ action.step = "undo clear" => applied = action.old
  /\ action.step \in {"commit", "clear"} => SameNow(blocked, action.new)
  /\ action.step \in {"undo commit", "undo clear"} => SameNow(blocked, action.old)

PauseInv == PauseTyped /\ EarlyRecord /\ UndoHeld /\ OneSide /\ KernelAsAnswered

LEMMA ActiveTyped ==
  ASSUME NEW p \in Pauses, NEW earlier \in Int
  PROVE  ActiveAt(earlier, p) \in Pauses
<1>1. DOMAIN p = Devices /\ \A d \in Devices : p[d] \in Until
  BY DEF Pauses
<1>2. -1 \in Until
  BY SMT, PauseAssumption DEF Until
<1> QED
  BY <1>1, <1>2 DEF ActiveAt, Pauses

(* What has run out stays out: dropping the ended pauses earlier changes nothing
   of what is active later. *)
LEMMA ActiveLater ==
  ASSUME NEW p \in Pauses, NEW earlier \in Int, NEW later \in Int, earlier <= later
  PROVE  ActiveAt(later, ActiveAt(earlier, p)) = ActiveAt(later, p)
<1>1. DOMAIN p = Devices /\ \A d \in Devices : p[d] \in Int
  BY SMT, PauseAssumption DEF Pauses, Until
<1> QED
  BY SMT, <1>1 DEF ActiveAt

LEMMA SameLater ==
  ASSUME NEW p \in Pauses, NEW q \in Pauses, NEW earlier \in Int, NEW later \in Int, earlier <= later,
         ActiveAt(earlier, p) = ActiveAt(earlier, q)
  PROVE  ActiveAt(later, p) = ActiveAt(later, q)
<1>1. ActiveAt(later, ActiveAt(earlier, p)) = ActiveAt(later, p)
  BY ActiveLater
<1>2. ActiveAt(later, ActiveAt(earlier, q)) = ActiveAt(later, q)
  BY ActiveLater
<1> QED
  BY <1>1, <1>2

LEMMA NoneTyped == NonePaused \in Pauses /\ NoPauses \notin Pauses
<1>1. -1 \in Until
  BY SMT, PauseAssumption DEF Until
<1>2. NonePaused \in Pauses
  BY <1>1 DEF NonePaused, Pauses
<1>3. NoPauses \notin Pauses
  BY PauseAssumption DEF NoPauses, Pauses
<1> QED
  BY <1>2, <1>3

LEMMA IdleTyped == IdleAction \in Actions /\ IdleAction.step = "idle"
<1>1. (CHOOSE d \in Devices : TRUE) \in Devices
  BY PauseAssumption
<1>2. 0 \in Until
  BY SMT, PauseAssumption DEF Until
<1> QED
  BY <1>1, <1>2, NoneTyped DEF IdleAction, Actions, PauseSteps

LEMMA RecordTyped ==
  ASSUME PauseTyped
  PROVE  /\ load_pause_record \in Pauses /\ Found \in Pauses /\ action.old \in Pauses /\ action.new \in Pauses
         /\ clock \in Int /\ MaxClock \in Nat
BY SMT, PauseAssumption DEF PauseTyped, load_pause_record, Found, Actions

LEMMA FaultCounted ==
  ASSUME PauseTyped, Fault \/ NoFault
  PROVE  pauseFaults' \in 0 .. MaxFaults
BY SMT, PauseAssumption DEF PauseTyped, Fault, NoFault

LEMMA StepToIs ==
  ASSUME PauseTyped, NEW step \in PauseSteps, StepTo(step)
  PROVE  /\ action' \in Actions /\ action'.step = step /\ action'.old = action.old /\ action'.new = action.new
BY DEF PauseTyped, Actions, StepTo

LEMMA PauseBegins == PauseInit => PauseInv
<1> SUFFICES ASSUME PauseInit PROVE PauseInv
  OBVIOUS
<1>1. 0 \in 0 .. MaxClock /\ 0 \in 0 .. MaxFaults
  BY SMT, PauseAssumption
<1>2. PauseTyped
  BY <1>1, NoneTyped, IdleTyped DEF PauseInit, PauseTyped
<1>3. EarlyRecord
  BY IdleTyped DEF PauseInit, EarlyRecord, AsPromised, Found, load_pause_record, SameNow
<1>4. UndoHeld /\ OneSide
  BY IdleTyped DEF PauseInit, UndoHeld, OneSide, Early
<1>5. KernelAsAnswered
  BY DEF PauseInit, KernelAsAnswered, SameNow
<1> QED
  BY <1>2, <1>3, <1>4, <1>5 DEF PauseInv

(* An answer ends the request: the record must be one it leaves possible, and
   behind a certain answer the kernel must block what it says. *)
LEMMA AnswerKeeps ==
  ASSUME PauseInv, UNCHANGED <<clock, lan>>, NEW result \in {"success", "restored", "recovery"},
         NEW answered \in SUBSET Pauses, Answers(result, answered), Fault \/ NoFault,
         applied' \in Pauses, blocked' \in Pauses,
         undo' \in Pauses \cup {NoPauses}, uncertain' \in Pauses \cup {NoPauses},
         \E p \in promised' : ActiveAt(clock, Found') = ActiveAt(clock, p),
         \E p \in promised' : ActiveAt(clock, load_pause_record') = ActiveAt(clock, p),
         result # "recovery" => answered # {} /\ \A p \in answered : ActiveAt(clock, blocked') = ActiveAt(clock, p)
  PROVE  PauseInv'
<1>1. action' = IdleAction /\ verdict' = result
      /\ promised' = IF result = "recovery" THEN promised \cup answered ELSE answered
  BY DEF Answers
<1>2. action'.step = "idle" /\ action' \in Actions
  BY <1>1, IdleTyped
<1>3. PauseTyped'
  BY <1>1, <1>2, FaultCounted DEF PauseInv, PauseTyped
<1>4. EarlyRecord'
  BY <1>2 DEF EarlyRecord, AsPromised, SameNow, active_pauses
<1>5. UndoHeld' /\ OneSide'
  BY <1>2 DEF UndoHeld, OneSide, Early
<1>6. KernelAsAnswered'
  BY <1>1 DEF KernelAsAnswered, SameNow, active_pauses
<1> QED
  BY <1>3, <1>4, <1>5, <1>6 DEF PauseInv

LEMMA RequestKeeps ==
  ASSUME PauseInv, PauseRequest \/ StatusRequest
  PROVE  PauseInv'
<1>1. PICK kind \in {"status", "pause", "resume"}, device \in Devices, seconds \in Nat :
        Request(kind, device, seconds) /\ (seconds = 0 \/ clock + seconds <= MaxClock + 1)
  BY PauseAssumption, IdleTyped DEF PauseRequest, StatusRequest, Actions
<1>2. /\ action.step = "idle" /\ verdict # "down"
      /\ action' = [IdleAction EXCEPT !.step = "reassert", !.kind = kind, !.device = device,
                            !.until = IF seconds = 0 THEN 0 ELSE clock + seconds]
      /\ UNCHANGED <<clock, lan, applied, undo, uncertain, blocked, verdict, promised, pauseFaults>>
  BY <1>1 DEF Request, pauseFiles
<1>3. (IF seconds = 0 THEN 0 ELSE clock + seconds) \in Until
  BY SMT, <1>1, PauseAssumption DEF PauseInv, PauseTyped, Until
<1>4. action' \in Actions /\ action'.step = "reassert"
  BY <1>2, <1>3, IdleTyped DEF Actions, PauseSteps
<1>5. PauseTyped'
  BY <1>2, <1>4 DEF PauseInv, PauseTyped
<1>6. EarlyRecord'
  BY <1>2, <1>4 DEF PauseInv, EarlyRecord, Early, AsPromised, Found, load_pause_record, SameNow, active_pauses
<1>7. UndoHeld' /\ OneSide' /\ KernelAsAnswered'
  BY <1>4 DEF UndoHeld, OneSide, Early, KernelAsAnswered
<1> QED
  BY <1>5, <1>6, <1>7 DEF PauseInv

LEMMA RestorePausesKeeps ==
  ASSUME PauseInv, restore_device_pauses
  PROVE  PauseInv'
<1>1. /\ action.step = "idle" /\ verdict' = "recovery" /\ action' = [IdleAction EXCEPT !.step = "reassert"]
      /\ UNCHANGED <<clock, lan, applied, undo, uncertain, blocked, promised, pauseFaults>>
  BY DEF restore_device_pauses, pauseFiles
<1>2. action' \in Actions /\ action'.step = "reassert"
  BY <1>1, IdleTyped DEF Actions, PauseSteps
<1>3. PauseTyped'
  BY <1>1, <1>2 DEF PauseInv, PauseTyped
<1>4. EarlyRecord'
  BY <1>1, <1>2 DEF PauseInv, EarlyRecord, Early, AsPromised, Found, load_pause_record, SameNow, active_pauses
<1>5. UndoHeld' /\ OneSide' /\ KernelAsAnswered'
  BY <1>2 DEF UndoHeld, OneSide, Early, KernelAsAnswered
<1> QED
  BY <1>3, <1>4, <1>5 DEF PauseInv

LEMMA ReassertKeeps ==
  ASSUME PauseInv, Reassert
  PROVE  PauseInv'
<1> DEFINE old == active_pauses(load_pause_record)
<1>1. action.step = "reassert" /\ UNCHANGED <<clock, lan, applied, undo, uncertain>>
  BY DEF Reassert, pauseFiles
<1>2. /\ load_pause_record \in Pauses /\ Found \in Pauses /\ clock \in Int /\ old \in Pauses
      /\ ActiveAt(clock, old) = ActiveAt(clock, load_pause_record)
  BY SMT, RecordTyped, ActiveTyped, ActiveLater DEF PauseInv, active_pauses
<1>3. AsPromised(Found) /\ AsPromised(load_pause_record)
  BY <1>1 DEF PauseInv, EarlyRecord, Early
<1>4. Found' = Found /\ load_pause_record' = load_pause_record
  BY <1>1 DEF Found, load_pause_record
<1>5. CASE UNCHANGED blocked /\ Answers("recovery", {}) /\ (Fault \/ NoFault)
  <2>1. promised' = promised
    BY <1>5 DEF Answers
  <2>2. /\ \E p \in promised' : ActiveAt(clock, Found') = ActiveAt(clock, p)
        /\ \E p \in promised' : ActiveAt(clock, load_pause_record') = ActiveAt(clock, p)
    BY <1>3, <1>4, <2>1 DEF AsPromised, SameNow, active_pauses
  <2> QED
    BY <1>1, <1>5, <2>2, AnswerKeeps DEF PauseInv, PauseTyped
<1>6. CASE /\ blocked' = active_pauses(load_pause_record) /\ NoFault /\ UNCHANGED <<verdict, promised>>
           /\ action' = [action EXCEPT !.old = old,
                           !.step = IF undo # NoPauses \/ uncertain # NoPauses THEN "settle" ELSE "change"]
  <2> HIDE DEF old
  <2>1. /\ action' \in Actions /\ action'.old = old
        /\ action'.step = "settle" \/ (action'.step = "change" /\ undo = NoPauses /\ uncertain = NoPauses)
    BY <1>2, <1>6 DEF PauseInv, PauseTyped, Actions, PauseSteps
  <2>2. PauseTyped'
    BY <1>1, <1>2, <1>6, <2>1, FaultCounted DEF PauseInv, PauseTyped, old
  <2>3. EarlyRecord'
    BY <1>1, <1>2, <1>3, <1>4, <1>6, <2>1 DEF EarlyRecord, Early, AsPromised, SameNow, active_pauses, old
  <2>4. UndoHeld' /\ OneSide' /\ KernelAsAnswered'
    BY <2>1 DEF UndoHeld, OneSide, Early, KernelAsAnswered
  <2> QED
    BY <2>2, <2>3, <2>4 DEF PauseInv
<1> QED
  BY <1>5, <1>6 DEF Reassert, Install

LEMMA SettleKeeps ==
  ASSUME PauseInv, Settle
  PROVE  PauseInv'
<1>1. UNCHANGED <<clock, lan, blocked>> /\ action.step \in {"settle", "settled"}
  BY DEF Settle, WriteApplied, ClearUndo
<1>2. /\ load_pause_record \in Pauses /\ Found \in Pauses /\ clock \in Int
  BY RecordTyped DEF PauseInv
<1>3. /\ AsPromised(Found) /\ AsPromised(load_pause_record)
      /\ SameNow(action.old, load_pause_record) /\ SameNow(blocked, action.old)
      /\ action.step = "settled" => applied = load_pause_record
  BY <1>1 DEF PauseInv, EarlyRecord, Early
<1>4. /\ Found' \in {Found, load_pause_record} /\ applied' \in {applied, load_pause_record}
      /\ load_pause_record' = load_pause_record
      /\ undo' \in {undo, NoPauses} /\ uncertain' \in {uncertain, NoPauses}
  BY <1>3 DEF Settle, WriteApplied, ClearUndo, Found, load_pause_record
<1>5. CASE Answers("recovery", {}) /\ Fault
  <2>1. promised' = promised
    BY <1>5 DEF Answers
  <2>2. /\ \E p \in promised' : ActiveAt(clock, Found') = ActiveAt(clock, p)
        /\ \E p \in promised' : ActiveAt(clock, load_pause_record') = ActiveAt(clock, p)
    BY <1>3, <1>4, <2>1 DEF AsPromised, SameNow, active_pauses
  <2> QED
    BY <1>1, <1>2, <1>4, <1>5, <2>2, AnswerKeeps DEF PauseInv, PauseTyped
<1>6. CASE /\ UNCHANGED <<verdict, promised>> /\ NoFault
           /\ \/ StepTo("settled") /\ applied' = load_pause_record
              \/ StepTo("change") /\ undo' = NoPauses /\ uncertain' = NoPauses
  <2>1. /\ action' \in Actions /\ action'.old = action.old
        /\ \/ action'.step = "settled" /\ applied' = load_pause_record'
           \/ action'.step = "change" /\ undo' = NoPauses /\ uncertain' = NoPauses
    BY <1>4, <1>6, StepToIs DEF PauseInv, PauseSteps
  <2>2. PauseTyped'
    BY <1>1, <1>2, <1>4, <1>6, <2>1, FaultCounted DEF PauseInv, PauseTyped
  <2>3. EarlyRecord'
    BY <1>1, <1>3, <1>4, <1>6, <2>1 DEF EarlyRecord, Early, AsPromised, SameNow, active_pauses
  <2>4. UndoHeld' /\ OneSide' /\ KernelAsAnswered'
    BY <2>1 DEF UndoHeld, OneSide, Early, KernelAsAnswered
  <2> QED
    BY <2>2, <2>3, <2>4 DEF PauseInv
<1> QED
  BY <1>5, <1>6 DEF Settle, WriteApplied, ClearUndo, Keep

LEMMA ChangeKeeps ==
  ASSUME PauseInv, Change
  PROVE  PauseInv'
<1>1. UNCHANGED <<clock, lan, applied, undo, blocked>> /\ action.step = "change" /\ NoFault
  BY DEF Change, pauseFiles
<1>2. /\ SameNow(action.old, load_pause_record) /\ SameNow(blocked, action.old)
      /\ AsPromised(Found) /\ AsPromised(load_pause_record) /\ undo = NoPauses /\ uncertain = NoPauses
  BY <1>1 DEF PauseInv, EarlyRecord, Early
<1>3. Found = applied /\ load_pause_record = applied /\ action.old \in Pauses
  BY <1>2, RecordTyped DEF Found, load_pause_record, PauseInv
<1>4. CASE Answers("success", {action.old}) /\ UNCHANGED uncertain
  <2>1. promised' = {action.old}
    BY <1>4 DEF Answers
  <2>2. Found' = applied /\ load_pause_record' = applied
    BY <1>1, <1>2, <1>4 DEF Found, load_pause_record
  <2>3. /\ \E p \in promised' : ActiveAt(clock, Found') = ActiveAt(clock, p)
        /\ \E p \in promised' : ActiveAt(clock, load_pause_record') = ActiveAt(clock, p)
    BY <1>2, <1>3, <2>1, <2>2 DEF SameNow, active_pauses
  <2>4. \A p \in {action.old} : ActiveAt(clock, blocked') = ActiveAt(clock, p)
    BY <1>1, <1>2 DEF SameNow, active_pauses
  <2> QED
    BY <1>1, <1>3, <1>4, <2>3, <2>4, AnswerKeeps DEF PauseInv, PauseTyped
<1>5. CASE \E next \in Pauses : /\ action' = [action EXCEPT !.step = "intent", !.new = next]
                                /\ uncertain' = action.old /\ Keep
  <2>1. action' \in Actions /\ action'.step = "intent" /\ action'.old = action.old
    BY <1>5 DEF PauseInv, PauseTyped, Actions, PauseSteps
  <2>2. PauseTyped'
    BY <1>1, <1>3, <1>5, <2>1, FaultCounted DEF PauseInv, PauseTyped, Keep
  <2>3. EarlyRecord' /\ KernelAsAnswered'
    BY <2>1 DEF EarlyRecord, Early, KernelAsAnswered
  <2>4. UndoHeld'
    BY <1>1, <1>2, <1>5, <2>1 DEF UndoHeld, Early
  <2>5. OneSide'
    BY <1>1, <1>2, <1>3, <2>1 DEF OneSide, SameNow, active_pauses
  <2> QED
    BY <2>2, <2>3, <2>4, <2>5 DEF PauseInv
<1>6. [action.old EXCEPT ![action.device] = IF action.kind = "resume" THEN -1 ELSE action.until] \in Pauses
  <2>1. -1 \in Until
    BY SMT, PauseAssumption DEF Until
  <2>2. action.old \in [Devices -> Until] /\ action.device \in Devices /\ action.until \in Until
    BY DEF PauseInv, PauseTyped, Actions, Pauses
  <2> QED
    BY <2>1, <2>2 DEF Pauses
<1> QED
  BY <1>4, <1>5, <1>6 DEF Change

(* An answer of "recovery" in the middle of a change names both of its sides. *)
LEMMA UnsureKeeps ==
  ASSUME PauseInv, action.step \notin Early, UNCHANGED <<clock, lan>>, Answers("recovery", Either),
         Fault \/ NoFault, UNCHANGED uncertain, blocked' \in Pauses, applied' \in Pauses,
         undo' \in Pauses \cup {NoPauses}, uncertain = action.old,
         SameNow(applied, action.old) \/ SameNow(applied, action.new),
         applied' \in {applied, action.old}, undo' \in {action.old, NoPauses}
  PROVE  PauseInv'
<1>1. promised' = promised \cup {action.old, action.new}
  BY DEF Answers, Either
<1>2. action.old \in Pauses /\ action.new \in Pauses
  BY RecordTyped DEF PauseInv
<1>3. load_pause_record' = action.old
  BY <1>2, NoneTyped DEF load_pause_record
<1>4. Found' = action.old \/ SameNow(Found', action.old) \/ SameNow(Found', action.new)
  BY <1>2, NoneTyped DEF Found, SameNow, active_pauses
<1>5. /\ \E p \in promised' : ActiveAt(clock, Found') = ActiveAt(clock, p)
      /\ \E p \in promised' : ActiveAt(clock, load_pause_record') = ActiveAt(clock, p)
  BY <1>1, <1>3, <1>4 DEF SameNow, active_pauses
<1>6. Either \in SUBSET Pauses /\ uncertain' \in Pauses \cup {NoPauses}
  BY <1>2 DEF Either
<1> QED
  BY <1>5, <1>6, AnswerKeeps

(* A step on in the middle of a change. *)
LEMMA MidwayKeeps ==
  ASSUME PauseInv, NEW step \in PauseSteps, step \notin Early, StepTo(step),
         UNCHANGED <<clock, lan, uncertain, verdict, promised>>, Fault \/ NoFault,
         applied' \in Pauses, blocked' \in Pauses, undo' \in Pauses \cup {NoPauses},
         UndoHeld', OneSide'
  PROVE  PauseInv'
<1>1. action' \in Actions /\ action'.step = step
  BY StepToIs DEF PauseInv
<1>2. PauseTyped'
  BY <1>1, FaultCounted DEF PauseInv, PauseTyped
<1>3. EarlyRecord' /\ KernelAsAnswered'
  BY <1>1 DEF EarlyRecord, Early, KernelAsAnswered
<1> QED
  BY <1>2, <1>3 DEF PauseInv

LEMMA IntentKeeps ==
  ASSUME PauseInv, Intent
  PROVE  PauseInv'
<1>1. action.step = "intent" /\ UNCHANGED <<clock, lan, applied, uncertain, blocked>>
  BY DEF Intent
<1>2. uncertain = action.old /\ undo = NoPauses /\ SameNow(applied, action.old) /\ action.old \in Pauses
  BY <1>1, RecordTyped DEF PauseInv, UndoHeld, OneSide, Early
<1>3. CASE undo' = action.old /\ StepTo("install") /\ NoFault /\ Keep
  <2>1. action'.step = "install" /\ action'.old = action.old /\ action'.new = action.new
    BY <1>3, StepToIs DEF PauseInv, PauseSteps
  <2>2. UndoHeld' /\ OneSide'
    BY <1>1, <1>2, <1>3, <2>1 DEF UndoHeld, OneSide, Early, SameNow, active_pauses
  <2> QED
    BY <1>1, <1>2, <1>3, <2>2, MidwayKeeps DEF PauseInv, PauseTyped, Keep, PauseSteps, Early
<1>4. CASE undo' \in {undo, action.old} /\ Fault /\ Answers("recovery", Either)
  BY <1>1, <1>2, <1>4, UnsureKeeps DEF PauseInv, PauseTyped, Early
<1> QED
  BY <1>3, <1>4 DEF Intent

LEMMA InstallKeeps ==
  ASSUME PauseInv, InstallNext
  PROVE  PauseInv'
<1>1. action.step = "install" /\ UNCHANGED <<clock, lan, applied, undo, uncertain, verdict, promised>>
  BY DEF InstallNext, pauseFiles
<1>2. /\ uncertain = action.old /\ undo = action.old /\ SameNow(applied, action.old)
      /\ action.new \in Pauses /\ clock \in Int
  BY <1>1, RecordTyped DEF PauseInv, UndoHeld, OneSide, Early
<1>3. active_pauses(action.new) \in Pauses /\ SameNow(active_pauses(action.new), action.new)
  BY SMT, <1>2, ActiveTyped, ActiveLater DEF SameNow, active_pauses
<1>4. CASE blocked' = active_pauses(action.new) /\ StepTo("commit") /\ NoFault
  <2>1. action'.step = "commit" /\ action'.old = action.old /\ action'.new = action.new
    BY <1>4, StepToIs DEF PauseInv, PauseSteps
  <2>2. UndoHeld' /\ OneSide'
    BY <1>1, <1>2, <1>3, <1>4, <2>1 DEF UndoHeld, OneSide, Early, SameNow, active_pauses
  <2> QED
    BY <1>1, <1>3, <1>4, <2>2, MidwayKeeps DEF PauseInv, PauseTyped, PauseSteps, Early
<1>5. CASE blocked' \in {blocked, active_pauses(action.new)} /\ StepTo("undo intent") /\ (Fault \/ NoFault)
  <2>1. action'.step = "undo intent" /\ action'.old = action.old /\ action'.new = action.new
    BY <1>5, StepToIs DEF PauseInv, PauseSteps
  <2>2. UndoHeld' /\ OneSide'
    BY <1>1, <1>2, <2>1 DEF UndoHeld, OneSide, Early, SameNow, active_pauses
  <2> QED
    BY <1>1, <1>3, <1>5, <2>2, MidwayKeeps DEF PauseInv, PauseTyped, PauseSteps, Early
<1> QED
  BY <1>4, <1>5 DEF InstallNext, Install

LEMMA CommitNextKeeps ==
  ASSUME PauseInv, CommitNext
  PROVE  PauseInv'
<1>1. UNCHANGED <<clock, lan, blocked>> /\ action.step \in {"commit", "clear"}
  BY DEF CommitNext, WriteApplied, ClearUndo
<1>2. /\ uncertain = action.old /\ undo = action.old /\ SameNow(blocked, action.new)
      /\ action.step = "commit" => SameNow(applied, action.old)
      /\ action.step = "clear" => applied = action.new
      /\ action.old \in Pauses /\ action.new \in Pauses
  BY <1>1, RecordTyped DEF PauseInv, UndoHeld, OneSide, Early
<1>3. CASE /\ action.step = "commit" /\ applied' = action.new /\ StepTo("clear") /\ NoFault
           /\ UNCHANGED <<verdict, promised, undo, uncertain>>
  <2>1. action'.step = "clear" /\ action'.old = action.old /\ action'.new = action.new
    BY <1>3, StepToIs DEF PauseInv, PauseSteps
  <2>2. UndoHeld' /\ OneSide'
    BY <1>1, <1>2, <1>3, <2>1 DEF UndoHeld, OneSide, Early, SameNow, active_pauses
  <2> QED
    BY <1>1, <1>2, <1>3, <2>2, MidwayKeeps DEF PauseInv, PauseTyped, PauseSteps, Early
<1>4. CASE /\ StepTo("undo intent") /\ Fault /\ UNCHANGED <<verdict, promised, uncertain>>
           /\ undo' \in {undo, NoPauses} /\ applied' \in {applied, action.new}
  <2>1. action'.step = "undo intent" /\ action'.old = action.old /\ action'.new = action.new
    BY <1>4, StepToIs DEF PauseInv, PauseSteps
  <2>2. UndoHeld' /\ OneSide'
    BY <1>1, <1>2, <1>4, <2>1 DEF UndoHeld, OneSide, Early, SameNow, active_pauses
  <2> QED
    BY <1>1, <1>2, <1>4, <2>2, MidwayKeeps DEF PauseInv, PauseTyped, PauseSteps, Early
<1>5. CASE /\ action.step = "clear" /\ undo' = NoPauses /\ uncertain' = NoPauses /\ NoFault
           /\ UNCHANGED applied /\ Answers("success", {action.new})
  <2>1. promised' = {action.new}
    BY <1>5 DEF Answers
  <2>2. Found' = action.new /\ load_pause_record' = action.new
    BY <1>2, <1>5 DEF Found, load_pause_record
  <2>3. /\ \E p \in promised' : ActiveAt(clock, Found') = ActiveAt(clock, p)
        /\ \E p \in promised' : ActiveAt(clock, load_pause_record') = ActiveAt(clock, p)
    BY <2>1, <2>2
  <2>4. \A p \in {action.new} : ActiveAt(clock, blocked') = ActiveAt(clock, p)
    BY <1>1, <1>2 DEF SameNow, active_pauses
  <2> QED
    BY <1>1, <1>2, <1>5, <2>3, <2>4, AnswerKeeps DEF PauseInv, PauseTyped
<1> QED
  BY <1>3, <1>4, <1>5 DEF CommitNext, WriteApplied, ClearUndo, Keep

LEMMA UndoIntentKeeps ==
  ASSUME PauseInv, UndoIntent
  PROVE  PauseInv'
<1>1. action.step = "undo intent" /\ UNCHANGED <<clock, lan, applied, uncertain>>
  BY DEF UndoIntent
<1>2. /\ uncertain = action.old /\ undo \in {action.old, NoPauses}
      /\ SameNow(applied, action.old) \/ SameNow(applied, action.new)
      /\ action.old \in Pauses /\ clock \in Int
  BY <1>1, RecordTyped DEF PauseInv, UndoHeld, OneSide, Early
<1>3. active_pauses(action.old) \in Pauses
  BY <1>2, ActiveTyped DEF active_pauses
<1>4. CASE undo' = action.old /\ StepTo("undo install") /\ NoFault /\ Keep /\ UNCHANGED blocked
  <2>1. action'.step = "undo install" /\ action'.old = action.old /\ action'.new = action.new
    BY <1>4, StepToIs DEF PauseInv, PauseSteps
  <2>2. UndoHeld' /\ OneSide'
    BY <1>1, <1>2, <1>4, <2>1 DEF UndoHeld, OneSide, Early, SameNow, active_pauses
  <2> QED
    BY <1>1, <1>2, <1>4, <2>2, MidwayKeeps DEF PauseInv, PauseTyped, Keep, PauseSteps, Early
<1>5. CASE /\ undo' \in {undo, action.old} /\ blocked' \in {blocked, active_pauses(action.old)}
           /\ Fault /\ Answers("recovery", Either)
  BY <1>1, <1>2, <1>3, <1>5, UnsureKeeps DEF PauseInv, PauseTyped, Early
<1> QED
  BY <1>4, <1>5 DEF UndoIntent

LEMMA UndoInstallKeeps ==
  ASSUME PauseInv, UndoInstall
  PROVE  PauseInv'
<1>1. action.step = "undo install" /\ UNCHANGED <<clock, lan, applied, undo, uncertain>>
  BY DEF UndoInstall, pauseFiles
<1>2. /\ uncertain = action.old /\ undo = action.old
      /\ SameNow(applied, action.old) \/ SameNow(applied, action.new)
      /\ action.old \in Pauses /\ clock \in Int
  BY <1>1, RecordTyped DEF PauseInv, UndoHeld, OneSide, Early
<1>3. active_pauses(action.old) \in Pauses /\ SameNow(active_pauses(action.old), action.old)
  BY SMT, <1>2, ActiveTyped, ActiveLater DEF SameNow, active_pauses
<1>4. CASE blocked' = active_pauses(action.old) /\ StepTo("undo commit") /\ NoFault /\ Keep
  <2>1. action'.step = "undo commit" /\ action'.old = action.old /\ action'.new = action.new
    BY <1>4, StepToIs DEF PauseInv, PauseSteps
  <2>2. UndoHeld' /\ OneSide'
    BY <1>1, <1>2, <1>3, <1>4, <2>1 DEF UndoHeld, OneSide, Early, SameNow, active_pauses
  <2> QED
    BY <1>1, <1>3, <1>4, <2>2, MidwayKeeps DEF PauseInv, PauseTyped, Keep, PauseSteps, Early
<1>5. CASE /\ blocked' \in {blocked, active_pauses(action.old)} /\ (Fault \/ NoFault)
           /\ Answers("recovery", Either)
  BY <1>1, <1>2, <1>3, <1>5, UnsureKeeps DEF PauseInv, PauseTyped, Early
<1> QED
  BY <1>4, <1>5 DEF UndoInstall, Install

LEMMA UndoCommitKeeps ==
  ASSUME PauseInv, UndoCommit
  PROVE  PauseInv'
<1>1. UNCHANGED <<clock, lan, blocked>> /\ action.step \in {"undo commit", "undo clear"}
  BY DEF UndoCommit, WriteApplied, ClearUndo
<1>2. /\ uncertain = action.old /\ undo = action.old /\ SameNow(blocked, action.old)
      /\ action.step = "undo commit" => SameNow(applied, action.old) \/ SameNow(applied, action.new)
      /\ action.step = "undo clear" => applied = action.old
      /\ action.old \in Pauses
  BY <1>1, RecordTyped DEF PauseInv, UndoHeld, OneSide, Early
<1>3. CASE /\ action.step = "undo commit" /\ applied' = action.old /\ StepTo("undo clear") /\ NoFault
           /\ UNCHANGED <<verdict, promised, undo, uncertain>>
  <2>1. action'.step = "undo clear" /\ action'.old = action.old /\ action'.new = action.new
    BY <1>3, StepToIs DEF PauseInv, PauseSteps
  <2>2. UndoHeld' /\ OneSide'
    BY <1>1, <1>2, <1>3, <2>1 DEF UndoHeld, OneSide, Early, SameNow, active_pauses
  <2> QED
    BY <1>1, <1>2, <1>3, <2>2, MidwayKeeps DEF PauseInv, PauseTyped, PauseSteps, Early
<1>4. CASE /\ Answers("recovery", Either) /\ Fault /\ UNCHANGED uncertain
           /\ undo' \in {undo, NoPauses} /\ applied' \in {applied, action.old}
  <2>1. SameNow(applied, action.old) \/ SameNow(applied, action.new)
    BY <1>1, <1>2 DEF SameNow
  <2> QED
    BY <1>1, <1>2, <1>4, <2>1, UnsureKeeps DEF PauseInv, PauseTyped, Early
<1>5. CASE /\ action.step = "undo clear" /\ undo' = NoPauses /\ uncertain' = NoPauses /\ NoFault
           /\ UNCHANGED applied /\ Answers("restored", {action.old})
  <2>1. promised' = {action.old}
    BY <1>5 DEF Answers
  <2>2. Found' = action.old /\ load_pause_record' = action.old
    BY <1>2, <1>5 DEF Found, load_pause_record
  <2>3. /\ \E p \in promised' : ActiveAt(clock, Found') = ActiveAt(clock, p)
        /\ \E p \in promised' : ActiveAt(clock, load_pause_record') = ActiveAt(clock, p)
    BY <2>1, <2>2
  <2>4. \A p \in {action.old} : ActiveAt(clock, blocked') = ActiveAt(clock, p)
    BY <1>1, <1>2 DEF SameNow, active_pauses
  <2> QED
    BY <1>1, <1>2, <1>5, <2>3, <2>4, AnswerKeeps DEF PauseInv, PauseTyped
<1> QED
  BY <1>3, <1>4, <1>5 DEF UndoCommit, WriteApplied, ClearUndo, Keep

(* What a stop leaves on disk is one side of the change, or what was promised. *)
LEMMA FoundIsPossible ==
  ASSUME PauseInv
  PROVE  \E p \in (IF action.step \in Early THEN promised ELSE promised \cup Either) : SameNow(Found, p)
<1>1. CASE action.step \in Early
  BY <1>1 DEF PauseInv, EarlyRecord, AsPromised
<1>2. CASE action.step \notin Early
  <2>1. Found = action.old \/ SameNow(Found, action.old) \/ SameNow(Found, action.new)
    BY <1>2 DEF PauseInv, PauseTyped, Actions, PauseSteps, UndoHeld, OneSide, Found, Early, SameNow
  <2> QED
    BY <1>2, <2>1 DEF Either, SameNow
<1> QED
  BY <1>1, <1>2

LEMMA HelperStopKeeps ==
  ASSUME PauseInv, PauseHelperStops
  PROVE  PauseInv'
<1>1. /\ Fault /\ blocked' \in {NonePaused, blocked} /\ uncertain' = NoPauses /\ action' = IdleAction
      /\ verdict' = "down" /\ UNCHANGED <<clock, lan, applied, undo>>
      /\ promised' = IF action.step \in Early THEN promised ELSE promised \cup Either
  BY DEF PauseHelperStops, pauseFiles, Early
<1>2. Found' = Found /\ load_pause_record' = Found
  BY <1>1 DEF Found, load_pause_record
<1>3. \E p \in promised' : SameNow(Found, p)
  BY <1>1, FoundIsPossible
<1>4. action'.step = "idle" /\ action' \in Actions
  BY <1>1, IdleTyped
<1>5. promised' \subseteq Pauses /\ promised' # {}
  BY <1>1, <1>3, RecordTyped DEF PauseInv, PauseTyped, Either
<1>6. PauseTyped'
  BY <1>1, <1>4, <1>5, NoneTyped, FaultCounted DEF PauseInv, PauseTyped
<1>7. EarlyRecord'
  BY <1>1, <1>2, <1>3, <1>4 DEF EarlyRecord, AsPromised, SameNow, active_pauses
<1>8. UndoHeld' /\ OneSide' /\ KernelAsAnswered'
  BY <1>1, <1>4 DEF UndoHeld, OneSide, Early, KernelAsAnswered
<1> QED
  BY <1>6, <1>7, <1>8 DEF PauseInv

LEMMA LanKeeps ==
  ASSUME PauseInv, LanMoves
  PROVE  PauseInv'
<1>1. /\ lan' \subseteq Devices
      /\ UNCHANGED <<clock, applied, undo, uncertain, blocked, action, verdict, promised, pauseFaults>>
  BY DEF LanMoves, pauseFiles
<1>2. PauseTyped'
  BY <1>1 DEF PauseInv, PauseTyped
<1>3. EarlyRecord'
  BY <1>1 DEF PauseInv, EarlyRecord, AsPromised, Found, load_pause_record, SameNow, active_pauses
<1>4. UndoHeld' /\ OneSide' /\ KernelAsAnswered'
  BY <1>1 DEF PauseInv, UndoHeld, OneSide, KernelAsAnswered, SameNow, active_pauses
<1> QED
  BY <1>2, <1>3, <1>4 DEF PauseInv

LEMMA ClockKeeps ==
  ASSUME PauseInv, ClockTick
  PROVE  PauseInv'
<1>1. /\ clock \in Int /\ clock' \in Int /\ clock <= clock' /\ clock' \in 0 .. MaxClock
      /\ blocked' = ActiveAt(clock', blocked)
      /\ UNCHANGED <<lan, applied, undo, uncertain, action, verdict, promised, pauseFaults>>
  BY SMT, PauseAssumption DEF PauseInv, PauseTyped, ClockTick, pauseFiles
<1>2. /\ load_pause_record \in Pauses /\ Found \in Pauses /\ action.old \in Pauses /\ action.new \in Pauses
      /\ applied \in Pauses /\ blocked \in Pauses /\ promised \subseteq Pauses
  BY RecordTyped DEF PauseInv, PauseTyped
<1>3. load_pause_record' = load_pause_record /\ Found' = Found
  BY <1>1 DEF load_pause_record, Found
<1>4. \A p, q \in Pauses : ActiveAt(clock, p) = ActiveAt(clock, q) => ActiveAt(clock', p) = ActiveAt(clock', q)
  BY SMT, <1>1, SameLater
<1>5. /\ blocked' \in Pauses
      /\ \A q \in Pauses : ActiveAt(clock, blocked) = ActiveAt(clock, q) => ActiveAt(clock', blocked') = ActiveAt(clock', q)
  BY SMT, <1>1, <1>2, <1>4, ActiveTyped, ActiveLater
<1>6. PauseTyped'
  BY <1>1, <1>5 DEF PauseInv, PauseTyped
<1>7. EarlyRecord'
  <2>1. \A p \in Pauses : AsPromised(p) => \E q \in promised' : ActiveAt(clock', p) = ActiveAt(clock', q)
    BY <1>1, <1>2, <1>4 DEF AsPromised, SameNow, active_pauses
  <2>2. action'.step \in Early => AsPromised(Found)' /\ AsPromised(load_pause_record)'
    BY <1>1, <1>2, <1>3, <2>1 DEF PauseInv, EarlyRecord, AsPromised, SameNow, active_pauses
  <2>3. action'.step \in {"settle", "settled", "change"} =>
          SameNow(action.old, load_pause_record)' /\ SameNow(blocked, action.old)'
    BY <1>1, <1>2, <1>3, <1>4, <1>5 DEF PauseInv, EarlyRecord, SameNow, active_pauses
  <2> QED
    BY <1>1, <1>3, <2>2, <2>3 DEF PauseInv, EarlyRecord
<1>8. UndoHeld'
  BY <1>1 DEF PauseInv, UndoHeld
<1>9. OneSide'
  <2>1. \A p \in {action.old, action.new} : SameNow(applied, p) => ActiveAt(clock', applied') = ActiveAt(clock', p)
    BY <1>1, <1>2, <1>4 DEF SameNow, active_pauses
  <2>2. \A p \in {action.old, action.new} : SameNow(blocked, p) => ActiveAt(clock', blocked') = ActiveAt(clock', p)
    BY <1>2, <1>5 DEF SameNow, active_pauses
  <2>3. OneSide /\ action' = action /\ applied' = applied
    BY <1>1 DEF PauseInv
  <2> QED
    BY <2>1, <2>2, <2>3 DEF OneSide, SameNow, active_pauses
<1>10. KernelAsAnswered'
  BY <1>1, <1>2, <1>5 DEF PauseInv, KernelAsAnswered, SameNow, active_pauses
<1> QED
  BY <1>6, <1>7, <1>8, <1>9, <1>10 DEF PauseInv

LEMMA PauseStep == PauseInv /\ [PauseNext]_pauseVars => PauseInv'
<1> SUFFICES ASSUME PauseInv, [PauseNext]_pauseVars PROVE PauseInv'
  OBVIOUS
<1>1. CASE UNCHANGED pauseVars
  <2>1. UNCHANGED <<clock, lan, applied, undo, uncertain, blocked, action, verdict, promised, pauseFaults>>
    BY <1>1 DEF pauseVars, pauseFiles
  <2>2. PauseTyped'
    BY <2>1 DEF PauseInv, PauseTyped
  <2>3. EarlyRecord'
    BY <2>1 DEF PauseInv, EarlyRecord, AsPromised, Found, load_pause_record, SameNow, active_pauses
  <2>4. UndoHeld' /\ OneSide' /\ KernelAsAnswered'
    BY <2>1 DEF PauseInv, UndoHeld, OneSide, KernelAsAnswered, SameNow, active_pauses
  <2> QED
    BY <2>2, <2>3, <2>4 DEF PauseInv
<1>2. CASE ActionStep
  BY <1>2, ReassertKeeps, SettleKeeps, ChangeKeeps, IntentKeeps, InstallKeeps, CommitNextKeeps,
     UndoIntentKeeps, UndoInstallKeeps, UndoCommitKeeps DEF ActionStep
<1> QED
  BY <1>1, <1>2, RequestKeeps, HelperStopKeeps, RestorePausesKeeps, LanKeeps, ClockKeeps DEF PauseNext

\* Pausing a device (handle_pause_request, its journal and its undo) is sound
\* for every set of devices and every number of failures and restarts: after
\* a certain answer the kernel blocks the devices of the answer, and what a
\* stop at any step leaves on disk is a set of pauses that the answers left
\* possible.
THEOREM PauseIsSound == PauseSpec => []PauseSound
<1>1. PauseInv => PauseSound
  <2> SUFFICES ASSUME PauseInv PROVE PauseSound
    OBVIOUS
  <2>1. PauseTypeOK
    BY DEF PauseInv, PauseTyped, PauseTypeOK, Actions
  <2>2. PauseRecordKept
    BY FoundIsPossible DEF PauseInv, EarlyRecord, AsPromised, PauseRecordKept, Found, Early
  <2> QED
    BY <2>1, <2>2 DEF PauseSound, PauseInv
<1> QED
  BY <1>1, PauseBegins, PauseStep, PTL DEF PauseSpec

-----------------------------------------------------------------------------
(***************************************************************************)
(* RestoreOperation. A completed restore was reached because the request   *)
(* that is about to store it holds recovery_mu on the stored operation and *)
(* has seen the target true (HolderFollows, HolderProved), and the         *)
(* observer saw every such moment (TargetsObserved).                       *)
(***************************************************************************)

Engines == [rev : 1 .. MaxCanon, print : Prints, pending : 0 .. MaxRestores,
            undone : 0 .. MaxRestores, recovery : BOOLEAN]
Filters == [rev : 0 .. MaxPolicy, policy : DnsPolicies, healthy : BOOLEAN,
            updating : Wanted \union {"stale"}, serving : BOOLEAN]
RestoreOps == [id : 0 .. MaxRestores, state : OperationStates, rev : 0 .. MaxCanon + 1,
               print : Prints, dns : Wanted, base : 0 .. MaxPolicy]
Holders == [at : {"idle", "processing", "saving", "dns allowed", "dns start"}, op : RestoreOps]

RestoreTyped ==
  /\ engine \in Engines /\ dns \in Filters /\ restoreOp \in RestoreOps /\ handler \in Holders
  /\ previews \in [Operators -> 0 .. MaxCanon]
  /\ reached \in [net : BOOLEAN, dns : BOOLEAN]

(* The history has seen every moment at which a target was true. *)
TargetsObserved ==
  /\ restoreOp.id # 0 /\ TargetActive(restoreOp, engine) => reached.net
  /\ restoreOp.state = "dns_running" /\ PolicyInstalled(restoreOp, dns) => reached.dns

(* The request that holds recovery_mu works on the stored operation, which is
   not finished while it does, and what it is about to store was reached. *)
HolderFollows ==
  handler.at # "idle" =>
    /\ ~operation_finished(restoreOp.state)
    /\ handler.op.id = restoreOp.id /\ handler.op.rev = restoreOp.rev
    /\ handler.op.print = restoreOp.print /\ handler.op.dns = restoreOp.dns

HolderProved ==
  /\ handler.at \in {"dns allowed", "dns start"} => reached.net
  /\ handler.at = "saving" =>
       /\ handler.op.state \notin {"none", "dns_running"}
       /\ handler.op.state = "completed" => reached.net /\ handler.op.dns = NoPolicy
       /\ handler.op.state = "dns_failed" => reached.net

(* No operation is stored before the first one, and a change that awaits its
   confirmation has its revision reserved. *)
Reserved ==
  /\ restoreOp.id = 0 => restoreOp.state = "none"
  /\ engine.pending # 0 => engine.rev < MaxCanon

RestoreInv ==
  /\ RestoreTyped /\ TargetsObserved /\ HolderFollows /\ HolderProved /\ Reserved
  /\ CompletedWasReached /\ DnsAfterNetwork

LEMMA RestoreNumbers ==
  /\ MAX_PREVIEWS \in Nat /\ MaxCanon \in Nat \ {0} /\ MaxPolicy \in Nat /\ MaxRestores \in Nat
  /\ MaxUpsets \in Nat
BY RestoreAssumption

LEMMA NoRestoreTyped == NoRestore \in RestoreOps /\ Unheld \in Holders
<1>1. 0 \in 0 .. MaxRestores /\ 0 \in 0 .. MaxCanon + 1 /\ 0 \in 0 .. MaxPolicy
  BY SMT, RestoreNumbers
<1>2. NoRestore \in RestoreOps
  BY <1>1, RestoreAssumption DEF NoRestore, RestoreOps, OperationStates, Wanted
<1> QED
  BY <1>2 DEF Unheld, Holders

LEMMA RestoreBegins == RestoreInit => RestoreInv
<1> SUFFICES ASSUME RestoreInit PROVE RestoreInv
  OBVIOUS
<1>1. /\ 0 \in 0 .. MaxRestores /\ 0 \in 0 .. MaxPolicy /\ 1 \in 1 .. MaxCanon /\ 0 \in 0 .. MaxCanon
  BY SMT, RestoreNumbers
<1>2. engine \in Engines
  BY <1>1, RestoreAssumption DEF RestoreInit, Engines
<1>3. dns \in Filters
  BY <1>1, RestoreAssumption DEF RestoreInit, Filters, Wanted
<1>4. RestoreTyped
  BY <1>1, <1>2, <1>3, NoRestoreTyped DEF RestoreInit, RestoreTyped
<1>5. /\ TargetsObserved /\ HolderFollows /\ HolderProved /\ Reserved
      /\ CompletedWasReached /\ DnsAfterNetwork
  BY DEF RestoreInit, NoRestore, Unheld, TargetsObserved, HolderFollows, HolderProved, Reserved,
     CompletedWasReached, DnsAfterNetwork
<1> QED
  BY <1>4, <1>5 DEF RestoreInv

(* What the history promises about an operation record. *)
OperationProved(o) ==
  /\ o.id # 0 /\ TargetActive(o, engine) => reached.net
  /\ o.state = "dns_running" /\ PolicyInstalled(o, dns) => reached.dns
  /\ o.id = 0 => o.state = "none"
  /\ o.state = "completed" => reached.net /\ (o.dns # NoPolicy => reached.dns)
  /\ o.state \in {"dns_running", "dns_failed"} => reached.net

LEMMA StoredProved == ASSUME RestoreInv PROVE OperationProved(restoreOp)
BY DEF RestoreInv, TargetsObserved, Reserved, CompletedWasReached, DnsAfterNetwork, OperationProved

(* What reconcile_operation may answer for an operation that is not finished. *)
LEMMA ReconcileIs ==
  ASSUME NEW o \in RestoreOps, ~operation_finished(o.state), o.id # 0,
         NEW renewed, renewed = recovery_operation(o)
  PROVE  /\ renewed \in RestoreOps
         /\ renewed.id = o.id /\ renewed.rev = o.rev /\ renewed.print = o.print /\ renewed.dns = o.dns /\ renewed.base = o.base
         /\ renewed.state \in {"awaiting_confirmation", "rolled_back", "needs_review", "completed",
                           "dns_failed", "dns_pending", "dns_running"}
         /\ renewed.state \in {"completed", "dns_failed", "dns_pending", "dns_running"} => TargetActive(o, engine)
         /\ renewed.state = "completed" =>
              o.dns = NoPolicy \/ (o.state = "dns_running" /\ PolicyInstalled(o, dns))
         /\ renewed.state = "dns_running" => renewed = o
<1>1. PICK t \in OperationStates :
        /\ renewed = [o EXCEPT !.state = t]
        /\ t \in {"awaiting_confirmation", "rolled_back", "needs_review", "completed",
                  "dns_failed", "dns_pending", "dns_running"}
        /\ t \in {"completed", "dns_failed", "dns_pending", "dns_running"} => TargetActive(o, engine)
        /\ t = "completed" => o.dns = NoPolicy \/ (o.state = "dns_running" /\ PolicyInstalled(o, dns))
        /\ t = "dns_running" => o.state = "dns_running"
  <2>1. renewed = reconcile_restore_operation(o)
    BY DEF recovery_operation
  <2>2. o = [o EXCEPT !.state = o.state]
    BY DEF RestoreOps
  <2>3. CASE engine.pending = o.id
    <3>1. renewed = [o EXCEPT !.state = "awaiting_confirmation"]
      BY <2>1, <2>3 DEF reconcile_restore_operation
    <3> QED
      BY <3>1 DEF OperationStates
  <2>4. CASE engine.pending # o.id /\ ~TargetActive(o, engine)
    <3>1. renewed = [o EXCEPT !.state = "rolled_back"] \/ renewed = [o EXCEPT !.state = "needs_review"]
      BY <2>1, <2>4 DEF reconcile_restore_operation
    <3> QED
      BY <3>1 DEF OperationStates
  <2>5. CASE engine.pending # o.id /\ TargetActive(o, engine) /\ o.dns = NoPolicy
    <3>1. renewed = [o EXCEPT !.state = "completed"]
      BY <2>1, <2>5 DEF reconcile_restore_operation
    <3> QED
      BY <2>5, <3>1 DEF OperationStates
  <2>6. CASE engine.pending # o.id /\ TargetActive(o, engine) /\ o.dns # NoPolicy
    <3>1. \/ renewed = [o EXCEPT !.state = "dns_failed"] \/ renewed = [o EXCEPT !.state = "dns_pending"]
          \/ renewed = o /\ o.state = "dns_running"
          \/ renewed = [o EXCEPT !.state = "completed"] /\ o.state = "dns_running" /\ PolicyInstalled(o, dns)
      BY <2>1, <2>6 DEF reconcile_restore_operation
    <3> QED
      BY <2>2, <2>6, <3>1 DEF OperationStates
  <2> QED
    BY <2>3, <2>4, <2>5, <2>6
<1>2. renewed.state = t /\ renewed \in RestoreOps
  BY <1>1 DEF RestoreOps
<1>3. renewed.id = o.id /\ renewed.rev = o.rev /\ renewed.print = o.print /\ renewed.dns = o.dns /\ renewed.base = o.base
  BY <1>1 DEF RestoreOps
<1>4. t = "dns_running" => renewed = o
  BY SMT, <1>1 DEF RestoreOps
<1> QED
  BY <1>1, <1>2, <1>3, <1>4

(* Storing what reconcile_operation found keeps every promise. *)
LEMMA RetainedProved ==
  ASSUME RestoreInv
  PROVE  /\ Retained(restoreOp) \in RestoreOps /\ OperationProved(Retained(restoreOp))
         /\ Retained(restoreOp).id = restoreOp.id /\ Retained(restoreOp).rev = restoreOp.rev
         /\ Retained(restoreOp).print = restoreOp.print /\ Retained(restoreOp).dns = restoreOp.dns
         /\ operation_finished(restoreOp.state) => Retained(restoreOp) = restoreOp
         /\ ~operation_finished(recovery_operation(restoreOp).state) =>
              ~operation_finished(Retained(restoreOp).state)
<1>1. CASE operation_finished(restoreOp.state)
  BY <1>1, StoredProved DEF Retained, recovery_operation, RestoreInv, RestoreTyped
<1>2. CASE ~operation_finished(restoreOp.state)
  <2> DEFINE renewed == recovery_operation(restoreOp)
  <2>1. restoreOp \in RestoreOps /\ restoreOp.id # 0
    BY <1>2 DEF RestoreInv, RestoreTyped, Reserved, operation_finished
  <2>2. /\ renewed \in RestoreOps
        /\ renewed.id = restoreOp.id /\ renewed.rev = restoreOp.rev /\ renewed.print = restoreOp.print
        /\ renewed.dns = restoreOp.dns /\ renewed.base = restoreOp.base
        /\ renewed.state \in {"completed", "dns_failed", "dns_pending", "dns_running"} => TargetActive(restoreOp, engine)
        /\ renewed.state = "completed" =>
             \/ restoreOp.dns = NoPolicy
             \/ restoreOp.state = "dns_running" /\ PolicyInstalled(restoreOp, dns)
        /\ renewed.state = "dns_running" => renewed = restoreOp
    BY <1>2, <2>1, ReconcileIs
  <2>3. Retained(restoreOp) \in {renewed, restoreOp} /\ (Retained(restoreOp) = restoreOp \/ renewed.state # restoreOp.state)
    BY DEF Retained
  <2> HIDE DEF renewed
  <2>4. OperationProved(renewed)
    BY <2>1, <2>2, StoredProved DEF OperationProved, TargetActive
  <2> QED
    BY <1>2, <2>1, <2>2, <2>3, <2>4, StoredProved DEF renewed
<1> QED
  BY <1>1, <1>2

(* The invariant from the promises about the stored operation. *)
LEMMA FromPromises ==
  ASSUME RestoreTyped', OperationProved(restoreOp)', HolderFollows', HolderProved',
         (engine.pending # 0 => engine.rev < MaxCanon)'
  PROVE  RestoreInv'
BY DEF RestoreInv, TargetsObserved, Reserved, CompletedWasReached, DnsAfterNetwork, OperationProved

LEMMA PreviewKeeps ==
  ASSUME RestoreInv, NEW s \in Operators, recovery_preview(s)
  PROVE  RestoreInv'
<1>1. UNCHANGED <<engine, dns, restoreOp, handler, reached>>
  BY DEF recovery_preview
<1>2. previews' \in [Operators -> 0 .. MaxCanon]
  <2>1. engine.rev \in 0 .. MaxCanon /\ 0 \in 0 .. MaxCanon
    BY SMT, RestoreNumbers DEF RestoreInv, RestoreTyped, Engines
  <2> QED
    BY <2>1 DEF recovery_preview, RestoreInv, RestoreTyped
<1> QED
  BY ZenonT(30), <1>1, <1>2 DEF RestoreInv, RestoreTyped, TargetsObserved, TargetActive, PolicyInstalled, HolderFollows,
     HolderProved, Reserved, CompletedWasReached, DnsAfterNetwork

(* A new operation is stored with its own history. *)
LEMMA SubmissionIs ==
  ASSUME RestoreInv, NEW base \in 0 .. MaxCanon, NEW p \in Prints, NEW want \in Wanted,
         restoreOp.id < MaxRestores, NEW o, o = Submission(base, p, want)
  PROVE  o \in RestoreOps /\ o.id # 0 /\ o.state = "applying"
<1>1. base + 1 \in 0 .. MaxCanon + 1 /\ restoreOp.id + 1 \in 0 .. MaxRestores /\ restoreOp.id + 1 # 0
  BY SMT, RestoreNumbers DEF RestoreInv, RestoreTyped, RestoreOps
<1>2. o = [id |-> restoreOp.id + 1, state |-> "applying", rev |-> base + 1, print |-> p, dns |-> want,
           base |-> 0]
  BY DEF Submission, NoRestore
<1>3. 0 \in 0 .. MaxPolicy
  BY SMT, RestoreNumbers
<1> QED
  BY SMT, <1>1, <1>2, <1>3 DEF RestoreOps, OperationStates

LEMMA BeginRestoreKeeps ==
  ASSUME RestoreInv, NEW base \in 0 .. MaxCanon, NEW policies \in SUBSET Wanted, BeginRecovery(base, policies),
         UNCHANGED <<engine, dns>>, previews' \in [Operators -> 0 .. MaxCanon], handler.at = "idle"
  PROVE  RestoreInv'
<1>1. CASE UNCHANGED <<restoreOp, handler, reached>>
  BY <1>1 DEF RestoreInv, RestoreTyped, TargetsObserved, TargetActive, PolicyInstalled, HolderFollows,
     HolderProved, Reserved, CompletedWasReached, DnsAfterNetwork
<1>2. CASE restoreOp' = Retained(restoreOp) /\ UNCHANGED <<handler, reached>>
  <2>1. RestoreTyped'
    BY <1>2, RetainedProved DEF RestoreInv, RestoreTyped
  <2>2. OperationProved(restoreOp)'
    BY <1>2, RetainedProved DEF OperationProved, TargetActive, PolicyInstalled
  <2> QED
    BY <1>2, <2>1, <2>2, FromPromises DEF RestoreInv, HolderFollows, HolderProved, Reserved
<1>3. CASE \E p \in Prints, want \in policies :
             LET o == Submission(base, p, want)
             IN  /\ restoreOp' = o /\ restoreOp.id < MaxRestores
                 /\ handler' = [at |-> "processing", op |-> o]
                 /\ reached' = [net |-> TargetActive(o, engine), dns |-> FALSE]
  <2>1. PICK p \in Prints, want \in Wanted :
          /\ restoreOp' = Submission(base, p, want) /\ restoreOp.id < MaxRestores
          /\ handler' = [at |-> "processing", op |-> restoreOp']
          /\ reached' = [net |-> TargetActive(restoreOp', engine), dns |-> FALSE]
    BY <1>3
  <2>2. restoreOp' \in RestoreOps /\ restoreOp'.id # 0 /\ restoreOp'.state = "applying"
    BY <2>1, SubmissionIs
  <2>3. RestoreTyped'
    <3>1. handler' \in Holders
      BY <2>1, <2>2 DEF Holders
    <3>2. reached' \in [net : BOOLEAN, dns : BOOLEAN]
      BY <2>1 DEF TargetActive
    <3> QED
      BY <2>2, <3>1, <3>2 DEF RestoreInv, RestoreTyped
  <2>4. OperationProved(restoreOp)'
    BY <2>1, <2>2 DEF OperationProved, TargetActive
  <2>5. HolderFollows' /\ HolderProved'
    BY <2>1, <2>2 DEF HolderFollows, HolderProved, operation_finished
  <2> QED
    BY <2>3, <2>4, <2>5, FromPromises DEF RestoreInv, Reserved
<1> QED
  BY <1>1, <1>2, <1>3 DEF BeginRecovery

LEMMA ApplyKeeps ==
  ASSUME RestoreInv, (\E s \in Operators : apply_recovery_preview(s)) \/ handle_restore_snapshot
  PROVE  RestoreInv'
<1>1. engine.rev \in 0 .. MaxCanon /\ 0 \in 0 .. MaxCanon /\ NoPolicy \in Wanted
  BY SMT, RestoreNumbers DEF RestoreInv, RestoreTyped, Engines, Wanted
<1>2. CASE \E s \in Operators : apply_recovery_preview(s)
  <2>1. PICK s \in Operators : apply_recovery_preview(s)
    BY <1>2
  <2>2. /\ previews' \in [Operators -> 0 .. MaxCanon] /\ previews[s] \in 0 .. MaxCanon
        /\ handler.at = "idle" /\ UNCHANGED <<engine, dns>>
    BY <1>1, <2>1 DEF apply_recovery_preview, RestoreInv, RestoreTyped
  <2>3. CASE BeginRecovery(previews[s], Wanted)
    BY <2>2, <2>3, BeginRestoreKeeps
  <2>4. CASE UNCHANGED <<restoreOp, handler, reached>>
    BY <2>2, <2>4 DEF RestoreInv, RestoreTyped, TargetsObserved, TargetActive, PolicyInstalled, HolderFollows,
       HolderProved, Reserved, CompletedWasReached, DnsAfterNetwork
  <2> QED
    BY <2>1, <2>3, <2>4 DEF apply_recovery_preview
<1>3. CASE handle_restore_snapshot
  <2>1. /\ BeginRecovery(engine.rev, {NoPolicy}) /\ handler.at = "idle" /\ UNCHANGED <<engine, dns, previews>>
    BY <1>3 DEF handle_restore_snapshot
  <2>2. {NoPolicy} \in SUBSET Wanted /\ previews' \in [Operators -> 0 .. MaxCanon]
    BY <1>1, <2>1 DEF RestoreInv, RestoreTyped
  <2> QED
    BY <1>1, <2>1, <2>2, BeginRestoreKeeps
<1> QED
  BY <1>2, <1>3

(* What the history becomes, and that it forgets nothing. *)
LEMMA ObserveIs ==
  ASSUME reached \in [net : BOOLEAN, dns : BOOLEAN], NEW o, NEW e, NEW d, d.healthy \in BOOLEAN,
         NEW h, h = Observe(o, e, d)
  PROVE  /\ h \in [net : BOOLEAN, dns : BOOLEAN]
         /\ h.net = (reached.net \/ (o.id # 0 /\ TargetActive(o, e)))
         /\ h.dns = (reached.dns \/ (o.state = "dns_running" /\ PolicyInstalled(o, d)))
BY DEF Observe, TargetActive, PolicyInstalled

LEMMA CommittedIs ==
  ASSUME NEW e \in Engines, e.rev < MaxCanon, NEW p \in Prints, NEW doubt \in BOOLEAN
  PROVE  /\ Committed(e, p, doubt) \in Engines /\ Committed(e, p, doubt).rev = e.rev + 1
         /\ Committed(e, p, doubt).print = p /\ Committed(e, p, doubt).pending = 0
<1>1. e.rev + 1 \in 1 .. MaxCanon /\ 0 \in 0 .. MaxRestores
  BY SMT, RestoreNumbers DEF Engines
<1>2. Committed(e, p, doubt) \in Engines
  BY <1>1 DEF Committed, Engines
<1>3. Committed(e, p, doubt).rev = e.rev + 1
  BY DEF Committed, Engines
<1>4. Committed(e, p, doubt).print = p /\ Committed(e, p, doubt).pending = 0
  BY DEF Committed, Engines
<1> QED
  BY <1>2, <1>3, <1>4

(* The engine moves while the stored operation stays. *)
LEMMA EngineMovesKeep ==
  ASSUME RestoreInv, NEW e \in Engines, e.pending # 0 => e.rev < MaxCanon, EngineTo(e)
  PROVE  RestoreInv'
<1>1. engine' = e /\ reached' = Observe(restoreOp, e, dns) /\ UNCHANGED <<dns, restoreOp, previews, handler>>
  BY DEF EngineTo
<1>2. dns.healthy \in BOOLEAN /\ reached \in [net : BOOLEAN, dns : BOOLEAN]
  BY DEF RestoreInv, RestoreTyped, Filters
<1>3. /\ reached' \in [net : BOOLEAN, dns : BOOLEAN]
      /\ reached'.net = (reached.net \/ (restoreOp.id # 0 /\ TargetActive(restoreOp, e)))
      /\ reached'.dns = (reached.dns \/ (restoreOp.state = "dns_running" /\ PolicyInstalled(restoreOp, dns)))
  BY SMT, <1>1, <1>2, ObserveIs
<1>4. RestoreTyped'
  BY <1>1, <1>3 DEF RestoreInv, RestoreTyped
<1>5. OperationProved(restoreOp)'
  BY <1>1, <1>3, StoredProved DEF OperationProved, TargetActive, PolicyInstalled
<1>6. HolderFollows' /\ HolderProved'
  BY <1>1, <1>3 DEF RestoreInv, HolderFollows, HolderProved
<1> QED
  BY <1>1, <1>4, <1>5, <1>6, FromPromises

LEMMA EngineActionsKeep ==
  ASSUME RestoreInv, OtherChange \/ confirm \/ rollback_restored \/ reconcile
  PROVE  RestoreInv'
<1>1. engine \in Engines /\ restoreOp.print \in Prints /\ (engine.pending # 0 => engine.rev < MaxCanon)
  BY DEF RestoreInv, RestoreTyped, RestoreOps, Reserved
<1>2. CASE OtherChange
  <2>1. PICK p \in Prints : EngineTo(Committed(engine, p, FALSE)) /\ engine.rev < MaxCanon
    BY <1>2 DEF OtherChange
  <2>2. Committed(engine, p, FALSE) \in Engines /\ Committed(engine, p, FALSE).pending = 0
    BY <1>1, <2>1, CommittedIs
  <2> QED
    BY <2>1, <2>2, EngineMovesKeep
<1>3. CASE confirm
  <2>0. engine.rev < MaxCanon
    BY <1>1, <1>3 DEF confirm
  <2>1. PICK doubt \in BOOLEAN : EngineTo(Committed(engine, restoreOp.print, doubt))
    BY <1>3 DEF confirm
  <2>2. /\ Committed(engine, restoreOp.print, doubt) \in Engines
        /\ Committed(engine, restoreOp.print, doubt).pending = 0
    BY <1>1, <2>0, CommittedIs
  <2> QED
    BY <2>1, <2>2, EngineMovesKeep
<1>4. CASE rollback_restored
  <2> DEFINE e == [engine EXCEPT !.pending = 0, !.undone = engine.pending]
  <2>0. 0 \in 0 .. MaxRestores
    BY SMT, RestoreNumbers
  <2>1. e \in Engines /\ e.pending = 0
    BY <1>1, <2>0 DEF Engines
  <2> QED
    BY <1>4, <2>1, EngineMovesKeep DEF rollback_restored
<1>5. CASE reconcile
  <2> DEFINE e == [engine EXCEPT !.recovery = FALSE]
  <2>1. e \in Engines /\ e.pending = engine.pending /\ e.rev = engine.rev
    BY <1>1 DEF Engines
  <2> QED
    BY <1>1, <1>5, <2>1, EngineMovesKeep DEF reconcile
<1> QED
  BY <1>2, <1>3, <1>4, <1>5

LEMMA InstalledIs ==
  ASSUME dns \in Filters, dns.updating \in DnsPolicies, dns.rev < MaxPolicy
  PROVE  Installed \in Filters
<1>1. dns.rev + 1 \in 0 .. MaxPolicy
  BY SMT, RestoreNumbers DEF Filters
<1>2. NoPolicy \in Wanted \union {"stale"}
  BY DEF Wanted
<1> QED
  BY <1>1, <1>2 DEF Installed, Filters

(* The DNS filter moves while the stored operation stays. *)
LEMMA FilterMoves ==
  ASSUME RestoreInv, NEW d \in Filters, DnsTo(d)
  PROVE  RestoreInv'
<1>1. dns' = d /\ reached' = Observe(restoreOp, engine, d) /\ UNCHANGED <<engine, restoreOp, previews, handler>>
  BY DEF DnsTo
<1>2. d.healthy \in BOOLEAN /\ reached \in [net : BOOLEAN, dns : BOOLEAN]
  BY DEF RestoreInv, RestoreTyped, Filters
<1>3. /\ reached' \in [net : BOOLEAN, dns : BOOLEAN]
      /\ reached'.net = (reached.net \/ (restoreOp.id # 0 /\ TargetActive(restoreOp, engine)))
      /\ reached'.dns = (reached.dns \/ (restoreOp.state = "dns_running" /\ PolicyInstalled(restoreOp, d)))
  BY SMT, <1>1, <1>2, ObserveIs
<1>4. RestoreTyped'
  BY <1>1, <1>3 DEF RestoreInv, RestoreTyped
<1>5. OperationProved(restoreOp)'
  BY <1>1, <1>3, StoredProved DEF OperationProved, TargetActive, PolicyInstalled
<1>6. HolderFollows' /\ HolderProved'
  BY <1>1, <1>3 DEF RestoreInv, HolderFollows, HolderProved
<1> QED
  BY <1>1, <1>4, <1>5, <1>6, FromPromises DEF RestoreInv, Reserved

LEMMA FilterActionsKeep ==
  ASSUME RestoreInv, OtherDnsChange \/ DnsEnds
  PROVE  RestoreInv'
<1>1. dns \in Filters /\ NoPolicy \in Wanted
  BY DEF RestoreInv, RestoreTyped, Wanted
<1>2. CASE OtherDnsChange
  <2>1. PICK p \in DnsPolicies : DnsTo([dns EXCEPT !.updating = p])
    BY <1>2 DEF OtherDnsChange
  <2>2. [dns EXCEPT !.updating = p] \in Filters
    BY <1>1 DEF Filters, Wanted
  <2> QED
    BY <2>1, <2>2, FilterMoves
<1>3. CASE dns.updating \in DnsPolicies /\ dns.rev < MaxPolicy /\ DnsTo(Installed)
  BY <1>1, <1>3, InstalledIs, FilterMoves
<1>4. CASE \E h \in {FALSE, dns.healthy} : DnsTo([dns EXCEPT !.healthy = h, !.updating = NoPolicy])
  <2>1. PICK h \in BOOLEAN : DnsTo([dns EXCEPT !.healthy = h, !.updating = NoPolicy])
    BY <1>1, <1>4 DEF Filters
  <2>2. [dns EXCEPT !.healthy = h, !.updating = NoPolicy] \in Filters
    BY <1>1 DEF Filters
  <2> QED
    BY <2>1, <2>2, FilterMoves
<1> QED
  BY <1>2, <1>3, <1>4 DEF DnsEnds

(* The engine's answer to a restore: what became canonical was observed, and a
   restore without a DNS policy is completed only when it did. *)
LEMMA ProcessKeeps ==
  ASSUME RestoreInv, process_transaction
  PROVE  RestoreInv'
<1> DEFINE o == handler.op
<1>1. /\ handler.at = "processing" /\ UNCHANGED <<dns, restoreOp, previews>>
      /\ engine \in Engines /\ o \in RestoreOps /\ dns.healthy \in BOOLEAN
      /\ reached \in [net : BOOLEAN, dns : BOOLEAN] /\ restoreOp \in RestoreOps
  BY DEF process_transaction, RestoreInv, RestoreTyped, Holders, Filters
<1>2. /\ ~operation_finished(restoreOp.state) /\ restoreOp.id # 0
      /\ o.id = restoreOp.id /\ o.rev = restoreOp.rev /\ o.print = restoreOp.print /\ o.dns = restoreOp.dns
  BY <1>1 DEF RestoreInv, HolderFollows, Reserved, operation_finished
<1>3. \E e \in Engines, t \in {"failed", "completed", "dns_pending", "awaiting_confirmation"} :
        /\ engine' = e /\ (e.pending # 0 => e.rev < MaxCanon)
        /\ handler' = [at |-> "saving", op |-> [o EXCEPT !.state = t]]
        /\ reached' = Observe(o, e, dns)
        /\ t = "completed" => o.dns = NoPolicy /\ TargetActive(o, e)
  <2> DEFINE accepted == engine.pending = 0 /\ ~engine.recovery /\ engine.rev + 1 = o.rev
             Done(e, state) ==
                 /\ engine' = e
                 /\ handler' = [at |-> "saving", op |-> [o EXCEPT !.state = state]]
                 /\ reached' = Observe(o, e, dns)
  <2>1. CASE Done(engine, "failed")
    BY <1>1, <2>1 DEF RestoreInv, Reserved
  <2>2. CASE accepted /\ Done([engine EXCEPT !.undone = o.id], "failed")
    <3>1. [engine EXCEPT !.undone = o.id] \in Engines /\ [engine EXCEPT !.undone = o.id].pending = 0
      BY <1>1, <2>2 DEF Engines, RestoreOps
    <3> QED
      BY <2>2, <3>1
  <2>3. CASE /\ accepted /\ engine.rev < MaxCanon
             /\ Done(Committed(engine, o.print, FALSE), IF o.dns = NoPolicy THEN "completed" ELSE "dns_pending")
    <3>1. /\ Committed(engine, o.print, FALSE) \in Engines
          /\ Committed(engine, o.print, FALSE).rev = o.rev /\ Committed(engine, o.print, FALSE).print = o.print
          /\ Committed(engine, o.print, FALSE).pending = 0
      <4>1. o.print \in Prints
        BY <1>1 DEF RestoreOps
      <4> QED
        BY <1>1, <2>3, <4>1, CommittedIs
    <3> QED
      BY <2>3, <3>1 DEF TargetActive
  <2>4. CASE /\ accepted /\ engine.rev < MaxCanon
             /\ Done([engine EXCEPT !.pending = o.id, !.undone = 0], "awaiting_confirmation")
    <3>0. 0 \in 0 .. MaxRestores
      BY SMT, RestoreNumbers
    <3>1. /\ [engine EXCEPT !.pending = o.id, !.undone = 0] \in Engines
          /\ [engine EXCEPT !.pending = o.id, !.undone = 0].rev = engine.rev
      BY <1>1, <3>0 DEF Engines, RestoreOps
    <3> QED
      BY <2>4, <3>1
  <2>5. CASE accepted /\ Done([engine EXCEPT !.recovery = TRUE, !.undone = 0], "failed")
    <3>0. 0 \in 0 .. MaxRestores
      BY SMT, RestoreNumbers
    <3>1. /\ [engine EXCEPT !.recovery = TRUE, !.undone = 0] \in Engines
          /\ [engine EXCEPT !.recovery = TRUE, !.undone = 0].pending = 0
      BY <1>1, <2>5, <3>0 DEF Engines
    <3> QED
      BY <2>5, <3>1
  <2>6. CASE accepted /\ engine.rev < MaxCanon /\ Done(Committed(engine, o.print, TRUE), "failed")
    <3>1. Committed(engine, o.print, TRUE) \in Engines /\ Committed(engine, o.print, TRUE).pending = 0
      <4>1. o.print \in Prints
        BY <1>1 DEF RestoreOps
      <4> QED
        BY <1>1, <2>6, <4>1, CommittedIs
    <3> QED
      BY <2>6, <3>1
  <2> QED
    BY <2>1, <2>2, <2>3, <2>4, <2>5, <2>6 DEF process_transaction
<1>4. PICK e \in Engines, t \in {"failed", "completed", "dns_pending", "awaiting_confirmation"} :
        /\ engine' = e /\ (e.pending # 0 => e.rev < MaxCanon)
        /\ handler' = [at |-> "saving", op |-> [o EXCEPT !.state = t]]
        /\ reached' = Observe(o, e, dns)
        /\ t = "completed" => o.dns = NoPolicy /\ TargetActive(o, e)
  BY <1>3
<1>5. /\ reached' \in [net : BOOLEAN, dns : BOOLEAN]
      /\ reached'.net = (reached.net \/ (o.id # 0 /\ TargetActive(o, e)))
      /\ reached'.dns = (reached.dns \/ (o.state = "dns_running" /\ PolicyInstalled(o, dns)))
  BY SMT, <1>1, <1>4, ObserveIs
<1>6. /\ handler'.at = "saving" /\ handler'.op.state = t /\ handler'.op.id = o.id /\ handler'.op.rev = o.rev
      /\ handler'.op.print = o.print /\ handler'.op.dns = o.dns /\ handler' \in Holders
  BY <1>1, <1>4 DEF RestoreOps, Holders, OperationStates
<1> HIDE DEF o
<1>7. RestoreTyped'
  BY <1>1, <1>4, <1>5, <1>6 DEF RestoreInv, RestoreTyped
<1>8. OperationProved(restoreOp)'
  BY <1>1, <1>2, <1>4, <1>5, StoredProved DEF OperationProved, TargetActive, PolicyInstalled
<1>9. HolderFollows' /\ HolderProved'
  BY <1>1, <1>2, <1>4, <1>5, <1>6 DEF HolderFollows, HolderProved
<1> QED
  BY <1>4, <1>7, <1>8, <1>9, FromPromises

LEMMA SaveKeeps ==
  ASSUME RestoreInv, SaveOutcome
  PROVE  RestoreInv'
<1>1. /\ handler.at = "saving" /\ handler' = Unheld /\ UNCHANGED <<engine, dns, previews, reached>>
      /\ restoreOp' \in {handler.op, restoreOp}
  BY DEF SaveOutcome
<1>2. RestoreTyped'
  BY <1>1, NoRestoreTyped DEF RestoreInv, RestoreTyped, Holders
<1>3. OperationProved(restoreOp)'
  <2>1. OperationProved(handler.op)
    BY <1>1, StoredProved DEF RestoreInv, HolderFollows, HolderProved, Reserved, operation_finished,
       OperationProved, TargetActive
  <2> QED
    BY <1>1, <2>1, StoredProved DEF OperationProved, TargetActive, PolicyInstalled
<1> QED
  BY <1>1, <1>2, <1>3, FromPromises DEF RestoreInv, HolderFollows, HolderProved, Reserved, Unheld

LEMMA RecoveryStatusKeeps ==
  ASSUME RestoreInv, handle_recovery_status \/ CheckDns \/ handle_recovery_dismiss
  PROVE  RestoreInv'
<1>1. handler.at = "idle" /\ UNCHANGED <<engine, dns, previews, reached>>
  BY DEF handle_recovery_status, CheckDns, handle_recovery_dismiss
<1>2. CASE restoreOp' = Retained(restoreOp) /\ handler'.at = "idle" /\ handler' \in Holders
  <2>1. RestoreTyped'
    BY <1>1, <1>2, RetainedProved DEF RestoreInv, RestoreTyped
  <2>2. OperationProved(restoreOp)'
    BY <1>1, <1>2, RetainedProved DEF OperationProved, TargetActive, PolicyInstalled
  <2> QED
    BY <1>1, <1>2, <2>1, <2>2, FromPromises DEF RestoreInv, HolderFollows, HolderProved, Reserved
<1>3. CASE CheckDns /\ DnsAllowed /\ handler' = [at |-> "dns allowed", op |-> recovery_operation(restoreOp)]
  <2> DEFINE renewed == recovery_operation(restoreOp)
  <2>1. restoreOp \in RestoreOps /\ restoreOp.id # 0 /\ ~operation_finished(restoreOp.state)
        /\ restoreOp' = Retained(restoreOp)
    BY <1>3 DEF CheckDns, RestoreInv, RestoreTyped
  <2>2. renewed.state \in {"dns_pending", "dns_failed"}
    BY <1>3 DEF DnsAllowed
  <2>3. /\ renewed \in RestoreOps /\ renewed.id = restoreOp.id /\ renewed.rev = restoreOp.rev /\ renewed.print = restoreOp.print
        /\ renewed.dns = restoreOp.dns /\ TargetActive(restoreOp, engine)
    BY <2>1, <2>2, ReconcileIs
  <2>4. reached.net
    BY <2>1, <2>3, StoredProved DEF OperationProved
  <2>5. ~operation_finished(restoreOp'.state)
    BY <2>1, <2>2, RetainedProved DEF operation_finished
  <2> HIDE DEF renewed
  <2>6. handler'.at = "dns allowed" /\ handler'.op = renewed /\ handler' \in Holders
    BY <1>3, <2>3 DEF renewed, Holders
  <2>7. RestoreTyped'
    BY <1>1, <2>1, <2>6, RetainedProved DEF RestoreInv, RestoreTyped
  <2>8. OperationProved(restoreOp)'
    BY <1>1, <2>1, RetainedProved DEF OperationProved, TargetActive, PolicyInstalled
  <2>9. HolderFollows' /\ HolderProved'
    BY <1>1, <2>1, <2>3, <2>4, <2>5, <2>6, RetainedProved DEF HolderFollows, HolderProved
  <2> QED
    BY <1>1, <2>7, <2>8, <2>9, FromPromises DEF RestoreInv, Reserved
<1>4. CASE handle_recovery_dismiss /\ restoreOp' = [recovery_operation(restoreOp) EXCEPT !.state = "dismissed", !.dns = NoPolicy]
  <2> DEFINE renewed == recovery_operation(restoreOp)
  <2>1. restoreOp \in RestoreOps /\ restoreOp.id # 0 /\ handler' = handler
    BY <1>4 DEF handle_recovery_dismiss, RestoreInv, RestoreTyped
  <2>2. /\ renewed \in RestoreOps /\ renewed.id = restoreOp.id /\ renewed.rev = restoreOp.rev /\ renewed.print = restoreOp.print
    BY <2>1, ReconcileIs DEF recovery_operation
  <2> HIDE DEF renewed
  <2>3. NoPolicy \in Wanted /\ "dismissed" \in OperationStates
    BY DEF Wanted, OperationStates
  <2>4. /\ restoreOp' \in RestoreOps /\ restoreOp'.id = restoreOp.id /\ restoreOp'.rev = restoreOp.rev
        /\ restoreOp'.print = restoreOp.print /\ restoreOp'.state = "dismissed"
    BY <1>4, <2>2, <2>3 DEF renewed, RestoreOps
  <2>5. RestoreTyped'
    BY <1>1, <2>1, <2>4 DEF RestoreInv, RestoreTyped
  <2>6. OperationProved(restoreOp)'
    BY <1>1, <2>1, <2>4, StoredProved DEF OperationProved, TargetActive
  <2> QED
    BY <1>1, <2>1, <2>5, <2>6, FromPromises DEF RestoreInv, HolderFollows, HolderProved, Reserved
<1>5. Unheld.at = "idle" /\ Unheld \in Holders /\ handler \in Holders
  BY NoRestoreTyped DEF Unheld, RestoreInv, RestoreTyped
<1> QED
  BY <1>1, <1>2, <1>3, <1>4, <1>5 DEF handle_recovery_status, CheckDns, handle_recovery_dismiss

LEMMA RecordPolicyKeeps ==
  ASSUME RestoreInv, RecordDns
  PROVE  RestoreInv'
<1>1. handler.at = "dns allowed" /\ UNCHANGED <<engine, dns, previews, reached>>
  BY DEF RecordDns
<1>2. CASE handler' = Unheld /\ UNCHANGED restoreOp
  <2>1. RestoreTyped'
    BY <1>1, <1>2, NoRestoreTyped DEF RestoreInv, RestoreTyped
  <2>2. OperationProved(restoreOp)'
    BY <1>1, <1>2, StoredProved DEF OperationProved, TargetActive, PolicyInstalled
  <2> QED
    BY <1>1, <1>2, <2>1, <2>2, FromPromises DEF RestoreInv, HolderFollows, HolderProved, Reserved, Unheld
<1>3. CASE /\ restoreOp' = [handler.op EXCEPT !.state = "dns_running", !.base = dns.rev]
           /\ handler' = [at |-> "dns start", op |-> [handler.op EXCEPT !.state = "dns_running", !.base = dns.rev]]
  <2>1. handler.op \in RestoreOps /\ dns.rev \in 0 .. MaxPolicy /\ "dns_running" \in OperationStates
    BY DEF RestoreInv, RestoreTyped, Holders, Filters, OperationStates
  <2>2. /\ restoreOp' \in RestoreOps /\ restoreOp'.state = "dns_running" /\ restoreOp'.base = dns.rev
        /\ restoreOp'.id = handler.op.id /\ restoreOp'.rev = handler.op.rev /\ restoreOp'.print = handler.op.print
        /\ handler'.at = "dns start" /\ handler'.op = restoreOp'
    BY <1>3, <2>1 DEF RestoreOps
  <2>3. handler' \in Holders
    BY <1>3, <2>2 DEF Holders
  <2>4. RestoreTyped'
    BY <1>1, <2>2, <2>3 DEF RestoreInv, RestoreTyped
  <2>5. reached.net /\ handler.op.id # 0
    BY <1>1 DEF RestoreInv, HolderProved, HolderFollows, Reserved, operation_finished
  <2>6. OperationProved(restoreOp)'
    <3>1. ~PolicyInstalled(restoreOp', dns)
      <4>1. ~(dns.rev > dns.rev)
        BY SMT, <2>1
      <4> QED
        BY <2>2, <4>1 DEF PolicyInstalled
    <3> QED
      BY <1>1, <2>2, <2>5, <3>1 DEF OperationProved, PolicyInstalled
  <2>7. HolderFollows' /\ HolderProved'
    BY <1>1, <2>2, <2>5 DEF HolderFollows, HolderProved, operation_finished
  <2> QED
    BY <1>1, <2>4, <2>6, <2>7, FromPromises DEF RestoreInv, Reserved
<1> QED
  BY <1>2, <1>3 DEF RecordDns

LEMMA StartDnsKeeps ==
  ASSUME RestoreInv, StartDns
  PROVE  RestoreInv'
<1>1. handler.at = "dns start" /\ UNCHANGED <<engine, restoreOp, previews, reached>>
  BY DEF StartDns
<1>2. restoreOp \in RestoreOps /\ dns \in Filters /\ reached.net
  BY <1>1 DEF RestoreInv, RestoreTyped, HolderProved
<1>3. CASE /\ handler' = Unheld
           /\ dns' = [dns EXCEPT !.updating = IF restoreOp.base = dns.rev THEN restoreOp.dns ELSE "stale"]
  <2>1. dns' \in Filters
    BY <1>2, <1>3 DEF Filters, RestoreOps
  <2>2. dns'.healthy = dns.healthy /\ dns'.rev = dns.rev /\ dns'.policy = dns.policy
    BY <1>2, <1>3 DEF Filters
  <2>3. RestoreTyped'
    BY <1>1, <1>3, <2>1, NoRestoreTyped DEF RestoreInv, RestoreTyped
  <2>4. OperationProved(restoreOp)'
    BY <1>1, <2>2, StoredProved DEF OperationProved, TargetActive, PolicyInstalled
  <2> QED
    BY <1>1, <1>3, <2>3, <2>4, FromPromises DEF RestoreInv, HolderFollows, HolderProved, Reserved, Unheld
<1>4. CASE /\ handler' = [at |-> "saving", op |-> [restoreOp EXCEPT !.state = "dns_failed"]]
           /\ UNCHANGED dns
  <2>1. /\ handler'.at = "saving" /\ handler'.op.state = "dns_failed" /\ handler'.op.id = restoreOp.id
        /\ handler'.op.rev = restoreOp.rev /\ handler'.op.print = restoreOp.print
        /\ handler'.op.dns = restoreOp.dns /\ handler' \in Holders
    BY <1>2, <1>4 DEF RestoreOps, Holders, OperationStates
  <2>2. RestoreTyped'
    BY <1>1, <1>4, <2>1 DEF RestoreInv, RestoreTyped
  <2>3. OperationProved(restoreOp)'
    BY <1>1, <1>4, StoredProved DEF OperationProved, TargetActive, PolicyInstalled
  <2>4. HolderFollows' /\ HolderProved'
    BY <1>1, <1>2, <2>1 DEF RestoreInv, HolderFollows, HolderProved
  <2> QED
    BY <1>1, <2>2, <2>3, <2>4, FromPromises DEF RestoreInv, Reserved
<1> QED
  BY <1>3, <1>4 DEF StartDns

LEMMA RestartKeeps ==
  ASSUME RestoreInv, RestoreDaemonRestarts
  PROVE  RestoreInv'
<1>1. /\ handler' = Unheld /\ UNCHANGED restoreOp /\ previews' = [s \in Operators |-> 0]
      /\ engine' = [engine EXCEPT !.pending = 0, !.undone = 0, !.recovery = FALSE]
      /\ restoreOp \in RestoreOps /\ engine \in Engines /\ dns \in Filters
      /\ reached \in [net : BOOLEAN, dns : BOOLEAN]
  BY DEF RestoreDaemonRestarts, RestoreInv, RestoreTyped
<1>2. PICK serving \in BOOLEAN, d \in Filters :
        /\ dns' = [d EXCEPT !.updating = NoPolicy, !.serving = serving]
        /\ reached' = Observe(restoreOp, engine, d)
  BY <1>1, InstalledIs DEF RestoreDaemonRestarts
<1>3. 0 \in 0 .. MaxRestores /\ 0 \in 0 .. MaxCanon /\ NoPolicy \in Wanted
  BY SMT, RestoreNumbers DEF Wanted
<1>4. engine' \in Engines /\ engine'.pending = 0 /\ engine'.rev = engine.rev /\ engine'.print = engine.print
  BY <1>1, <1>3 DEF Engines
<1>5. dns' \in Filters /\ dns'.healthy = d.healthy /\ dns'.rev = d.rev /\ dns'.policy = d.policy
  BY <1>2, <1>3 DEF Filters
<1>6. d.healthy \in BOOLEAN
  BY DEF Filters
<1>7. /\ reached' \in [net : BOOLEAN, dns : BOOLEAN]
      /\ reached'.net = (reached.net \/ (restoreOp.id # 0 /\ TargetActive(restoreOp, engine)))
      /\ reached'.dns = (reached.dns \/ (restoreOp.state = "dns_running" /\ PolicyInstalled(restoreOp, d)))
  BY SMT, <1>1, <1>2, <1>6, ObserveIs
<1>8. RestoreTyped'
  BY <1>1, <1>3, <1>4, <1>5, <1>7, NoRestoreTyped DEF RestoreTyped
<1>9. OperationProved(restoreOp)'
  BY <1>1, <1>4, <1>5, <1>7, StoredProved DEF OperationProved, TargetActive, PolicyInstalled
<1> QED
  BY <1>1, <1>4, <1>8, <1>9, FromPromises DEF HolderFollows, HolderProved, Unheld

LEMMA RestoreStep == RestoreInv /\ [RestoreNext]_restoreVars => RestoreInv'
<1> SUFFICES ASSUME RestoreInv, [RestoreNext]_restoreVars
             PROVE  RestoreInv'
  OBVIOUS
<1>1. CASE \E s \in Operators : recovery_preview(s)
  BY <1>1, PreviewKeeps
<1>2. CASE (\E s \in Operators : apply_recovery_preview(s)) \/ handle_restore_snapshot
  BY <1>2, ApplyKeeps
<1>3. CASE process_transaction \/ SaveOutcome
  BY <1>3, ProcessKeeps, SaveKeeps
<1>4. CASE handle_recovery_status \/ CheckDns \/ handle_recovery_dismiss
  BY <1>4, RecoveryStatusKeeps
<1>5. CASE RecordDns \/ StartDns
  BY <1>5, RecordPolicyKeeps, StartDnsKeeps
<1>6. CASE OtherChange \/ confirm \/ rollback_restored \/ reconcile
  BY <1>6, EngineActionsKeep
<1>7. CASE OtherDnsChange \/ DnsEnds
  BY <1>7, FilterActionsKeep
<1>8. CASE RestoreDaemonRestarts
  BY <1>8, RestartKeeps
<1>9. CASE UNCHANGED restoreVars
  BY ZenonT(30), <1>9 DEF restoreVars, RestoreInv, RestoreTyped, TargetsObserved, TargetActive, PolicyInstalled,
     HolderFollows, HolderProved, Reserved, CompletedWasReached, DnsAfterNetwork
<1> QED
  BY <1>1, <1>2, <1>3, <1>4, <1>5, <1>6, <1>7, <1>8, <1>9 DEF RestoreNext

(* However requests, other operators, lost saves and restarts interleave, a
   restore is recorded as completed only when its network target and its DNS
   policy were reached, and its DNS part runs only after its network part. *)
THEOREM RestoreIsSound == RestoreSpec => []RestoreSound
<1>1. RestoreInv => RestoreSound
  BY DEF RestoreInv, RestoreSound, RestoreTyped, RestoreTypeOK, Engines, Filters, RestoreOps
<1> QED
  BY <1>1, RestoreBegins, RestoreStep, PTL DEF RestoreSpec

(* One step never rewrites a recorded outcome, except to dismiss it, and never
   replaces an operation that is still open. *)
LEMMA OutcomeStep ==
  ASSUME RestoreInv, [RestoreNext]_restoreVars
  PROVE  /\ operation_finished(restoreOp.state) /\ restoreOp'.id = restoreOp.id =>
              restoreOp'.state \in {restoreOp.state, "dismissed"}
         /\ restoreOp'.id # restoreOp.id => operation_finished(recovery_operation(restoreOp).state)
<1>0. restoreOp \in RestoreOps
  BY DEF RestoreInv, RestoreTyped
<1>1. CASE UNCHANGED restoreOp
  BY <1>1
<1>2. CASE restoreOp' = Retained(restoreOp)
  BY <1>2, RetainedProved
<1>3. CASE \E base \in Nat, policies \in SUBSET Wanted : BeginRecovery(base, policies)
  <2>1. CASE UNCHANGED restoreOp \/ restoreOp' = Retained(restoreOp)
    BY <1>1, <1>2, <2>1
  <2>2. CASE \E base \in Nat, p \in Prints, want \in Wanted :
               operation_finished(recovery_operation(restoreOp).state) /\ restoreOp' = Submission(base, p, want)
    <3>1. restoreOp'.id = restoreOp.id + 1
      BY <2>2 DEF Submission, NoRestore
    <3>2. restoreOp.id \in Nat
      BY SMT, <1>0, RestoreNumbers DEF RestoreOps
    <3> QED
      BY SMT, <2>2, <3>1, <3>2
  <2> QED
    BY <1>3, <2>1, <2>2 DEF BeginRecovery
<1>4. CASE SaveOutcome \/ RecordDns
  <2>1. handler.at # "idle" /\ handler.op \in RestoreOps
    BY <1>4 DEF SaveOutcome, RecordDns, RestoreInv, RestoreTyped, Holders
  <2>2. restoreOp' \in {restoreOp, handler.op, [handler.op EXCEPT !.state = "dns_running", !.base = dns.rev]}
    BY <1>4 DEF SaveOutcome, RecordDns
  <2>3. restoreOp'.id \in {restoreOp.id, handler.op.id}
    BY <2>1, <2>2 DEF RestoreOps
  <2> QED
    BY <2>1, <2>3 DEF RestoreInv, HolderFollows
<1>5. CASE handle_recovery_dismiss
  <2>1. CASE restoreOp' = [recovery_operation(restoreOp) EXCEPT !.state = "dismissed", !.dns = NoPolicy]
    <3>1. recovery_operation(restoreOp) \in RestoreOps /\ recovery_operation(restoreOp).id = restoreOp.id
      BY SMT, <1>0, <1>5, ReconcileIs DEF recovery_operation, handle_recovery_dismiss
    <3>2. restoreOp'.id = restoreOp.id /\ restoreOp'.state = "dismissed"
      BY <2>1, <3>1 DEF RestoreOps
    <3> QED
      BY <3>2
  <2> QED
    BY <1>2, <1>5, <2>1 DEF handle_recovery_dismiss
<1>6. CASE (\E s \in Operators : apply_recovery_preview(s)) \/ handle_restore_snapshot
  <2>1. engine.rev \in Nat /\ \A s \in Operators : previews[s] \in Nat
    BY SMT, RestoreNumbers DEF RestoreInv, RestoreTyped, Engines
  <2>2. NoPolicy \in Wanted
    BY DEF Wanted
  <2> QED
    BY <1>1, <1>3, <1>6, <2>1, <2>2 DEF apply_recovery_preview, handle_restore_snapshot
<1>7. CASE \/ \E s \in Operators : recovery_preview(s)
           \/ process_transaction \/ StartDns \/ RestoreDaemonRestarts \/ OtherChange \/ confirm
           \/ rollback_restored \/ reconcile \/ OtherDnsChange \/ DnsEnds \/ UNCHANGED restoreVars
  <2>1. UNCHANGED restoreOp
    BY <1>7 DEF recovery_preview, process_transaction, StartDns, RestoreDaemonRestarts, OtherChange, confirm,
       rollback_restored, reconcile, OtherDnsChange, DnsEnds, EngineTo, DnsTo, restoreVars
  <2> QED
    BY <1>1, <2>1
<1> QED
  BY <1>2, <1>4, <1>5, <1>6, <1>7 DEF RestoreNext, handle_recovery_status, CheckDns

(* "Observed final outcomes are retained", and an open operation is never
   replaced by a new one: along every behaviour, for any number of operators,
   restores, revisions and upsets. *)
THEOREM RestoreOutcomesRetained == RestoreSpec => OutcomesRetained
<1>1. RestoreInv /\ [RestoreNext]_restoreVars =>
        [ /\ operation_finished(restoreOp.state) /\ restoreOp'.id = restoreOp.id =>
                restoreOp'.state \in {restoreOp.state, "dismissed"}
          /\ restoreOp'.id # restoreOp.id =>
                operation_finished(recovery_operation(restoreOp).state) ]_restoreVars
  BY OutcomeStep
<1> QED
  BY <1>1, RestoreBegins, RestoreStep, PTL DEF RestoreSpec, OutcomesRetained
=============================================================================
