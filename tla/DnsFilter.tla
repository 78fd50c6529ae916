------------------------------ MODULE DnsFilter ------------------------------
(***************************************************************************)
(* The maintained block lists: the service in routerd (its operation       *)
(* journal, its one worker, its two catalog slots for a category) and the  *)
(* privileged helper that installs a policy as a dnsmasq drop-in, verifies *)
(* it and undoes it (an activation marker and a link to the previous file).*)
(* Either process may stop at any step, and any file, network or resolver  *)
(* operation may fail.  One category stands for the five.                  *)
(***************************************************************************)
EXTENDS Integers, Sequences

CONSTANTS
  Policies,             \* the policies an administrator can save
  Listed,               \* those that enable the category
  DefaultPolicy,
  MaxRevision,          \* bound on revisions
  MaxList,              \* bound on the versions of the published list
  OPERATION_RETENTION,
  MaxMishaps            \* bound on stops, lost calls and activations left behind

ASSUME FilterAssumption ==
  /\ DefaultPolicy \in Policies /\ Listed \subseteq Policies \ {DefaultPolicy}
  /\ MaxRevision \in Nat /\ MaxList \in Nat /\ OPERATION_RETENTION \in Nat \ {0}
  /\ MaxMishaps \in Nat

VARIABLES
  dropIn,        \* the state recorded in the drop-in file
  previousFile,      \* the same of its .previous link; NoFile if there is none, or if
                 \* it is an orphan, which is harmless once the marker is gone
  marker,       \* the activation marker: "none", or whether a file existed
  dnsmasq,      \* the revision dnsmasq has loaded, -1 if it is down
  helperUp,      \* the helper serves requests
  activation,    \* the request the helper is carrying out (FILTER_UPDATE)
  operations,    \* the operation journal in memory first
  operationsDb,       \* and in operations.db
  worker,        \* the thread of the running operation
  catalogs,      \* the list each of the two slots holds, 0 for none
  status,        \* a status request on its way
  committed,     \* history: the last state whose activation was concluded
  mishaps        \* history: stops of a process, lost calls and activations left behind

helperVars == <<dropIn, previousFile, marker, dnsmasq, helperUp, activation>>
serviceVars == <<operations, operationsDb, worker, catalogs>>
filterHistory == <<committed, mishaps>>
filterVars == <<dropIn, previousFile, marker, dnsmasq, helperUp, activation,
                operations, operationsDb, worker, catalogs, status,
                committed, mishaps>>

-----------------------------------------------------------------------------
Revisions == 0 .. MaxRevision
Lists == 0 .. MaxList

\* Applied.  `at` is 0 in the default state and else a time stamp: 1 for a file
\* that is or may become current, 2 in what was read of a file of the same
\* revision that an activation has replaced since (an activation takes more than
\* the second of a stamp).  `whole` says that the list of `sources` was
\* installed to its last entry.
Applied ==
  [revision : Revisions, policy : Policies, at : 0 .. 2, list : Lists, whole : BOOLEAN]

NeverApplied ==
  [revision |-> 0, policy |-> DefaultPolicy, at |-> 0, list |-> 0, whole |-> TRUE]

NoFile ==
  [revision |-> -1, policy |-> DefaultPolicy, at |-> 0, list |-> 0, whole |-> TRUE]

States == {"running", "completed", "failed", "rolled_back", "needs_review"}

\* Operation; a phase before the outcome is known is "working".
Operation ==
  [state : States, target : Revisions, policy : Policies,
   phase : {"working", "verified", "interrupted", "outcome_unknown", "recovery_required"}]

\* What the worker makes of the text of the result.
Outcomes == {"none", "ok", "failed", "rolled_back", "unconfirmed", "recovery"}

NoActivation == [step |-> "idle", new |-> NeverApplied]

Locked == {"mark", "rename", "activate", "restore", "restart back", "undo", "finish"}

NoWork ==
  [step |-> "idle", policy |-> DefaultPolicy, base |-> 0, refresh |-> FALSE,
   list |-> 0, slot |-> 0, outcome |-> "none", wrote |-> FALSE]

NoStatus == [step |-> "idle", seen |-> NeverApplied, same |-> FALSE]

\* The variables range over the values the program gives them.
FilterTypeOK ==
  /\ dropIn \in Applied /\ previousFile \in Applied \cup {NoFile}
  /\ dnsmasq \in Revisions \cup {-1}
  /\ marker \in {"none", "true", "false"} /\ helperUp \in BOOLEAN
  /\ activation \in [step : {"idle", "stream", "lock"} \cup Locked, new : Applied]
  /\ operations \in Seq(Operation) /\ Len(operations) <= OPERATION_RETENTION
  /\ operationsDb \in Seq(Operation) /\ Len(operationsDb) <= OPERATION_RETENTION
  /\ worker \in
       [step : {"idle", "preparing", "downloading", "building", "applying",
                "streaming", "waiting", "finish"},
        policy : Policies, base : Revisions, refresh : BOOLEAN, list : Lists,
        slot : {0, 1}, outcome : Outcomes, wrote : BOOLEAN]
  /\ catalogs \in [{0, 1} -> Lists]
  /\ status \in
       [step : {"idle", "read", "probe", "reread", "publish", "reply"},
        seen : Applied, same : BOOLEAN]
  /\ committed \in Applied
  /\ mishaps \in 0 .. MaxMishaps

FilterInit ==
  /\ dropIn = NeverApplied /\ previousFile = NoFile /\ marker = "none"
  /\ dnsmasq = 0 /\ helperUp = TRUE /\ activation = NoActivation
  /\ operations = <<>> /\ operationsDb = <<>> /\ worker = NoWork
  /\ catalogs = [slot \in {0, 1} |-> 0] /\ status = NoStatus
  /\ committed = NeverApplied /\ mishaps = 0

-----------------------------------------------------------------------------
(* The service: one operation at a time, recorded before it starts.        *)

Mishap == mishaps < MaxMishaps /\ mishaps' = mishaps + 1

Busy == worker.step # "idle"

Retain(ops) == IF Len(ops) > OPERATION_RETENTION THEN SubSeq(ops, 1, OPERATION_RETENTION) ELSE ops

\* start_operation: a save or a refresh, of a policy read at some revision.  A
\* refresh within five minutes of the last attempt is refused for the moment; a
\* journal that cannot be written leaves everything as it was.
start_operation ==
  \E policy \in Policies, base \in Revisions, refresh \in BOOLEAN :
    LET op == [state |-> "running", phase |-> "working", target |-> base + 1, policy |-> policy]
        ops == Retain(<<op>> \o operations)
    IN /\ ~Busy /\ base < MaxRevision
       /\ operations' = ops /\ operationsDb' = ops
       /\ worker' = [NoWork EXCEPT !.step = "preparing", !.policy = policy,
                                   !.base = base, !.refresh = refresh]
       /\ UNCHANGED <<helperVars, catalogs, status, filterHistory>>

To(step) == activation' = [activation EXCEPT !.step = step]

Ends(outcome) ==
  worker' = [NoWork EXCEPT !.step = "finish", !.outcome = outcome, !.wrote = worker.wrote]

\* catalog_index: the slot that holds the installed list; when none is installed
\* the newer of the two, which may be either.
catalog_index(hash) ==
  LET held == {slot \in {0, 1} : catalogs[slot] # 0}
      match == {slot \in held : catalogs[slot] = hash}
  IN IF hash = 0 THEN held ELSE IF 0 \in match THEN {0} ELSE match

\* The slot a download replaces: never the one in use (-1: none).
OtherSlot(slot) == IF slot = 0 THEN 1 ELSE 0

\* apply up to the choice of the lists: history, helper or revision may end it.
PrepareOperation ==
  /\ worker.step = "preparing"
  /\ \/ Ends("failed")
     \/ /\ helperUp /\ dropIn.revision = worker.base
        /\ \/ /\ worker.policy \notin Listed
              /\ worker' = [worker EXCEPT !.step = "applying"]
           \/ /\ worker.policy \in Listed /\ ~worker.refresh
              /\ \E slot \in catalog_index(dropIn.list) :
                   worker' = [worker EXCEPT !.step = "applying", !.list = catalogs[slot]]
           \/ /\ worker.policy \in Listed
              /\ catalog_index(dropIn.list) = {} \/ worker.refresh
              /\ \E slot \in IF catalog_index(dropIn.list) = {} THEN {-1} ELSE catalog_index(dropIn.list) :
                   worker' = [worker EXCEPT !.step = "downloading", !.slot = OtherSlot(slot)]
  /\ UNCHANGED <<helperVars, operations, operationsDb, catalogs, status, filterHistory>>

\* download_catalog: the old file of the slot goes only once the answer is
\* good; build_catalog refuses a bad list and then the slot is empty.
download_catalog ==
  /\ \/ /\ worker.step = "downloading" /\ Ends("failed") /\ UNCHANGED catalogs
     \/ /\ worker.step = "downloading"
        /\ worker' = [worker EXCEPT !.step = "building"]
        /\ catalogs' = [catalogs EXCEPT ![worker.slot] = 0]
     \/ /\ worker.step = "building" /\ Ends("failed") /\ UNCHANGED catalogs
     \/ /\ worker.step = "building"
        /\ \E list \in Lists \ {0} :
             /\ catalogs' = [catalogs EXCEPT ![worker.slot] = list]
             /\ worker' = [worker EXCEPT !.step = "applying", !.list = list]
  /\ UNCHANGED <<helperVars, operations, operationsDb, status, filterHistory>>

\* The call of the helper: total too large or the history unavailable; no
\* helper, or one at work for an earlier caller, whose answers carry the
\* default state; else the stream begins.
CallHelper ==
  /\ worker.step = "applying"
  /\ \/ Ends("failed") /\ UNCHANGED activation
     \/ /\ ~helperUp \/ activation.step # "idle"
        /\ Ends("unconfirmed") /\ UNCHANGED activation
     \/ /\ helperUp /\ activation.step = "idle"
        /\ worker' = [NoWork EXCEPT !.step = "streaming"]
        /\ activation' =
             [step |-> "stream",
              new |-> [revision |-> worker.base + 1, policy |-> worker.policy,
                       at |-> 1, list |-> worker.list, whole |-> TRUE]]
  /\ UNCHANGED <<dropIn, previousFile, marker, dnsmasq, helperUp, operations,
                 operationsDb, catalogs, status, filterHistory>>

\* What the end of a stream before its last entry is to the helper: the end of
\* the list, or an entry it refuses.
CutStream ==
  activation' \in
    IF activation.step # "stream" THEN {activation}
    ELSE {NoActivation} \cup
         {[activation EXCEPT !.step = "lock", !.new.whole = (activation.new.list = 0)]}

\* emit: to the end, or to an error that closes the connection.
StreamDomains ==
  /\ worker.step = "streaming"
  /\ \/ /\ worker' = [worker EXCEPT !.step = "waiting"]
        /\ To("lock")
        /\ UNCHANGED mishaps
     \/ /\ Ends("unconfirmed") /\ CutStream
        /\ Mishap
  /\ UNCHANGED <<dropIn, previousFile, marker, dnsmasq, helperUp, operations,
                 operationsDb, catalogs, status, committed>>

\* The 90 seconds of the call are over before the helper answers.
CallTimeout ==
  /\ worker.step = "waiting"
  /\ Ends("unconfirmed") /\ Mishap
  /\ UNCHANGED <<helperVars, operations, operationsDb, catalogs, status, committed>>

\* What the text of the result makes of the operation; one that can no longer be
\* reconciled is kept without its target.
SettledOperation(outcome) ==
  LET is(state, phase) == [operations[1] EXCEPT !.state = state, !.phase = phase]
      ended(state, phase) == [state |-> state, phase |-> phase, target |-> 0, policy |-> DefaultPolicy]
  IN CASE outcome = "ok" -> is("completed", "verified")
       [] outcome = "rolled_back" -> ended("rolled_back", "working")
       [] outcome = "unconfirmed" -> is("needs_review", "outcome_unknown")
       [] outcome = "recovery" -> ended("needs_review", "recovery_required")
       [] OTHER -> ended("failed", "working")

\* The end of the worker: the outcome is recorded, or left for review.
FinishOperation ==
  /\ worker.step = "finish" /\ worker' = NoWork
  /\ LET op == SettledOperation(worker.outcome)
     IN \/ operations' = [operations EXCEPT ![1] = op] /\ operationsDb' = operations'
        \/ /\ operations' = [operations EXCEPT ![1].state = "needs_review", ![1].phase = op.phase]
           /\ UNCHANGED operationsDb
  /\ UNCHANGED <<helperVars, catalogs, status, filterHistory>>

-----------------------------------------------------------------------------
(* The helper: apply_dns_filter under FILTER_UPDATE, from its admission    *)
(* under the network apply lock to its end.                                *)

\* The answer: the worker takes an error with revision 0 for an unconfirmed
\* outcome, unless the text asks for recovery.
Answer(revision, outcome) ==
  /\ activation' = NoActivation
  /\ IF worker.step \in {"streaming", "waiting"}
     THEN Ends(IF revision = 0 /\ outcome # "recovery" THEN "unconfirmed" ELSE outcome)
     ELSE UNCHANGED worker

Base == activation.new.revision - 1

\* The request is invalid, or its temporary files cannot be written.
RefuseRequest ==
  /\ activation.step = "stream"
  /\ \E revision \in {0, activation.new.revision} : Answer(revision, "failed")
  /\ UNCHANGED <<dropIn, previousFile, marker, dnsmasq, helperUp, operations, operationsDb,
                 catalogs, status, filterHistory>>

AdmissibleUnmarked == dropIn.revision = Base

\* The revision the operation was made for is installed and no activation is
\* left behind.
Admissible == dropIn.revision = Base /\ marker = "none"

\* guard_service_action_mutation (a pending network change or an unsettled
\* transaction), the revision and the marker, then the link.
AdmitActivation ==
  /\ activation.step = "lock"
  /\ LET link == IF dropIn.at > 0 THEN dropIn ELSE NoFile
     IN \/ /\ Answer(activation.new.revision, "failed") /\ UNCHANGED previousFile
        \/ /\ ~Admissible
           /\ Answer(dropIn.revision, "failed") /\ UNCHANGED previousFile
        \/ /\ Admissible
           /\ Answer(Base, "failed") /\ UNCHANGED previousFile
        \/ /\ Admissible
           /\ previousFile' = link /\ To("mark") /\ UNCHANGED worker
  /\ UNCHANGED <<dropIn, marker, dnsmasq, helperUp, operations, operationsDb, catalogs, status, filterHistory>>

\* The marker; a failed directory sync leaves it behind.
MarkActivation ==
  /\ activation.step = "mark"
  /\ LET mark == IF dropIn.at > 0 THEN "true" ELSE "false"
     IN \/ /\ marker' = mark /\ To("rename")
           /\ UNCHANGED <<previousFile, worker, mishaps>>
        \/ /\ marker' = "none" /\ previousFile' = NoFile
           /\ Answer(Base, "failed") /\ UNCHANGED mishaps
        \/ /\ marker' = mark /\ UNCHANGED previousFile
           /\ Answer(Base, "failed") /\ Mishap
  /\ UNCHANGED <<dropIn, dnsmasq, helperUp, operations, operationsDb,
                 catalogs, status, committed>>

Replaced(state) ==
  IF state.revision = activation.new.revision THEN [state EXCEPT !.at = 2] ELSE state

RenameDropIn ==
  /\ activation.step = "rename"
  /\ \/ /\ dropIn' = activation.new /\ To("activate")
        /\ worker' = [worker EXCEPT !.wrote = (worker.step = "waiting")]
        /\ status' = [status EXCEPT !.seen = Replaced(status.seen)]
        /\ UNCHANGED mishaps
     \/ /\ Answer(Base, "failed") /\ Mishap /\ UNCHANGED <<dropIn, status>>
  /\ UNCHANGED <<previousFile, marker, dnsmasq, helperUp, operations, operationsDb, catalogs,
                 committed>>

\* dnsmasq --test, the restart and filter_resolver_healthy.
ActivateDropIn ==
  /\ activation.step = "activate"
  /\ \/ dnsmasq' = dropIn.revision /\ To("finish")
     \/ /\ dnsmasq' \in {dnsmasq, dropIn.revision, -1}
        /\ To("restore")
  /\ UNCHANGED <<dropIn, previousFile, marker, helperUp, operations, operationsDb,
                 worker, catalogs, status, filterHistory>>

Restored == IF marker = "true" THEN previousFile ELSE NeverApplied

\* restore_filter_previous; a failure may come after the rename.
RestoreDropIn ==
  /\ activation.step = "restore"
  /\ \/ /\ dropIn' = Restored /\ To("restart back")
        /\ worker' = [worker EXCEPT !.wrote = FALSE] /\ UNCHANGED mishaps
     \/ /\ dropIn' \in {dropIn, Restored} /\ Answer(Base, "recovery")
        /\ Mishap
  /\ UNCHANGED <<previousFile, marker, dnsmasq, helperUp, operations, operationsDb,
                 catalogs, status, committed>>

RestartPrevious ==
  /\ activation.step = "restart back"
  /\ \/ /\ dnsmasq' = dropIn.revision /\ To("undo")
        /\ UNCHANGED <<worker, mishaps>>
     \/ /\ dnsmasq' \in {dnsmasq, dropIn.revision, -1} /\ Answer(Base, "recovery")
        /\ Mishap
  /\ UNCHANGED <<dropIn, previousFile, marker, helperUp, operations, operationsDb,
                 catalogs, status, committed>>

\* finish_filter_activation: the activation is concluded once the marker is
\* gone, whether or not the directory could be synced.
finish_filter_activation(ok) ==
  /\ marker' \in IF ok THEN {"none"} ELSE {marker, "none"}
  /\ previousFile' = IF marker' = "none" THEN NoFile ELSE previousFile

ConcludeActivation == committed' = IF marker' = "none" THEN dropIn' ELSE committed

FinishActivation ==
  /\ \E ok \in BOOLEAN :
       /\ finish_filter_activation(ok)
       /\ \/ activation.step = "undo" /\ Answer(Base, IF ok THEN "rolled_back" ELSE "failed")
          \/ activation.step = "finish" /\ Answer(activation.new.revision, IF ok THEN "ok" ELSE "recovery")
       /\ IF ok THEN UNCHANGED mishaps ELSE Mishap
  /\ UNCHANGED <<dropIn, dnsmasq, helperUp, operations, operationsDb, catalogs, status>>
  /\ ConcludeActivation

\* recover_filter_activation, before the helper serves; a failure ends the
\* process with what was done until then.
recover_filter_activation ==
  /\ ~helperUp
  /\ \/ /\ marker = "none" /\ helperUp' = TRUE
        /\ UNCHANGED <<dropIn, previousFile, marker, dnsmasq>>
     \/ /\ marker # "none" /\ helperUp' = TRUE
        /\ dropIn' = Restored /\ dnsmasq' = dropIn'.revision /\ finish_filter_activation(TRUE)
     \/ /\ marker # "none" /\ helperUp' = FALSE
        /\ dropIn' \in {dropIn, Restored} /\ dnsmasq' \in {dnsmasq, dropIn'.revision, -1}
        /\ UNCHANGED <<previousFile, marker>>
     \/ /\ marker # "none" /\ helperUp' = FALSE
        /\ dropIn' = Restored /\ dnsmasq' = dropIn'.revision /\ finish_filter_activation(FALSE)
  /\ UNCHANGED <<activation, serviceVars, status, mishaps>>
  /\ ConcludeActivation

HelperStops ==
  /\ helperUp /\ helperUp' = FALSE
  /\ activation' = NoActivation /\ status' = NoStatus
  /\ IF worker.step \in {"streaming", "waiting"} THEN Ends("unconfirmed") ELSE UNCHANGED worker
  /\ previousFile' = IF marker = "none" THEN NoFile ELSE previousFile
  /\ Mishap
  /\ UNCHANGED <<dropIn, marker, dnsmasq, operations, operationsDb, catalogs, committed>>

\* open_journal: a restart of routerd neither proves nor replays a mutation.
ServiceRestarts ==
  /\ operations' = [i \in DOMAIN operationsDb |->
                      IF operationsDb[i].state = "running"
                      THEN [operationsDb[i] EXCEPT !.state = "needs_review", !.phase = "interrupted"]
                      ELSE operationsDb[i]]
  /\ operationsDb' = operations'
  /\ worker' = NoWork /\ status' = NoStatus
  /\ IF worker.step = "streaming" THEN CutStream ELSE UNCHANGED activation
  /\ Mishap
  /\ UNCHANGED <<dropIn, previousFile, marker, dnsmasq, helperUp, catalogs, committed>>

\* A network change, under the apply lock, restarts dnsmasq.
NetworkApply ==
  /\ activation.step \notin Locked
  /\ dnsmasq' = dropIn.revision
  /\ UNCHANGED <<dropIn, previousFile, marker, helperUp, activation, serviceVars, status,
                 filterHistory>>

-----------------------------------------------------------------------------
(* A status request: read_filter_status in the helper, without any lock,   *)
(* then reconcile_operation in the service.  An answer that is pending or   *)
(* unhealthy reconciles nothing and ends the request.                       *)

unchangedByStatus ==
  UNCHANGED <<dropIn, previousFile, marker, dnsmasq, helperUp, activation, worker,
              catalogs, filterHistory>>

\* What the request compares of a state: generation and policy.
Seen(state) == [state EXCEPT !.list = 0, !.whole = TRUE]

\* Only a request that may find an operation to reconcile is followed.
ReadState ==
  /\ status.step = "idle" /\ helperUp
  /\ operations # <<>> /\ operations[1].state \in {"running", "needs_review"}
  /\ status' = [NoStatus EXCEPT !.step = "read", !.seen = Seen(dropIn)]
  /\ unchangedByStatus /\ UNCHANGED <<operations, operationsDb>>

SameGeneration(a, b) == a.revision = b.revision /\ a.at = b.at

CheckMarker ==
  /\ status.step = "read"
  /\ status' = IF marker # "none" \/ status.seen.at = 0 THEN NoStatus
               ELSE [status EXCEPT !.step = "probe"]
  /\ unchangedByStatus /\ UNCHANGED <<operations, operationsDb>>

\* probe_filter_revision_once compares the TXT record with the revision; requests
\* of the same five seconds share its verdict (STATUS_CACHE).
ProbeOnce ==
  /\ status.step = "probe"
  /\ \/ status' = NoStatus
     \/ /\ dnsmasq = status.seen.revision
        /\ status' = [status EXCEPT !.step = "reread"]
  /\ unchangedByStatus /\ UNCHANGED <<operations, operationsDb>>

RereadState ==
  /\ status.step = "reread"
  /\ status' = [status EXCEPT !.step = "publish", !.same = SameGeneration(dropIn, status.seen)]
  /\ unchangedByStatus /\ UNCHANGED <<operations, operationsDb>>

\* The verdict is published only for the generation that is still current.
PublishProbe ==
  /\ status.step = "publish"
  /\ IF marker # "none" \/ ~status.same
     THEN status' = NoStatus
     ELSE status' = [status EXCEPT !.step = "reply"]
  /\ unchangedByStatus /\ UNCHANGED <<operations, operationsDb>>

\* A verified state is the one the operation was to install.
Confirms(seen, op) == seen.revision = op.target /\ seen.policy = op.policy

\* An unconfirmed operation is completed by a verified status of its target.
reconcile_filter_operation ==
  /\ status.step = "reply" /\ status' = NoStatus
  /\ \/ UNCHANGED <<operations, operationsDb>>        \* nothing to reconcile, or not recorded
     \/ /\ operations # <<>> /\ operations[1].state = "needs_review"
        /\ operations[1].phase # "recovery_required"
        /\ Confirms(status.seen, operations[1])
        /\ operations' = [operations EXCEPT ![1].state = "completed", ![1].phase = "verified"]
        /\ operationsDb' = operations'
  /\ unchangedByStatus

-----------------------------------------------------------------------------
WorkerStep ==
  \/ PrepareOperation \/ download_catalog \/ CallHelper \/ StreamDomains \/ CallTimeout
  \/ FinishOperation

ActivationStep ==
  \/ RefuseRequest \/ AdmitActivation \/ MarkActivation \/ RenameDropIn \/ ActivateDropIn
  \/ RestoreDropIn \/ RestartPrevious \/ FinishActivation

StatusStep == ReadState \/ CheckMarker \/ ProbeOnce \/ RereadState \/ PublishProbe \/ reconcile_filter_operation

FilterNext ==
  \/ start_operation \/ WorkerStep \/ ActivationStep \/ StatusStep
  \/ recover_filter_activation \/ HelperStops \/ ServiceRestarts \/ NetworkApply

FilterSpec == FilterInit /\ [][FilterNext]_filterVars

-----------------------------------------------------------------------------
(* Properties.                                                             *)

\* Wherever the helper stops, the files it finds when it starts again lead to
\* the last concluded state: without a marker that is the drop-in, with one it
\* is the .previous link, or the absence of both.
ActivationRecoverable ==
  /\ marker = "none" => dropIn = committed
  /\ marker = "true" => previousFile = committed
  /\ marker = "false" => committed = NeverApplied

\* An operation is recorded as completed, by its worker or by a later status
\* read that raced with other operations, only if the helper concluded the
\* activation of that policy as that revision (or has since concluded a later
\* one).
CompletedWasConcluded ==
  \A i \in DOMAIN operations :
    operations[i].state = "completed" =>
      \/ committed.revision > operations[i].target
      \/ /\ committed.revision = operations[i].target
         /\ committed.policy = operations[i].policy

\* An operation that ends as failed or rolled back has not left its policy in
\* the drop-in, whichever step failed.
FailedLeftNothing ==
  worker.step = "finish" /\ worker.outcome \in {"failed", "rolled_back"} => ~worker.wrote

\* As long as no call was lost and no activation left behind, the list the installed
\* policy was built from keeps its index: a refresh writes the other slot.
InstalledIndexKept ==
  mishaps = 0 /\ dropIn.list # 0 => \E slot \in {0, 1} : catalogs[slot] = dropIn.list

\* Concluded revisions only go up, one at a time: of two sessions that edit
\* the same revision at most one succeeds, across restarts of both processes.
RevisionsInOrder ==
  [][committed' # committed => committed'.revision = committed.revision + 1]_filterVars

\* An activation of the DNS filter can be recovered at every point, and the outcome
\* recorded for it is what happened: completed when the helper concluded it, failed
\* when nothing of it was left installed; the installed policy keeps its index.
FilterSound ==
  /\ FilterTypeOK /\ ActivationRecoverable /\ CompletedWasConcluded
  /\ FailedLeftNothing /\ InstalledIndexKept
=============================================================================
