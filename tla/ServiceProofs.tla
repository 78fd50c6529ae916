--------------------------- MODULE ServiceProofs ----------------------------
(***************************************************************************)
(* Proofs about three services of routerd: DnsFilter, GatewayMonitor and   *)
(* RiskFeeds. For every value of their constants. Each part starts with    *)
(* its inductive invariant.                                                *)
(***************************************************************************)
EXTENDS DnsFilter, GatewayMonitor, RiskFeeds, SequenceTheorems, TLAPS

\* Most leaves are first-order reasoning; the others name their prover.
USE Zenon

-----------------------------------------------------------------------------
(***************************************************************************)
(* DnsFilter. Three processes meet in the drop-in: the activation in the   *)
(* helper (InProgress), the worker that called it (Employed, Called) and a *)
(* status request that may conclude the operation from what it reads       *)
(* (Watched). Each is related to the last concluded state.                 *)
(***************************************************************************)

\* The fields of the records.
Activations == [step : {"idle", "stream", "lock"} \cup Locked, new : Applied]
WorkerRecords ==
  [step : {"idle", "preparing", "downloading", "building", "applying", "streaming", "waiting", "finish"},
   policy : Policies, base : Revisions, refresh : BOOLEAN, list : Lists,
   slot : {0, 1}, outcome : Outcomes, wrote : BOOLEAN]
StatusRecords ==
  [step : {"idle", "read", "probe", "reread", "publish", "reply"}, seen : Applied, same : BOOLEAN]
CatalogSlots == [{0, 1} -> Lists]

FilterTyped ==
  /\ dropIn \in Applied /\ previousFile \in Applied \cup {NoFile}
  /\ dnsmasq \in Revisions \cup {-1}
  /\ marker \in {"none", "true", "false"} /\ helperUp \in BOOLEAN
  /\ activation \in Activations /\ worker \in WorkerRecords /\ status \in StatusRecords
  /\ operations \in Seq(Operation) /\ Len(operations) <= OPERATION_RETENTION
  /\ operationsDb \in Seq(Operation) /\ Len(operationsDb) <= OPERATION_RETENTION
  /\ catalogs \in CatalogSlots /\ committed \in Applied /\ mishaps \in 0 .. MaxMishaps

\* Only the default state has no stamp; a written file has one, and a revision.
Stamped(s) == s = NeverApplied \/ (s.at = 1 /\ s.revision # 0)

\* The activation under way: the files at each of its steps.
InProgress ==
  /\ ~helperUp => activation.step = "idle"
  /\ activation.step # "idle" => activation.new.at = 1 /\ activation.new.revision # 0
  /\ activation.step \in Locked => activation.new.revision = committed.revision + 1
  /\ activation.step = "mark" => marker = "none" /\ (dropIn.at > 0 => previousFile = dropIn)
  /\ activation.step \in Locked \ {"mark"} => marker # "none"
  /\ activation.step \in {"rename", "restart back", "undo"} => dropIn = committed
  /\ activation.step \in {"activate", "restore", "finish"} => dropIn = activation.new

\* What lies on disk leads back to what was concluded.
Files ==
  /\ ActivationRecoverable
  /\ Stamped(dropIn) /\ Stamped(committed)
  /\ dropIn = committed \/ dropIn.revision = committed.revision + 1

\* The helper concluded this revision with this policy, or a later one.
ConcludedAs(revision, policy) ==
  \/ committed.revision > revision
  \/ committed.revision = revision /\ committed.policy = policy

\* What a status request saw of a file: unless the file was replaced since, the
\* file of that revision has that policy.
Agrees(s) == status.seen.at = 1 /\ s.at = 1 /\ s.revision = status.seen.revision => s.policy = status.seen.policy

\* What a status request may conclude from what it saw.
Watched ==
  /\ status.seen.at = 1 => status.seen.revision # 0
  /\ Agrees(dropIn) /\ Agrees(committed)
  /\ status.step \in {"probe", "reread"} /\ status.seen.at = 1 =>
       \/ ConcludedAs(status.seen.revision, status.seen.policy)
       \/ committed.revision < status.seen.revision /\ dropIn.revision # status.seen.revision
  /\ status.step \in {"publish", "reply"} /\ status.same =>
       ConcludedAs(status.seen.revision, status.seen.policy)
  /\ status.step = "reply" => status.same
  /\ status.step \in {"probe", "reread"} => status.seen.at # 0

\* The worker's operation is the newest of the journal, ...
Early == {"preparing", "downloading", "building", "applying"}
Calling == {"streaming", "waiting"}
Employed ==
  /\ Busy => operations # <<>> /\ operations[1].state = "running"
  /\ worker.step \in Early =>
       operations[1].target = worker.base + 1 /\ operations[1].policy = worker.policy
  /\ worker.step \in Calling =>
       /\ operations[1].target = activation.new.revision
       /\ operations[1].policy = activation.new.policy
  /\ worker.step = "finish" /\ worker.outcome = "ok" =>
       ConcludedAs(operations[1].target, operations[1].policy)
\* ... and its call the activation under way, whose outcome it learns.
Called ==
  /\ worker.step = "streaming" => activation.step = "stream"
  /\ worker.step = "waiting" => activation.step \in {"lock"} \cup Locked
  /\ worker.wrote =>
       \/ worker.step = "waiting" /\ activation.step \in {"activate", "restore", "finish"}
       \/ worker.step = "finish" /\ worker.outcome \notin {"failed", "rolled_back"}

\* What a journal calls completed was concluded.
CompletedIn(ops) ==
  \A i \in DOMAIN ops : ops[i].state = "completed" => ConcludedAs(ops[i].target, ops[i].policy)
Journals == CompletedIn(operations) /\ CompletedIn(operationsDb)

Indexed(list) == list = 0 \/ \E slot \in {0, 1} : catalogs[slot] = list
\* Without a mishap the worker waits for the helper, and the slot it writes is
\* not the one in use.
Unspoilt ==
  mishaps = 0 =>
    /\ activation.step \in {"idle", "stream", "lock"} => marker = "none"
    /\ activation.step # "idle" => worker.step \in Calling /\ Indexed(activation.new.list)
    /\ Indexed(dropIn.list) /\ Indexed(committed.list)
    /\ worker.step \in {"preparing", "applying"} => Indexed(worker.list)
    /\ worker.step \in {"downloading", "building"} =>
         dropIn.list = 0 \/ catalogs[OtherSlot(worker.slot)] = dropIn.list

FilterInv ==
  /\ FilterTyped /\ Files /\ InProgress /\ Watched
  /\ Employed /\ Called /\ Journals /\ Unspoilt

-----------------------------------------------------------------------------
LEMMA FilterBounds ==
  /\ MaxRevision \in Nat /\ MaxList \in Nat /\ MaxMishaps \in Nat
  /\ OPERATION_RETENTION \in Nat /\ OPERATION_RETENTION # 0 /\ DefaultPolicy \in Policies
  /\ 0 \in Revisions /\ 0 \in Lists
  /\ \A r \in Revisions : r \in Nat /\ r <= MaxRevision
  /\ \A r \in Nat : r <= MaxRevision => r \in Revisions
BY SMT, FilterAssumption DEF Revisions, Lists

LEMMA AppliedParts ==
  ASSUME NEW s \in Applied
  PROVE  /\ s.revision \in Revisions /\ s.revision \in Nat /\ s.policy \in Policies
         /\ s.at \in {0, 1, 2} /\ s.list \in Lists /\ s.whole \in BOOLEAN
<1>1. s.revision \in Revisions /\ s.policy \in Policies /\ s.list \in Lists /\ s.whole \in BOOLEAN
      /\ s.at \in 0..2
  BY DEF Applied
<1>2. s.at \in {0, 1, 2} BY SMT, <1>1
<1>3. s.revision \in Nat BY <1>1, FilterBounds
<1> QED BY <1>1, <1>2, <1>3

LEMMA NeverAppliedIs ==
  /\ NeverApplied \in Applied /\ NeverApplied.revision = 0 /\ NeverApplied.at = 0
  /\ NeverApplied.list = 0
<1>1. NeverApplied.revision = 0 /\ NeverApplied.at = 0 /\ NeverApplied.list = 0 BY DEF NeverApplied
<1>2. 0 \in 0..2 BY SMT
<1>3. NeverApplied \in Applied BY <1>2, FilterBounds DEF NeverApplied, Applied
<1> QED BY <1>1, <1>3

LEMMA NoActivationIs ==
  NoActivation \in Activations /\ NoActivation.step = "idle" /\ NoActivation.new = NeverApplied
BY NeverAppliedIs DEF NoActivation, Activations

LEMMA NoWorkIs ==
  /\ NoWork \in WorkerRecords /\ NoWork.step = "idle" /\ ~NoWork.wrote
  /\ NoWork.policy = DefaultPolicy /\ NoWork.base = 0 /\ NoWork.list = 0
<1>1. NoWork.step = "idle" /\ ~NoWork.wrote /\ NoWork.policy = DefaultPolicy
      /\ NoWork.base = 0 /\ NoWork.list = 0
  BY DEF NoWork
<1>2. NoWork \in WorkerRecords BY FilterBounds DEF NoWork, WorkerRecords, Outcomes
<1> QED BY <1>1, <1>2

LEMMA NoStatusIs ==
  NoStatus \in StatusRecords /\ NoStatus.step = "idle" /\ NoStatus.seen = NeverApplied /\ ~NoStatus.same
<1>1. NoStatus.step = "idle" /\ NoStatus.seen = NeverApplied /\ ~NoStatus.same BY DEF NoStatus
<1>2. NoStatus \in StatusRecords BY NeverAppliedIs DEF NoStatus, StatusRecords
<1> QED BY <1>1, <1>2

LEMMA FilterParts ==
  ASSUME FilterInv
  PROVE  /\ dropIn \in Applied /\ committed \in Applied /\ previousFile \in Applied \cup {NoFile}
         /\ activation \in Activations /\ worker \in WorkerRecords /\ status \in StatusRecords
         /\ catalogs \in CatalogSlots /\ mishaps \in Nat /\ mishaps <= MaxMishaps
         /\ operations \in Seq(Operation) /\ operationsDb \in Seq(Operation)
         /\ Len(operations) <= OPERATION_RETENTION /\ Len(operationsDb) <= OPERATION_RETENTION
         /\ marker \in {"none", "true", "false"} /\ helperUp \in BOOLEAN /\ dnsmasq \in Revisions \cup {-1}
         /\ activation.step \in {"idle", "stream", "lock"} \cup Locked /\ activation.new \in Applied
         /\ worker.step \in {"idle", "preparing", "downloading", "building", "applying",
                             "streaming", "waiting", "finish"}
         /\ worker.policy \in Policies /\ worker.base \in Revisions /\ worker.list \in Lists
         /\ worker.slot \in {0, 1} /\ worker.outcome \in Outcomes /\ worker.wrote \in BOOLEAN
         /\ status.seen \in Applied /\ status.same \in BOOLEAN
         /\ status.step \in {"idle", "read", "probe", "reread", "publish", "reply"}
<1>1. FilterTyped BY DEF FilterInv
<1>2. mishaps \in Nat /\ mishaps <= MaxMishaps BY SMT, <1>1, FilterBounds DEF FilterTyped
<1>3. activation.step \in {"idle", "stream", "lock"} \cup Locked /\ activation.new \in Applied
  BY <1>1 DEF FilterTyped, Activations
<1>4. /\ worker.step \in {"idle", "preparing", "downloading", "building", "applying",
                          "streaming", "waiting", "finish"}
      /\ worker.policy \in Policies /\ worker.base \in Revisions /\ worker.list \in Lists
      /\ worker.slot \in {0, 1} /\ worker.outcome \in Outcomes /\ worker.wrote \in BOOLEAN
  BY <1>1 DEF FilterTyped, WorkerRecords
<1>5. /\ status.seen \in Applied /\ status.same \in BOOLEAN
      /\ status.step \in {"idle", "read", "probe", "reread", "publish", "reply"}
  BY <1>1 DEF FilterTyped, StatusRecords
<1> QED BY <1>1, <1>2, <1>3, <1>4, <1>5 DEF FilterTyped

LEMMA FilterTypedAgain ==
  ASSUME dropIn' \in Applied, committed' \in Applied, previousFile' \in Applied \cup {NoFile},
         activation' \in Activations, worker' \in WorkerRecords, status' \in StatusRecords,
         catalogs' \in CatalogSlots, mishaps' \in Nat, mishaps' <= MaxMishaps,
         operations' \in Seq(Operation), operationsDb' \in Seq(Operation),
         Len(operations') <= OPERATION_RETENTION, Len(operationsDb') <= OPERATION_RETENTION,
         marker' \in {"none", "true", "false"}, helperUp' \in BOOLEAN, dnsmasq' \in Revisions \cup {-1}
  PROVE  FilterTyped'
<1>1. mishaps' \in 0..MaxMishaps BY SMT, FilterBounds
<1> QED BY <1>1 DEF FilterTyped

LEMMA MishapFacts ==
  ASSUME FilterInv, Mishap
  PROVE  mishaps' \in Nat /\ mishaps' <= MaxMishaps /\ mishaps' # 0
BY SMT, FilterParts, FilterBounds DEF Mishap

LEMMA EndsFacts ==
  ASSUME worker \in WorkerRecords, NEW o \in Outcomes, Ends(o)
  PROVE  worker' \in WorkerRecords /\ worker'.step = "finish" /\ worker'.outcome = o
         /\ worker'.wrote = worker.wrote
<1>1. worker.wrote \in BOOLEAN BY DEF WorkerRecords
<1>2. worker' = [NoWork EXCEPT !.step = "finish", !.outcome = o, !.wrote = worker.wrote] BY DEF Ends
<1>3. worker' \in WorkerRecords BY <1>1, <1>2, NoWorkIs DEF WorkerRecords
<1>4. worker'.step = "finish" /\ worker'.outcome = o /\ worker'.wrote = worker.wrote
  BY <1>2, NoWorkIs DEF WorkerRecords
<1> QED BY <1>3, <1>4

LEMMA ToFacts ==
  ASSUME activation \in Activations, NEW step \in {"idle", "stream", "lock"} \cup Locked, To(step)
  PROVE  activation' \in Activations /\ activation'.step = step /\ activation'.new = activation.new
BY DEF To, Activations

LEMMA AnswerFacts ==
  ASSUME worker \in WorkerRecords, NEW revision, NEW outcome \in Outcomes, Answer(revision, outcome)
  PROVE  /\ activation' \in Activations /\ activation'.step = "idle"
         /\ worker' \in WorkerRecords
         /\ \/ worker.step \notin Calling /\ worker' = worker
            \/ /\ worker.step \in Calling /\ worker'.step = "finish" /\ worker'.wrote = worker.wrote
               /\ worker'.outcome = outcome \/ worker'.outcome = "unconfirmed"
<1>1. activation' = NoActivation BY DEF Answer
<1>2. CASE worker.step \in Calling
  <2> DEFINE o == IF revision = 0 /\ outcome # "recovery" THEN "unconfirmed" ELSE outcome
  <2>1. o \in Outcomes /\ (o = outcome \/ o = "unconfirmed") BY DEF Outcomes
  <2>2. Ends(o) BY <1>2 DEF Answer, Calling
  <2> HIDE DEF o
  <2> QED BY <1>1, <1>2, <2>1, <2>2, EndsFacts, NoActivationIs
<1>3. CASE worker.step \notin Calling
  BY <1>1, <1>3, NoActivationIs DEF Answer, Calling
<1> QED BY <1>2, <1>3

LEMMA ConcludedKept ==
  ASSUME committed \in Applied, committed' \in Applied,
         committed' = committed \/ committed'.revision = committed.revision + 1
  PROVE  \A r \in Revisions, p \in Policies : ConcludedAs(r, p) => ConcludedAs(r, p)'
BY SMT, AppliedParts, FilterBounds DEF ConcludedAs

-----------------------------------------------------------------------------
(* The status request.                                                      *)

LEMMA StatusKeeps ==
  ASSUME FilterInv, unchangedByStatus, UNCHANGED <<operations, operationsDb>>,
         status' \in StatusRecords, Watched'
  PROVE  FilterInv'
<1> USE DEF FilterInv, unchangedByStatus, filterHistory
<1>1. FilterTyped' BY FilterParts, FilterTypedAgain
<1>2. Files' BY DEF Files, ActivationRecoverable, Stamped
<1>3. InProgress' BY DEF InProgress
<1>4. Employed' BY DEF Employed, Busy, ConcludedAs
<1>5. Called' BY DEF Called
<1>6. Journals' BY DEF Journals, CompletedIn, ConcludedAs
<1>7. Unspoilt' BY DEF Unspoilt, Indexed
<1> QED BY <1>1, <1>2, <1>3, <1>4, <1>5, <1>6, <1>7

LEMMA Unwatched ==
  ASSUME FilterInv, status' = NoStatus
  PROVE  status' \in StatusRecords /\ Watched'
BY SMT, NoStatusIs, NeverAppliedIs DEF Watched, Agrees

LEMMA ReadStateKeeps == FilterInv /\ ReadState => FilterInv'
<1> SUFFICES ASSUME FilterInv, ReadState PROVE FilterInv' OBVIOUS
<1>1. unchangedByStatus /\ UNCHANGED <<operations, operationsDb>>
      /\ status' = [NoStatus EXCEPT !.step = "read", !.seen = Seen(dropIn)]
  BY DEF ReadState
<1>2. /\ Seen(dropIn) \in Applied /\ Seen(dropIn).revision = dropIn.revision
      /\ Seen(dropIn).at = dropIn.at /\ Seen(dropIn).policy = dropIn.policy
  BY FilterParts, FilterBounds DEF Seen, Applied
<1>3. status' \in StatusRecords /\ status'.step = "read" /\ status'.seen = Seen(dropIn)
  BY <1>1, <1>2, NoStatusIs DEF StatusRecords
<1>4. UNCHANGED <<dropIn, committed>> BY <1>1 DEF unchangedByStatus, filterHistory
<1>5. dropIn.at = 1 => dropIn.revision # 0 BY SMT, NeverAppliedIs DEF FilterInv, Files, Stamped
<1>6. dropIn = committed \/ dropIn.revision = committed.revision + 1 BY DEF FilterInv, Files
<1>7. dropIn.revision \in Nat /\ committed.revision \in Nat BY FilterParts, AppliedParts
<1>8. Agrees(dropIn)' BY <1>2, <1>3, <1>4 DEF Agrees
<1>9. Agrees(committed)' BY SMT, <1>2, <1>3, <1>4, <1>6, <1>7 DEF Agrees
<1>10. Watched' BY <1>2, <1>3, <1>4, <1>5, <1>8, <1>9 DEF Watched
<1> QED BY <1>1, <1>3, <1>10, StatusKeeps

LEMMA CheckMarkerKeeps == FilterInv /\ CheckMarker => FilterInv'
<1> SUFFICES ASSUME FilterInv, CheckMarker PROVE FilterInv' OBVIOUS
<1>1. unchangedByStatus /\ UNCHANGED <<operations, operationsDb>> BY DEF CheckMarker
<1>2. CASE status' = NoStatus BY <1>1, <1>2, Unwatched, StatusKeeps
<1>3. CASE marker = "none" /\ status.seen.at # 0 /\ status' = [status EXCEPT !.step = "probe"]
  <2>1. /\ status' \in StatusRecords /\ status'.step = "probe" /\ status'.seen = status.seen
        /\ status'.same = status.same
    BY <1>3, FilterParts DEF StatusRecords
  <2>2. UNCHANGED <<dropIn, committed>> BY <1>1 DEF unchangedByStatus, filterHistory
  <2>3. dropIn = committed BY <1>3 DEF FilterInv, Files, ActivationRecoverable
  <2>4. Watched BY DEF FilterInv
  <2>5. committed.revision \in Nat /\ status.seen.revision \in Nat BY FilterParts, AppliedParts
  <2>6. Agrees(dropIn)' /\ Agrees(committed)' BY <2>1, <2>2, <2>4 DEF Watched, Agrees
  <2>7. ASSUME status.seen.at = 1
        PROVE  \/ ConcludedAs(status.seen.revision, status.seen.policy)
               \/ committed.revision < status.seen.revision /\ dropIn.revision # status.seen.revision
    <3>1. CASE committed.revision > status.seen.revision BY <3>1 DEF ConcludedAs
    <3>2. CASE committed.revision = status.seen.revision
      <4>1. committed.at = 1
        BY <2>4, <2>7, <3>2, NeverAppliedIs DEF Watched, FilterInv, Files, Stamped
      <4> QED BY <2>4, <2>7, <3>2, <4>1 DEF Watched, Agrees, ConcludedAs
    <3>3. CASE committed.revision < status.seen.revision BY SMT, <2>3, <2>5, <3>3
    <3> QED BY SMT, <2>5, <3>1, <3>2, <3>3
  <2>8. Watched' BY <1>3, <2>1, <2>2, <2>4, <2>6, <2>7 DEF Watched, ConcludedAs
  <2> QED BY <1>1, <2>1, <2>8, StatusKeeps
<1> QED BY <1>2, <1>3 DEF CheckMarker

LEMMA ProbeKeeps == FilterInv /\ ProbeOnce => FilterInv'
<1> SUFFICES ASSUME FilterInv, ProbeOnce PROVE FilterInv' OBVIOUS
<1>1. unchangedByStatus /\ UNCHANGED <<operations, operationsDb>> /\ status.step = "probe" BY DEF ProbeOnce
<1>2. CASE status' = NoStatus BY <1>1, <1>2, Unwatched, StatusKeeps
<1>3. CASE status' = [status EXCEPT !.step = "reread"]
  <2>1. /\ status' \in StatusRecords /\ status'.step = "reread" /\ status'.seen = status.seen
        /\ status'.same = status.same
    BY <1>3, FilterParts DEF StatusRecords
  <2>2. UNCHANGED <<dropIn, committed>> BY <1>1 DEF unchangedByStatus, filterHistory
  <2>3. Watched BY DEF FilterInv
  <2>4. Watched' BY <1>1, <2>1, <2>2, <2>3 DEF Watched, Agrees, ConcludedAs
  <2> QED BY <1>1, <2>1, <2>4, StatusKeeps
<1> QED BY <1>2, <1>3 DEF ProbeOnce

LEMMA RereadKeeps == FilterInv /\ RereadState => FilterInv'
<1> SUFFICES ASSUME FilterInv, RereadState PROVE FilterInv' OBVIOUS
<1>1. unchangedByStatus /\ UNCHANGED <<operations, operationsDb>> /\ status.step = "reread"
      /\ status' = [status EXCEPT !.step = "publish", !.same = SameGeneration(dropIn, status.seen)]
  BY DEF RereadState
<1>2. SameGeneration(dropIn, status.seen) \in BOOLEAN BY DEF SameGeneration
<1>3. /\ status' \in StatusRecords /\ status'.step = "publish" /\ status'.seen = status.seen
      /\ status'.same = SameGeneration(dropIn, status.seen)
  BY <1>1, <1>2, FilterParts DEF StatusRecords
<1>4. UNCHANGED <<dropIn, committed>> BY <1>1 DEF unchangedByStatus, filterHistory
<1>5. Watched BY DEF FilterInv
<1>6. status'.same => ConcludedAs(status.seen.revision, status.seen.policy)
  <2> SUFFICES ASSUME status'.same PROVE ConcludedAs(status.seen.revision, status.seen.policy) OBVIOUS
  <2>1. dropIn.revision = status.seen.revision /\ dropIn.at = status.seen.at
    BY <1>3 DEF SameGeneration
  <2>2. CASE status.seen.at = 1 BY <1>1, <1>5, <2>1, <2>2 DEF Watched
  <2>3. status.seen.at # 0 BY <1>1, <1>5 DEF Watched
  <2>4. dropIn.at \in {0, 1} BY NeverAppliedIs DEF FilterInv, Files, Stamped
  <2> QED BY <2>1, <2>2, <2>3, <2>4
<1>7. Watched' BY <1>3, <1>4, <1>5, <1>6 DEF Watched, Agrees, ConcludedAs
<1> QED BY <1>1, <1>3, <1>7, StatusKeeps

LEMMA PublishKeeps == FilterInv /\ PublishProbe => FilterInv'
<1> SUFFICES ASSUME FilterInv, PublishProbe PROVE FilterInv' OBVIOUS
<1>1. unchangedByStatus /\ UNCHANGED <<operations, operationsDb>> /\ status.step = "publish"
  BY DEF PublishProbe
<1>2. CASE status' = NoStatus BY <1>1, <1>2, Unwatched, StatusKeeps
<1>3. CASE status.same /\ status' = [status EXCEPT !.step = "reply"]
  <2>1. /\ status' \in StatusRecords /\ status'.step = "reply" /\ status'.seen = status.seen
        /\ status'.same = status.same
    BY <1>3, FilterParts DEF StatusRecords
  <2>2. UNCHANGED <<dropIn, committed>> BY <1>1 DEF unchangedByStatus, filterHistory
  <2>3. Watched BY DEF FilterInv
  <2>4. Watched' BY <1>1, <1>3, <2>1, <2>2, <2>3 DEF Watched, Agrees, ConcludedAs
  <2> QED BY <1>1, <2>1, <2>4, StatusKeeps
<1> QED BY <1>2, <1>3 DEF PublishProbe

LEMMA OperationParts ==
  ASSUME NEW op \in Operation
  PROVE  op.state \in States /\ op.target \in Revisions /\ op.target \in Nat /\ op.policy \in Policies
<1>1. op.state \in States /\ op.target \in Revisions /\ op.policy \in Policies BY DEF Operation
<1> QED BY <1>1, FilterBounds

\* The newest operation of a journal is rewritten.
LEMMA RewriteFacts ==
  ASSUME NEW ops \in Seq(Operation), ops # <<>>, NEW op \in Operation, CompletedIn(ops),
         op.state = "completed" => ConcludedAs(op.target, op.policy),
         NEW written, written = [ops EXCEPT ![1] = op]
  PROVE  /\ written \in Seq(Operation) /\ Len(written) = Len(ops) /\ written # <<>>
         /\ written[1] = op /\ CompletedIn(written)
<1>1. Len(ops) \in Nat /\ DOMAIN ops = 1..Len(ops) /\ Len(ops) # 0 BY EmptySeq, LenProperties
<1>2. 1 \in DOMAIN ops BY SMT, <1>1
<1>3. written \in Seq(Operation) /\ Len(written) = Len(ops) BY SMT, ExceptSeq, <1>2
<1>4. DOMAIN written = DOMAIN ops /\ written[1] = op /\ \A i \in DOMAIN ops : i # 1 => written[i] = ops[i]
  BY <1>2
<1>5. written # <<>> BY SMT, <1>2, <1>4
<1>6. CompletedIn(written) BY <1>4 DEF CompletedIn
<1> QED BY <1>3, <1>4, <1>5, <1>6

LEMMA FirstOperation ==
  ASSUME NEW ops \in Seq(Operation), ops # <<>>
  PROVE  1 \in DOMAIN ops /\ ops[1] \in Operation
BY SMT, EmptySeq, LenProperties, ElementOfSeq

Phases == {"working", "verified", "interrupted", "outcome_unknown", "recovery_required"}
Restated(o, s, p) == [o EXCEPT !.state = s, !.phase = p]
LEMMA RestateFacts ==
  ASSUME NEW o \in Operation, NEW s \in States, NEW p \in Phases
  PROVE  /\ Restated(o, s, p) \in Operation /\ Restated(o, s, p).state = s
         /\ Restated(o, s, p).target = o.target /\ Restated(o, s, p).policy = o.policy
<1> DEFINE op == [o EXCEPT !.state = s, !.phase = p]
<1>1. o \in [state : States, target : Revisions, policy : Policies, phase : Phases]
  BY DEF Operation, Phases
<1>2. op \in [state : States, target : Revisions, policy : Policies, phase : Phases]
  BY <1>1
<1>3. op.state = s /\ op.target = o.target /\ op.policy = o.policy BY <1>1
<1> QED BY <1>2, <1>3 DEF Operation, Phases, Restated

\* The journal in memory is rewritten and the worker at rest.
LEMMA ReconcileKeeps == FilterInv /\ reconcile_filter_operation => FilterInv'
<1> SUFFICES ASSUME FilterInv, reconcile_filter_operation PROVE FilterInv' OBVIOUS
<1>1. unchangedByStatus /\ status' = NoStatus /\ status.step = "reply" BY DEF reconcile_filter_operation
<1>2. CASE UNCHANGED <<operations, operationsDb>> BY <1>1, <1>2, Unwatched, StatusKeeps
<1>3. CASE /\ operations # <<>> /\ operations[1].state = "needs_review"
           /\ Confirms(status.seen, operations[1])
           /\ operations' = [operations EXCEPT ![1].state = "completed", ![1].phase = "verified"]
           /\ operationsDb' = operations'
  <2> USE DEF FilterInv
  <2>1. 1 \in DOMAIN operations /\ operations[1] \in Operation BY <1>3, FilterParts, FirstOperation
  <2> DEFINE op == Restated(operations[1], "completed", "verified")
  <2>2. op \in Operation /\ op.target = operations[1].target /\ op.policy = operations[1].policy
    <3>1. "completed" \in States /\ "verified" \in Phases BY DEF States, Phases
    <3> QED BY SMT, <2>1, <3>1, RestateFacts
  <2>3. operations' = [operations EXCEPT ![1] = op] BY <1>3, <2>1, FilterParts DEF Restated
  <2> HIDE DEF op
  <2>4. ConcludedAs(op.target, op.policy)
    BY <1>1, <1>3, <2>2 DEF Watched, Confirms
  <2>5. /\ operations' \in Seq(Operation) /\ Len(operations') = Len(operations)
        /\ CompletedIn(operations')
    <3>1. operations \in Seq(Operation) /\ CompletedIn(operations) BY FilterParts DEF Journals
    <3> QED BY <1>3, <2>2, <2>3, <2>4, <3>1, RewriteFacts, Zenon
  <2>6. ~Busy BY <1>3 DEF Employed
  <2>7. UNCHANGED <<dropIn, previousFile, marker, dnsmasq, helperUp, activation, worker,
                    catalogs, committed, mishaps>>
    BY <1>1 DEF unchangedByStatus, filterHistory
  <2>8. status' \in StatusRecords /\ Watched' BY <1>1, Unwatched
  <2>9. FilterTyped' BY <1>3, <2>5, <2>7, <2>8, FilterParts, FilterTypedAgain
  <2>10. Files' BY <2>7 DEF Files, ActivationRecoverable, Stamped
  <2>11. InProgress' BY <2>7 DEF InProgress
  <2>12. Employed' BY <2>6, <2>7 DEF Employed, Busy, Early, Calling
  <2>13. Called' BY <2>7 DEF Called
  <2>14. Journals' BY <1>3, <2>5, <2>7 DEF Journals, CompletedIn, ConcludedAs
  <2>15. Unspoilt' BY <2>7 DEF Unspoilt, Indexed
  <2> QED BY <2>8, <2>9, <2>10, <2>11, <2>12, <2>13, <2>14, <2>15
<1> QED BY <1>2, <1>3 DEF reconcile_filter_operation

-----------------------------------------------------------------------------
(* The worker.                                                              *)

LEMMA ServiceKeeps ==
  ASSUME FilterInv, UNCHANGED <<dropIn, previousFile, marker, dnsmasq, helperUp, status, committed>>,
         activation' \in Activations, worker' \in WorkerRecords, catalogs' \in CatalogSlots,
         mishaps' \in Nat, mishaps' <= MaxMishaps,
         operations' \in Seq(Operation), operationsDb' \in Seq(Operation),
         Len(operations') <= OPERATION_RETENTION, Len(operationsDb') <= OPERATION_RETENTION,
         InProgress', Employed', Called', Journals', Unspoilt'
  PROVE  FilterInv'
<1> USE DEF FilterInv
<1>1. FilterTyped' BY FilterParts, FilterTypedAgain
<1>2. Files' BY DEF Files, ActivationRecoverable, Stamped
<1>3. Watched' BY DEF Watched, Agrees, ConcludedAs
<1> QED BY <1>1, <1>2, <1>3

LEMMA RetainFacts ==
  ASSUME NEW op \in Operation, op.state # "completed", NEW ops \in Seq(Operation), CompletedIn(ops),
         NEW kept, kept = Retain(<<op>> \o ops)
  PROVE  /\ kept \in Seq(Operation) /\ Len(kept) <= OPERATION_RETENTION
         /\ kept # <<>> /\ kept[1] = op /\ CompletedIn(kept)
<1> DEFINE all == <<op>> \o ops
<1>1. Len(ops) \in Nat /\ DOMAIN ops = 1..Len(ops) BY LenProperties
<1>2. <<op>> \in Seq(Operation) /\ Len(<<op>>) = 1 /\ <<op>>[1] = op BY SMT
<1>3. /\ all \in Seq(Operation) /\ Len(all) = 1 + Len(ops) /\ all[1] = op
      /\ \A i \in 1..Len(ops) : all[i + 1] = ops[i]
  BY SMT, <1>1, <1>2
<1>4. \A i \in 1..Len(all) : all[i] = op \/ \E j \in 1..Len(ops) : all[i] = ops[j]
  <2> TAKE i \in 1..Len(all)
  <2>1. CASE i = 1 BY <1>3, <2>1
  <2>2. CASE i # 1
    <3>1. i - 1 \in 1..Len(ops) /\ (i - 1) + 1 = i BY SMT, <1>1, <1>3, <2>2
    <3> QED BY <1>3, <3>1
  <2> QED BY <2>1, <2>2
<1> HIDE DEF all
<1>5. kept = IF Len(all) > OPERATION_RETENTION THEN SubSeq(all, 1, OPERATION_RETENTION) ELSE all
  BY DEF Retain, all
<1>6. /\ kept \in Seq(Operation) /\ Len(kept) <= OPERATION_RETENTION /\ Len(kept) # 0
      /\ Len(kept) <= Len(all) /\ Len(kept) \in Nat /\ \A i \in 1..Len(kept) : kept[i] = all[i]
  <2>0. Len(all) \in Nat /\ Len(all) # 0 BY SMT, <1>1, <1>3
  <2>1. CASE Len(all) > OPERATION_RETENTION
    <3>1. kept = SubSeq(all, 1, OPERATION_RETENTION) BY <1>5, <2>1
    <3> DEFINE n == OPERATION_RETENTION
    <3>2. n \in Int /\ 1 <= n /\ n - 1 + 1 = n BY SMT, FilterBounds
    <3>3. \A i \in 1..n : all[i] \in Operation /\ 1 + i - 1 = i BY SMT, <1>3, <2>0, <2>1, <3>2
    <3>4. SubSeq(all, 1, n) \in Seq(Operation) BY SMT, <3>2, <3>3, SubSeqProperties
    <3>5. Len(SubSeq(all, 1, n)) = n BY SMT, <3>2, <3>3, SubSeqProperties
    <3>6. \A i \in 1..n : SubSeq(all, 1, n)[i] = all[i]
      <4>1. \A i \in 1..(n - 1 + 1) : SubSeq(all, 1, n)[i] = all[1 + i - 1]
        BY SMT, <3>2, <3>3, SubSeqProperties
      <4> QED BY <3>2, <3>3, <4>1
    <3>7. kept \in Seq(Operation) /\ Len(kept) = n BY <3>1, <3>4, <3>5
    <3>8. \A i \in 1..Len(kept) : kept[i] = all[i] BY <3>1, <3>6, <3>7
    <3>9. n \in Nat /\ n # 0 /\ n <= Len(all) /\ n <= OPERATION_RETENTION BY SMT, <2>0, <2>1, FilterBounds
    <3> HIDE DEF n
    <3> QED BY <3>7, <3>8, <3>9
  <2>2. CASE ~(Len(all) > OPERATION_RETENTION)
    <3>1. kept = all BY <1>5, <2>2
    <3>2. Len(all) <= OPERATION_RETENTION BY SMT, <2>0, <2>2, FilterBounds
    <3>3. all \in Seq(Operation) BY <1>3
    <3>4. Len(all) <= Len(all) BY SMT, <2>0
    <3> QED BY <2>0, <3>1, <3>2, <3>3, <3>4
  <2> QED BY <2>1, <2>2
<1>7. kept # <<>> BY <1>6, EmptySeq
<1>8. kept[1] = op BY SMT, <1>3, <1>6
<1>9. CompletedIn(kept)
  <2> SUFFICES ASSUME NEW i \in DOMAIN kept, kept[i].state = "completed"
               PROVE  ConcludedAs(kept[i].target, kept[i].policy)
    BY DEF CompletedIn
  <2>1. i \in 1..Len(kept) BY <1>6, LenProperties
  <2>2. i \in 1..Len(all) /\ kept[i] = all[i] BY SMT, <1>1, <1>3, <1>6, <2>1
  <2>3. PICK j \in 1..Len(ops) : kept[i] = ops[j] BY <1>4, <2>2
  <2> QED BY <1>1, <2>3 DEF CompletedIn
<1> QED BY <1>6, <1>7, <1>8, <1>9

LEMMA StartKeeps == FilterInv /\ start_operation => FilterInv'
<1> SUFFICES ASSUME FilterInv, start_operation PROVE FilterInv' OBVIOUS
<1> USE DEF FilterInv
<1>1. PICK policy \in Policies, base \in Revisions, again \in BOOLEAN :
        /\ ~Busy /\ base < MaxRevision
        /\ operations' = Retain(<<[state |-> "running", phase |-> "working", target |-> base + 1,
                                   policy |-> policy]>> \o operations)
        /\ operationsDb' = operations'
        /\ worker' = [NoWork EXCEPT !.step = "preparing", !.policy = policy, !.base = base,
                                    !.refresh = again]
        /\ UNCHANGED <<helperVars, catalogs, status, filterHistory>>
  BY DEF start_operation
<1> DEFINE op == [state |-> "running", phase |-> "working", target |-> base + 1, policy |-> policy]
<1>2. base + 1 \in Revisions BY SMT, <1>1, FilterBounds
<1>3. op \in Operation /\ op.state = "running" /\ op.target = base + 1 /\ op.policy = policy
  BY <1>2 DEF Operation, States
<1>4. operations' = Retain(<<op>> \o operations) BY <1>1
<1> HIDE DEF op
<1>5. /\ operations' \in Seq(Operation) /\ Len(operations') <= OPERATION_RETENTION
      /\ operations' # <<>> /\ operations'[1] = op /\ CompletedIn(operations')
  BY <1>3, <1>4, FilterParts, RetainFacts DEF Journals
<1>6. /\ worker' \in WorkerRecords /\ worker'.step = "preparing" /\ worker'.policy = policy
      /\ worker'.base = base /\ worker'.wrote = NoWork.wrote /\ worker'.list = 0
  BY <1>1, NoWorkIs DEF WorkerRecords
<1>7. UNCHANGED <<dropIn, previousFile, marker, dnsmasq, helperUp, activation, catalogs, status,
                  committed, mishaps>>
  BY <1>1 DEF helperVars, filterHistory
<1>8. InProgress' BY <1>7 DEF InProgress
<1>9. Employed' BY <1>3, <1>5, <1>6 DEF Employed, Busy, Early, Calling
<1>10. Called' BY <1>6, NoWorkIs DEF Called
<1>11. Journals' BY <1>1, <1>5, <1>7 DEF Journals, CompletedIn, ConcludedAs
<1>12. Unspoilt' BY SMT, <1>1, <1>6, <1>7 DEF Unspoilt, Indexed, Busy, Calling
<1> QED BY <1>1, <1>5, <1>6, <1>7, <1>8, <1>9, <1>10, <1>11, <1>12, FilterParts, ServiceKeeps

LEMMA PrepareKeeps == FilterInv /\ PrepareOperation => FilterInv'
<1> SUFFICES ASSUME FilterInv, PrepareOperation PROVE FilterInv' OBVIOUS
<1> USE DEF FilterInv
<1>1. UNCHANGED <<dropIn, previousFile, marker, dnsmasq, helperUp, activation, operations, operationsDb,
                  catalogs, status, committed, mishaps>> /\ worker.step = "preparing"
  BY DEF PrepareOperation, helperVars, filterHistory
<1>2. ~worker.wrote BY <1>1 DEF Called
<1>3. InProgress' /\ Journals' BY <1>1 DEF InProgress, Journals, CompletedIn, ConcludedAs
<1>4. mishaps = 0 => activation.step = "idle" /\ marker = "none" BY <1>1 DEF Unspoilt, Calling
<1>5. SUFFICES worker' \in WorkerRecords /\ Employed' /\ Called' /\ Unspoilt'
  BY <1>1, <1>3, FilterParts, ServiceKeeps
<1>6. CASE Ends("failed")
  <2>1. worker' \in WorkerRecords /\ worker'.step = "finish" /\ worker'.outcome = "failed"
        /\ worker'.wrote = worker.wrote
    BY <1>6, FilterParts, EndsFacts DEF Outcomes
  <2>2. Employed' BY <1>1, <2>1 DEF Employed, Busy, Early, Calling
  <2>3. Called' BY <1>2, <2>1 DEF Called
  <2>4. Unspoilt' BY <1>1, <1>4, <2>1 DEF Unspoilt, Indexed
  <2> QED BY <2>1, <2>2, <2>3, <2>4
<1>7. ASSUME NEW list \in Lists, worker' = [worker EXCEPT !.step = "applying", !.list = list],
             mishaps = 0 => Indexed(list)
      PROVE  worker' \in WorkerRecords /\ Employed' /\ Called' /\ Unspoilt'
  <2>1. /\ worker' \in WorkerRecords /\ worker'.step = "applying" /\ worker'.list = list
        /\ worker'.wrote = worker.wrote /\ worker'.base = worker.base /\ worker'.policy = worker.policy
    BY <1>7, FilterParts DEF WorkerRecords
  <2>2. Employed' BY <1>1, <2>1 DEF Employed, Busy, Early, Calling
  <2>3. Called' BY <1>2, <2>1 DEF Called
  <2>4. Unspoilt' BY <1>1, <1>4, <1>7, <2>1 DEF Unspoilt, Indexed
  <2> QED BY <2>1, <2>2, <2>3, <2>4
<1>8. CASE worker.policy \notin Listed /\ worker' = [worker EXCEPT !.step = "applying"]
  <2>1. worker' = [worker EXCEPT !.step = "applying", !.list = worker.list]
    BY <1>8, FilterParts DEF WorkerRecords
  <2>2. mishaps = 0 => Indexed(worker.list) BY <1>1 DEF Unspoilt
  <2> QED BY <1>7, <2>1, <2>2, FilterParts
<1>9. ASSUME NEW slot \in catalog_index(dropIn.list),
             worker' = [worker EXCEPT !.step = "applying", !.list = catalogs[slot]]
      PROVE  worker' \in WorkerRecords /\ Employed' /\ Called' /\ Unspoilt'
  <2>1. slot \in {0, 1} BY DEF catalog_index
  <2>2. catalogs[slot] \in Lists /\ Indexed(catalogs[slot])
    BY <2>1, FilterParts DEF CatalogSlots, Indexed
  <2> QED BY <1>7, <1>9, <2>2
<1>10. ASSUME NEW slot \in IF catalog_index(dropIn.list) = {} THEN {-1} ELSE catalog_index(dropIn.list),
              worker' = [worker EXCEPT !.step = "downloading", !.slot = OtherSlot(slot)]
       PROVE  worker' \in WorkerRecords /\ Employed' /\ Called' /\ Unspoilt'
  <2>1. OtherSlot(slot) \in {0, 1} BY DEF OtherSlot
  <2>2. /\ worker' \in WorkerRecords /\ worker'.step = "downloading" /\ worker'.slot = OtherSlot(slot)
        /\ worker'.wrote = worker.wrote /\ worker'.base = worker.base /\ worker'.policy = worker.policy
    BY <1>10, <2>1, FilterParts DEF WorkerRecords
  <2>3. Employed' BY <1>1, <2>2 DEF Employed, Busy, Early, Calling
  <2>4. Called' BY <1>2, <2>2 DEF Called
  <2>5. mishaps = 0 => dropIn.list = 0 \/ catalogs[OtherSlot(OtherSlot(slot))] = dropIn.list
    <3> SUFFICES ASSUME mishaps = 0, dropIn.list # 0
                 PROVE  catalogs[OtherSlot(OtherSlot(slot))] = dropIn.list
      OBVIOUS
    <3>1. PICK held \in {0, 1} : catalogs[held] = dropIn.list BY DEF Unspoilt, Indexed
    <3>2. catalog_index(dropIn.list) # {} BY <3>1 DEF catalog_index
    <3>3. slot \in {0, 1} /\ catalogs[slot] = dropIn.list BY <1>10, <3>2 DEF catalog_index
    <3> QED BY <3>3 DEF OtherSlot
  <2>6. Unspoilt' BY <1>1, <1>4, <2>2, <2>5 DEF Unspoilt, Indexed
  <2> QED BY <2>2, <2>3, <2>4, <2>6
<1> QED BY <1>6, <1>8, <1>9, <1>10 DEF PrepareOperation

LEMMA DownloadKeeps == FilterInv /\ download_catalog => FilterInv'
<1> SUFFICES ASSUME FilterInv, download_catalog PROVE FilterInv' OBVIOUS
<1> USE DEF FilterInv
<1>1. UNCHANGED <<dropIn, previousFile, marker, dnsmasq, helperUp, activation, operations, operationsDb,
                  status, committed, mishaps>> /\ worker.step \in {"downloading", "building"}
  BY DEF download_catalog, helperVars, filterHistory
<1>2. ~worker.wrote BY <1>1 DEF Called
<1>3. InProgress' /\ Journals' BY <1>1 DEF InProgress, Journals, CompletedIn, ConcludedAs
<1>4. mishaps = 0 => /\ activation.step = "idle" /\ marker = "none" /\ dropIn = committed
                     /\ dropIn.list = 0 \/ catalogs[OtherSlot(worker.slot)] = dropIn.list
  BY <1>1 DEF Unspoilt, Calling, Files, ActivationRecoverable
<1>5. SUFFICES worker' \in WorkerRecords /\ catalogs' \in CatalogSlots /\ Employed' /\ Called' /\ Unspoilt'
  BY <1>1, <1>3, FilterParts, ServiceKeeps
<1>6. CASE Ends("failed") /\ UNCHANGED catalogs
  <2>1. worker' \in WorkerRecords /\ worker'.step = "finish" /\ worker'.outcome = "failed"
        /\ worker'.wrote = worker.wrote
    BY <1>6, FilterParts, EndsFacts DEF Outcomes
  <2>2. Employed' BY <1>1, <2>1 DEF Employed, Busy, Early, Calling
  <2>3. Called' BY <1>2, <2>1 DEF Called
  <2>4. Unspoilt' BY <1>1, <1>4, <1>6, <2>1 DEF Unspoilt, Indexed
  <2> QED BY <1>6, <2>1, <2>2, <2>3, <2>4, FilterParts
<1>7. ASSUME NEW list \in Lists, catalogs' = [catalogs EXCEPT ![worker.slot] = list]
      PROVE  /\ catalogs' \in CatalogSlots /\ catalogs'[worker.slot] = list
             /\ mishaps = 0 => dropIn.list = 0 \/ catalogs'[OtherSlot(worker.slot)] = dropIn.list
             /\ mishaps = 0 => dropIn.list = 0 \/ \E slot \in {0, 1} : catalogs'[slot] = dropIn.list
  <2>1. OtherSlot(worker.slot) \in {0, 1} /\ OtherSlot(worker.slot) # worker.slot
    BY SMT, FilterParts DEF OtherSlot
  <2>2. catalogs' \in CatalogSlots /\ catalogs'[worker.slot] = list
        /\ catalogs'[OtherSlot(worker.slot)] = catalogs[OtherSlot(worker.slot)]
    BY <1>7, <2>1, FilterParts DEF CatalogSlots
  <2> QED BY <1>4, <2>1, <2>2
<1>8. CASE /\ worker' = [worker EXCEPT !.step = "building"]
           /\ catalogs' = [catalogs EXCEPT ![worker.slot] = 0]
  <2>1. /\ worker' \in WorkerRecords /\ worker'.step = "building" /\ worker'.slot = worker.slot
        /\ worker'.wrote = worker.wrote /\ worker'.base = worker.base /\ worker'.policy = worker.policy
    BY <1>8, FilterParts DEF WorkerRecords
  <2>2. /\ catalogs' \in CatalogSlots
        /\ mishaps = 0 => dropIn.list = 0 \/ catalogs'[OtherSlot(worker.slot)] = dropIn.list
        /\ mishaps = 0 => dropIn.list = 0 \/ \E slot \in {0, 1} : catalogs'[slot] = dropIn.list
    BY <1>7, <1>8, FilterBounds
  <2>3. Employed' BY <1>1, <2>1 DEF Employed, Busy, Early, Calling
  <2>4. Called' BY <1>2, <2>1 DEF Called
  <2>5. Unspoilt' BY <1>1, <1>4, <2>1, <2>2 DEF Unspoilt, Indexed
  <2> QED BY <2>1, <2>2, <2>3, <2>4, <2>5
<1>9. ASSUME NEW list \in Lists, catalogs' = [catalogs EXCEPT ![worker.slot] = list],
             worker' = [worker EXCEPT !.step = "applying", !.list = list]
      PROVE  worker' \in WorkerRecords /\ catalogs' \in CatalogSlots /\ Employed' /\ Called' /\ Unspoilt'
  <2>1. /\ worker' \in WorkerRecords /\ worker'.step = "applying" /\ worker'.list = list
        /\ worker'.wrote = worker.wrote /\ worker'.base = worker.base /\ worker'.policy = worker.policy
    BY <1>9, FilterParts DEF WorkerRecords
  <2>2. /\ catalogs' \in CatalogSlots /\ catalogs'[worker.slot] = list
        /\ mishaps = 0 => dropIn.list = 0 \/ \E slot \in {0, 1} : catalogs'[slot] = dropIn.list
    BY <1>7, <1>9
  <2>3. Employed' BY <1>1, <2>1 DEF Employed, Busy, Early, Calling
  <2>4. Called' BY <1>2, <2>1 DEF Called
  <2>5. \E slot \in {0, 1} : catalogs'[slot] = list BY <2>2, FilterParts
  <2>6. Unspoilt' BY <1>1, <1>4, <2>1, <2>2, <2>5 DEF Unspoilt, Indexed
  <2> QED BY <2>1, <2>2, <2>3, <2>4, <2>6
<1> QED BY <1>6, <1>8, <1>9 DEF download_catalog

LEMMA CallKeeps == FilterInv /\ CallHelper => FilterInv'
<1> SUFFICES ASSUME FilterInv, CallHelper PROVE FilterInv' OBVIOUS
<1> USE DEF FilterInv
<1>1. UNCHANGED <<dropIn, previousFile, marker, dnsmasq, helperUp, operations, operationsDb, catalogs,
                  status, committed, mishaps>> /\ worker.step = "applying"
  BY DEF CallHelper, filterHistory
<1>2. ~worker.wrote BY <1>1 DEF Called
<1>3. Journals' BY <1>1 DEF Journals, CompletedIn, ConcludedAs
<1>4. mishaps = 0 => activation.step = "idle" /\ marker = "none" BY <1>1 DEF Unspoilt, Calling
<1>5. ASSUME NEW o \in {"failed", "unconfirmed"}, Ends(o), UNCHANGED activation
      PROVE  FilterInv'
  <2>1. worker' \in WorkerRecords /\ worker'.step = "finish" /\ worker'.outcome = o
        /\ worker'.wrote = worker.wrote
    BY <1>5, FilterParts, EndsFacts DEF Outcomes
  <2>2. Employed' BY <1>1, <2>1 DEF Employed, Busy, Early, Calling
  <2>3. Called' BY <1>2, <2>1 DEF Called
  <2>4. Unspoilt' BY <1>1, <1>4, <1>5, <2>1 DEF Unspoilt, Indexed
  <2>5. InProgress' BY <1>1, <1>5 DEF InProgress
  <2> QED BY <1>1, <1>3, <1>5, <2>1, <2>2, <2>3, <2>4, <2>5, FilterParts, ServiceKeeps
<1>6. CASE /\ helperUp
           /\ worker' = [NoWork EXCEPT !.step = "streaming"]
           /\ activation' =
                [step |-> "stream",
                 new |-> [revision |-> worker.base + 1, policy |-> worker.policy,
                          at |-> 1, list |-> worker.list, whole |-> TRUE]]
  <2> DEFINE new == [revision |-> worker.base + 1, policy |-> worker.policy,
                     at |-> 1, list |-> worker.list, whole |-> TRUE]
  <2>1. operations # <<>> /\ operations[1].target = worker.base + 1 /\ operations[1].policy = worker.policy
        /\ operations[1].state = "running"
    BY <1>1 DEF Employed, Early, Busy
  <2>2. operations[1].target \in Revisions /\ worker.base \in Nat
    BY <2>1, FilterParts, FilterBounds, FirstOperation, OperationParts
  <2>3. worker.base + 1 \in Revisions /\ worker.base + 1 # 0 BY SMT, <2>1, <2>2
  <2>4. /\ new \in Applied /\ new.revision = worker.base + 1 /\ new.policy = worker.policy /\ new.at = 1
        /\ new.list = worker.list
    BY SMTT(30), <2>3, FilterParts DEF Applied
  <2>5. activation' = [step |-> "stream", new |-> new] BY <1>6
  <2> HIDE DEF new
  <2>6. activation' \in Activations /\ activation'.step = "stream" /\ activation'.new = new
    BY <2>4, <2>5 DEF Activations
  <2>7. worker' \in WorkerRecords /\ worker'.step = "streaming" /\ worker'.wrote = NoWork.wrote
    BY <1>6, NoWorkIs DEF WorkerRecords
  <2>8. InProgress' BY <1>1, <1>6, <2>3, <2>4, <2>6 DEF InProgress, Locked
  <2>9. Employed' BY <1>1, <2>1, <2>4, <2>6, <2>7 DEF Employed, Busy, Early, Calling
  <2>10. Called' BY <2>6, <2>7, NoWorkIs DEF Called
  <2>11. Unspoilt' BY <1>1, <2>4, <2>6, <2>7 DEF Unspoilt, Indexed, Calling
  <2> QED BY <1>1, <1>3, <2>6, <2>7, <2>8, <2>9, <2>10, <2>11, FilterParts, ServiceKeeps
<1> QED BY <1>5, <1>6 DEF CallHelper

LEMMA CutFacts ==
  ASSUME FilterInv, CutStream, UNCHANGED <<dropIn, previousFile, marker, helperUp, committed>>
  PROVE  activation' \in Activations /\ InProgress'
<1> USE DEF FilterInv
<1>1. CASE activation' = activation
  <2>1. InProgress' BY <1>1 DEF InProgress
  <2> QED BY <1>1, <2>1, FilterParts
<1>2. CASE activation' = NoActivation
  <2>1. activation' \in Activations /\ activation'.step = "idle" BY <1>2, NoActivationIs
  <2>2. InProgress' BY <2>1 DEF InProgress, Locked
  <2> QED BY <2>1, <2>2
<1>3. CASE /\ activation.step = "stream"
           /\ activation' = [activation EXCEPT !.step = "lock", !.new.whole = (activation.new.list = 0)]
  <2> DEFINE new == [activation.new EXCEPT !.whole = (activation.new.list = 0)]
  <2>1. (activation.new.list = 0) \in BOOLEAN OBVIOUS
  <2>2. new \in Applied /\ new.at = activation.new.at /\ new.revision = activation.new.revision
    BY <2>1, FilterParts DEF Applied
  <2>3. activation' = [activation EXCEPT !.step = "lock", !.new = new]
    BY <1>3, FilterParts DEF Activations
  <2> HIDE DEF new
  <2>4. activation' \in Activations /\ activation'.step = "lock" /\ activation'.new = new
    BY <2>2, <2>3, FilterParts DEF Activations
  <2>5. InProgress' BY <1>3, <2>2, <2>4 DEF InProgress, Locked
  <2> QED BY <2>4, <2>5
<1> QED BY <1>1, <1>2, <1>3 DEF CutStream

LEMMA StreamKeeps == FilterInv /\ StreamDomains => FilterInv'
<1> SUFFICES ASSUME FilterInv, StreamDomains PROVE FilterInv' OBVIOUS
<1> USE DEF FilterInv
<1>1. UNCHANGED <<dropIn, previousFile, marker, dnsmasq, helperUp, operations, operationsDb, catalogs,
                  status, committed>> /\ worker.step = "streaming" /\ activation.step = "stream"
  BY DEF StreamDomains, Called
<1>2. ~worker.wrote BY <1>1 DEF Called
<1>3. Journals' BY <1>1 DEF Journals, CompletedIn, ConcludedAs
<1>4. CASE worker' = [worker EXCEPT !.step = "waiting"] /\ To("lock") /\ UNCHANGED mishaps
  <2>1. worker' \in WorkerRecords /\ worker'.step = "waiting" /\ worker'.wrote = worker.wrote
    BY <1>4, FilterParts DEF WorkerRecords
  <2>2. activation' \in Activations /\ activation'.step = "lock" /\ activation'.new = activation.new
    BY <1>4, FilterParts, ToFacts
  <2>3. InProgress' BY <1>1, <2>2 DEF InProgress, Locked
  <2>4. Employed' BY <1>1, <2>1, <2>2 DEF Employed, Busy, Early, Calling
  <2>5. Called' BY <1>2, <2>1, <2>2 DEF Called
  <2>6. Unspoilt' BY <1>1, <1>4, <2>1, <2>2 DEF Unspoilt, Indexed, Calling
  <2> QED BY <1>1, <1>3, <1>4, <2>1, <2>2, <2>3, <2>4, <2>5, <2>6, FilterParts, ServiceKeeps
<1>5. CASE Ends("unconfirmed") /\ CutStream /\ Mishap
  <2>1. worker' \in WorkerRecords /\ worker'.step = "finish" /\ worker'.outcome = "unconfirmed"
        /\ worker'.wrote = worker.wrote
    BY <1>5, FilterParts, EndsFacts DEF Outcomes
  <2>2. activation' \in Activations /\ InProgress' BY <1>1, <1>5, CutFacts
  <2>3. mishaps' \in Nat /\ mishaps' <= MaxMishaps /\ mishaps' # 0 BY <1>5, MishapFacts
  <2>4. Employed' BY <1>1, <2>1 DEF Employed, Busy, Early, Calling
  <2>5. Called' BY <1>2, <2>1 DEF Called
  <2>6. Unspoilt' BY <2>3 DEF Unspoilt
  <2> QED BY <1>1, <1>3, <2>1, <2>2, <2>3, <2>4, <2>5, <2>6, FilterParts, ServiceKeeps
<1> QED BY <1>4, <1>5 DEF StreamDomains

LEMMA TimeoutKeeps == FilterInv /\ CallTimeout => FilterInv'
<1> SUFFICES ASSUME FilterInv, CallTimeout PROVE FilterInv' OBVIOUS
<1> USE DEF FilterInv
<1>1. UNCHANGED <<dropIn, previousFile, marker, dnsmasq, helperUp, activation, operations, operationsDb,
                  catalogs, status, committed>> /\ worker.step = "waiting"
  BY DEF CallTimeout, helperVars
<1>2. worker' \in WorkerRecords /\ worker'.step = "finish" /\ worker'.outcome = "unconfirmed"
      /\ worker'.wrote = worker.wrote
  BY FilterParts, EndsFacts DEF CallTimeout, Outcomes
<1>3. mishaps' \in Nat /\ mishaps' <= MaxMishaps /\ mishaps' # 0 BY MishapFacts DEF CallTimeout
<1>4. Journals' /\ InProgress' BY <1>1 DEF Journals, CompletedIn, ConcludedAs, InProgress
<1>5. Employed' BY <1>1, <1>2 DEF Employed, Busy, Early, Calling
<1>6. Called' BY <1>2 DEF Called
<1>7. Unspoilt' BY <1>3 DEF Unspoilt
<1> QED BY <1>1, <1>2, <1>3, <1>4, <1>5, <1>6, <1>7, FilterParts, ServiceKeeps

LEMMA EndedIs ==
  ASSUME NEW state \in States, NEW phase \in Phases,
         NEW op, op = [state |-> state, phase |-> phase, target |-> 0, policy |-> DefaultPolicy]
  PROVE  op \in Operation /\ op.phase = phase /\ op.state = state
<1>1. op \in Operation BY FilterBounds DEF Operation, Phases
<1> QED BY <1>1

LEMMA SettledFacts ==
  ASSUME operations[1] \in Operation, NEW o \in Outcomes, NEW op, op = SettledOperation(o)
  PROVE  /\ op \in Operation /\ op.phase \in Phases
         /\ op.state = "completed" =>
              o = "ok" /\ op.target = operations[1].target /\ op.policy = operations[1].policy
<1> DEFINE first == operations[1]
<1>1. \A n \in {"working", "verified", "outcome_unknown", "recovery_required"} : n \in Phases BY DEF Phases
<1>2. \A n \in {"completed", "rolled_back", "needs_review", "failed"} : n \in States BY DEF States
<1>3. \A q \in Operation : q.phase \in Phases BY DEF Operation, Phases
<1>4. CASE o = "ok"
  <2>1. op = Restated(first, "completed", "verified") BY <1>4 DEF SettledOperation, Restated
  <2> HIDE DEF first
  <2>2. first \in Operation BY DEF first
  <2>3. op \in Operation /\ op.target = first.target /\ op.policy = first.policy
    <3>1. "completed" \in States /\ "verified" \in Phases BY DEF States, Phases
    <3> QED BY SMT, <2>1, <2>2, <3>1, RestateFacts
  <2> QED BY <1>3, <1>4, <2>3 DEF first
<1>5. CASE o = "unconfirmed"
  <2>1. op = Restated(first, "needs_review", "outcome_unknown") BY <1>5 DEF SettledOperation, Restated
  <2> HIDE DEF first
  <2>2. first \in Operation BY DEF first
  <2>3. op \in Operation /\ op.state = "needs_review"
    <3>1. "needs_review" \in States /\ "outcome_unknown" \in Phases BY DEF States, Phases
    <3> QED BY SMT, <2>1, <2>2, <3>1, RestateFacts
  <2> QED BY <1>3, <2>3
<1>6. CASE o \notin {"ok", "unconfirmed"}
  <2>1. PICK s \in {"rolled_back", "needs_review", "failed"}, p \in {"working", "recovery_required"} :
          op = [state |-> s, phase |-> p, target |-> 0, policy |-> DefaultPolicy]
    <3>1. CASE o = "rolled_back" BY <3>1 DEF SettledOperation
    <3>2. CASE o = "recovery" BY <3>2 DEF SettledOperation
    <3>3. CASE o \notin {"ok", "unconfirmed", "rolled_back", "recovery"} BY <3>3 DEF SettledOperation
    <3> QED BY <1>6, <3>1, <3>2, <3>3
  <2>2. s \in States /\ p \in Phases /\ s # "completed" BY <1>1, <1>2
  <2>3. op \in Operation /\ op.state = s BY <2>1, <2>2, EndedIs
  <2> QED BY <1>3, <2>2, <2>3
<1> QED BY <1>4, <1>5, <1>6

LEMMA FinishOperationKeeps == FilterInv /\ FinishOperation => FilterInv'
<1> SUFFICES ASSUME FilterInv, FinishOperation PROVE FilterInv' OBVIOUS
<1> USE DEF FilterInv
<1>1. UNCHANGED <<dropIn, previousFile, marker, dnsmasq, helperUp, activation, catalogs, status,
                  committed, mishaps>> /\ worker.step = "finish" /\ worker' = NoWork
  BY DEF FinishOperation, helperVars, filterHistory
<1>2. worker' \in WorkerRecords /\ worker'.step = "idle" /\ ~worker'.wrote BY <1>1, NoWorkIs
<1>3. operations # <<>> BY <1>1 DEF Employed, Busy
<1>4. 1 \in DOMAIN operations /\ operations[1] \in Operation BY <1>3, FilterParts, FirstOperation
<1> DEFINE op == SettledOperation(worker.outcome)
           review == Restated(operations[1], "needs_review", op.phase)
<1>5. /\ op \in Operation /\ op.phase \in Phases
      /\ op.state = "completed" =>
           /\ worker.outcome = "ok" /\ op.target = operations[1].target
           /\ op.policy = operations[1].policy
  BY <1>4, FilterParts, SettledFacts
<1>6. \/ operations' = [operations EXCEPT ![1] = op] /\ operationsDb' = operations'
      \/ /\ operations' = [operations EXCEPT ![1].state = "needs_review", ![1].phase = op.phase]
         /\ UNCHANGED operationsDb
  BY DEF FinishOperation
<1> HIDE DEF op
<1>7. op.state = "completed" => ConcludedAs(op.target, op.policy)
  BY <1>1, <1>5 DEF Employed
<1>8. review \in Operation /\ review.state = "needs_review"
  BY ZenonT(30), <1>4, <1>5, RestateFacts DEF States
<1>9. PICK w \in {op, review} : operations' = [operations EXCEPT ![1] = w]
  BY <1>4, <1>6, FilterParts DEF Restated
<1> HIDE DEF review
<1>10. /\ operations' \in Seq(Operation) /\ Len(operations') = Len(operations)
       /\ CompletedIn(operations')
  <2>1. w \in Operation /\ (w.state = "completed" => ConcludedAs(w.target, w.policy))
    BY <1>5, <1>7, <1>8, <1>9
  <2>2. operations \in Seq(Operation) /\ CompletedIn(operations) BY FilterParts DEF Journals
  <2> QED BY <1>3, <1>9, <2>1, <2>2, RewriteFacts, Zenon
<1>11. operationsDb' = operations' \/ operationsDb' = operationsDb BY <1>6
<1>12. Journals' BY <1>1, <1>10, <1>11 DEF Journals, CompletedIn, ConcludedAs
<1>13. InProgress' BY <1>1 DEF InProgress
<1>14. Employed' /\ Called' BY <1>2 DEF Employed, Called, Busy, Early, Calling
<1>15. Unspoilt' BY <1>1, <1>2 DEF Unspoilt, Indexed, Calling
<1>16. operationsDb' \in Seq(Operation) /\ Len(operationsDb') <= OPERATION_RETENTION
       /\ Len(operations') <= OPERATION_RETENTION
  BY <1>10, <1>11, FilterParts
<1> QED BY <1>1, <1>2, <1>10, <1>12, <1>13, <1>14, <1>15, <1>16, FilterParts, ServiceKeeps

-----------------------------------------------------------------------------
(* The helper.                                                              *)

LEMMA HelperKeeps ==
  ASSUME FilterInv, UNCHANGED <<operations, operationsDb, catalogs>>,
         dropIn' \in Applied, committed' \in Applied, previousFile' \in Applied \cup {NoFile},
         activation' \in Activations, worker' \in WorkerRecords, status' \in StatusRecords,
         mishaps' \in Nat, mishaps' <= MaxMishaps,
         marker' \in {"none", "true", "false"}, helperUp' \in BOOLEAN, dnsmasq' \in Revisions \cup {-1},
         committed' = committed \/ committed'.revision = committed.revision + 1,
         Files', InProgress', Watched', Employed', Called', Unspoilt'
  PROVE  FilterInv'
<1>1. FilterTyped' BY FilterParts, FilterTypedAgain
<1>2. \A r \in Revisions, p \in Policies : ConcludedAs(r, p) => ConcludedAs(r, p)'
  BY FilterParts, ConcludedKept
<1>3. ASSUME NEW ops \in Seq(Operation), CompletedIn(ops), NEW i \in DOMAIN ops, ops[i].state = "completed"
      PROVE  ConcludedAs(ops[i].target, ops[i].policy)'
  <2>1. ops[i] \in Operation BY ElementOfSeq, LenProperties
  <2>2. ops[i].target \in Revisions /\ ops[i].policy \in Policies BY <2>1, OperationParts
  <2>3. ConcludedAs(ops[i].target, ops[i].policy) BY <1>3 DEF CompletedIn
  <2> QED BY <1>2, <2>2, <2>3
<1>4. Journals' BY <1>3, FilterParts DEF Journals, CompletedIn, FilterInv, ConcludedAs
<1> QED BY <1>1, <1>4 DEF FilterInv

LEMMA AnswerKeeps ==
  ASSUME FilterInv, NEW revision, NEW outcome \in Outcomes, Answer(revision, outcome),
         UNCHANGED operations, committed' \in Applied,
         committed' = committed \/ committed'.revision = committed.revision + 1,
         worker.step \in Calling /\ outcome = "ok" =>
           ConcludedAs(operations[1].target, operations[1].policy)',
         worker.step \in Calling /\ outcome \in {"failed", "rolled_back"} => ~worker.wrote
  PROVE  /\ activation' \in Activations /\ activation'.step = "idle"
         /\ worker' \in WorkerRecords /\ Employed' /\ Called'
         /\ worker.step \in Calling => worker'.step = "finish"
<1> USE DEF FilterInv
<1>1. /\ activation' \in Activations /\ activation'.step = "idle" /\ worker' \in WorkerRecords
      /\ \/ worker.step \notin Calling /\ worker' = worker
         \/ /\ worker.step \in Calling /\ worker'.step = "finish" /\ worker'.wrote = worker.wrote
            /\ worker'.outcome = outcome \/ worker'.outcome = "unconfirmed"
  BY FilterParts, AnswerFacts
<1>2. CASE worker.step \notin Calling /\ worker' = worker
  <2>1. Called' BY <1>2 DEF Called, Calling
  <2>2. ASSUME worker.step = "finish", worker.outcome = "ok"
        PROVE  ConcludedAs(operations[1].target, operations[1].policy)'
    <3>1. operations # <<>> BY <2>2 DEF Employed, Busy
    <3>2. operations[1] \in Operation BY <3>1, FilterParts, FirstOperation
    <3>3. operations[1].target \in Revisions /\ operations[1].policy \in Policies BY <3>2, OperationParts
    <3>4. ConcludedAs(operations[1].target, operations[1].policy) BY <2>2 DEF Employed
    <3>5. committed.revision \in Nat /\ operations[1].target \in Nat
      BY <3>2, FilterParts, AppliedParts, OperationParts
    <3> QED BY SMT, <3>4, <3>5 DEF ConcludedAs
  <2>3. Employed' BY <1>2, <2>2 DEF Employed, Busy
  <2> QED BY <1>1, <1>2, <2>1, <2>3
<1>3. CASE /\ worker.step \in Calling /\ worker'.step = "finish" /\ worker'.wrote = worker.wrote
           /\ worker'.outcome = outcome \/ worker'.outcome = "unconfirmed"
  <2>1. Called' BY <1>3 DEF Called
  <2>2. worker'.outcome = "ok" => ConcludedAs(operations[1].target, operations[1].policy)' BY <1>3
  <2>3. Employed' BY <1>3, <2>2 DEF Employed, Busy, Early, Calling
  <2> QED BY <1>1, <1>3, <2>1, <2>3
<1> QED BY <1>1, <1>2, <1>3

\* Where the worker's call stands between two steps of the activation.
LEMMA GoesOn ==
  ASSUME FilterInv, NEW from \in Locked \cup {"lock"}, NEW step \in Locked, activation.step = from, To(step),
         UNCHANGED <<worker, operations, committed>>,
         from \in {"activate", "restore", "finish"} => step \in {"activate", "restore", "finish"}
  PROVE  /\ activation' \in Activations /\ activation'.step = step /\ activation'.new = activation.new
         /\ Employed' /\ Called'
<1> USE DEF FilterInv
<1>1. activation' \in Activations /\ activation'.step = step /\ activation'.new = activation.new
  BY FilterParts, ToFacts
<1>2. Employed' BY <1>1 DEF Employed, Busy, ConcludedAs
<1>3. Called' BY <1>1 DEF Called, Locked
<1> QED BY <1>1, <1>2, <1>3

LEMMA RefuseKeeps == FilterInv /\ RefuseRequest => FilterInv'
<1> SUFFICES ASSUME FilterInv, RefuseRequest PROVE FilterInv' OBVIOUS
<1> USE DEF FilterInv
<1>1. UNCHANGED <<dropIn, previousFile, marker, dnsmasq, helperUp, operations, operationsDb, catalogs,
                  status, committed, mishaps>> /\ activation.step = "stream"
  BY DEF RefuseRequest, filterHistory
<1>2. PICK revision : Answer(revision, "failed") BY DEF RefuseRequest
<1>3. worker.step \in Calling => ~worker.wrote BY <1>1 DEF Called, Calling
<1>4. /\ activation' \in Activations /\ activation'.step = "idle"
      /\ worker' \in WorkerRecords /\ Employed' /\ Called'
      /\ worker.step \in Calling => worker'.step = "finish"
  BY <1>1, <1>2, <1>3, FilterParts, AnswerKeeps DEF Outcomes
<1>5. Files' /\ Watched'
  BY SMTT(30), <1>1 DEF Files, ActivationRecoverable, Stamped, Watched, Agrees, ConcludedAs
<1>6. InProgress' BY <1>4 DEF InProgress, Locked
<1>7. Unspoilt' BY <1>1, <1>4 DEF Unspoilt, Indexed
<1> QED BY <1>1, <1>4, <1>5, <1>6, <1>7, FilterParts, HelperKeeps

LEMMA AdmitKeeps == FilterInv /\ AdmitActivation => FilterInv'
<1> SUFFICES ASSUME FilterInv, AdmitActivation PROVE FilterInv' OBVIOUS
<1> USE DEF FilterInv
<1>1. UNCHANGED <<dropIn, marker, dnsmasq, helperUp, operations, operationsDb, catalogs,
                  status, committed, mishaps>> /\ activation.step = "lock"
  BY DEF AdmitActivation, filterHistory
<1>2. Watched' BY <1>1 DEF Watched, Agrees, ConcludedAs
<1>3. ASSUME NEW revision, Answer(revision, "failed"), UNCHANGED previousFile
      PROVE  FilterInv'
  <2>1. worker.step \in Calling => ~worker.wrote BY <1>1 DEF Called, Calling
  <2>2. /\ activation' \in Activations /\ activation'.step = "idle"
        /\ worker' \in WorkerRecords /\ Employed' /\ Called'
        /\ worker.step \in Calling => worker'.step = "finish"
    BY <1>1, <1>3, <2>1, FilterParts, AnswerKeeps DEF Outcomes
  <2>3. Files' BY <1>1, <1>3 DEF Files, ActivationRecoverable, Stamped
  <2>4. InProgress' BY <2>2 DEF InProgress, Locked
  <2>5. Unspoilt' BY <1>1, <2>2 DEF Unspoilt, Indexed
  <2> QED BY <1>1, <1>2, <1>3, <2>2, <2>3, <2>4, <2>5, FilterParts, HelperKeeps
<1>4. CASE /\ Admissible /\ previousFile' = (IF dropIn.at > 0 THEN dropIn ELSE NoFile)
           /\ To("mark") /\ UNCHANGED worker
  <2>1. marker = "none" /\ dropIn = committed /\ dropIn.revision = activation.new.revision - 1
    BY <1>4 DEF Admissible, Base, Files, ActivationRecoverable
  <2>2. activation.new.revision \in Nat BY FilterParts, AppliedParts
  <2>3. activation.new.revision = committed.revision + 1 BY SMT, <2>1, <2>2
  <2>4. /\ activation' \in Activations /\ activation'.step = "mark" /\ activation'.new = activation.new
        /\ Employed' /\ Called'
    BY <1>1, <1>4, GoesOn DEF Locked
  <2>5. previousFile' \in Applied \cup {NoFile} /\ (dropIn.at > 0 => previousFile' = dropIn)
    BY <1>4, FilterParts
  <2>6. Files' BY <1>1, <2>1 DEF Files, ActivationRecoverable, Stamped
  <2>7. InProgress' BY <1>1, <2>1, <2>3, <2>4, <2>5 DEF InProgress, Locked
  <2>8. Unspoilt' BY <1>1, <1>4, <2>4 DEF Unspoilt, Indexed
  <2> QED BY <1>1, <1>2, <1>4, <2>4, <2>5, <2>6, <2>7, <2>8, FilterParts, HelperKeeps
<1> QED BY <1>3, <1>4 DEF AdmitActivation

LEMMA MarkKeeps == FilterInv /\ MarkActivation => FilterInv'
<1> SUFFICES ASSUME FilterInv, MarkActivation PROVE FilterInv' OBVIOUS
<1> USE DEF FilterInv
<1>1. UNCHANGED <<dropIn, dnsmasq, helperUp, operations, operationsDb, catalogs, status, committed>>
      /\ activation.step = "mark"
  BY DEF MarkActivation
<1>2. Watched' BY <1>1 DEF Watched, Agrees, ConcludedAs
<1>3. /\ marker = "none" /\ dropIn = committed /\ (dropIn.at > 0 => previousFile = dropIn)
      /\ activation.new.revision = committed.revision + 1
      /\ worker.step \in Calling => ~worker.wrote
  BY <1>1 DEF InProgress, Locked, Files, ActivationRecoverable, Called, Calling
<1> DEFINE mark == IF dropIn.at > 0 THEN "true" ELSE "false"
<1>4. mark \in {"true", "false"} OBVIOUS
<1>5. ASSUME marker' = mark, UNCHANGED previousFile
      PROVE  Files'
  <2>1. dropIn.at > 0 \/ dropIn = NeverApplied BY SMT DEF Files, Stamped
  <2>2. NeverApplied.at = 0 BY NeverAppliedIs
  <2>3. ActivationRecoverable' BY <1>1, <1>3, <1>5, <2>1, <2>2 DEF ActivationRecoverable
  <2> QED BY <1>1, <2>3 DEF Files, Stamped
<1>6. CASE marker' = mark /\ To("rename") /\ UNCHANGED <<previousFile, worker, mishaps>>
  <2>1. /\ activation' \in Activations /\ activation'.step = "rename" /\ activation'.new = activation.new
        /\ Employed' /\ Called'
    BY <1>1, <1>6, GoesOn DEF Locked
  <2>2. Files' BY <1>5, <1>6
  <2>3. marker' # "none" BY <1>4, <1>6
  <2>4. InProgress' BY <1>1, <1>3, <2>1, <2>3 DEF InProgress, Locked
  <2>5. Unspoilt' BY <1>1, <1>6, <2>1 DEF Unspoilt, Indexed
  <2> HIDE DEF mark
  <2> QED BY <1>1, <1>2, <1>4, <1>6, <2>1, <2>2, <2>4, <2>5, FilterParts, HelperKeeps
<1>7. ASSUME Answer(Base, "failed")
      PROVE  /\ activation' \in Activations /\ activation'.step = "idle"
             /\ worker' \in WorkerRecords /\ Employed' /\ Called'
             /\ worker.step \in Calling => worker'.step = "finish"
             /\ InProgress'
  <2>1. /\ activation' \in Activations /\ activation'.step = "idle"
        /\ worker' \in WorkerRecords /\ Employed' /\ Called'
        /\ worker.step \in Calling => worker'.step = "finish"
    BY <1>1, <1>3, <1>7, FilterParts, AnswerKeeps DEF Outcomes
  <2>2. InProgress' BY <2>1 DEF InProgress, Locked
  <2> QED BY <2>1, <2>2
<1>8. CASE marker' = "none" /\ previousFile' = NoFile /\ Answer(Base, "failed") /\ UNCHANGED mishaps
  <2>1. Files' BY <1>1, <1>3, <1>8 DEF Files, ActivationRecoverable, Stamped
  <2>2. Unspoilt' BY <1>1, <1>7, <1>8 DEF Unspoilt, Indexed
  <2> QED BY <1>1, <1>2, <1>7, <1>8, <2>1, <2>2, FilterParts, HelperKeeps
<1>9. CASE marker' = mark /\ UNCHANGED previousFile /\ Answer(Base, "failed") /\ Mishap
  <2>1. Files' BY <1>5, <1>9
  <2>2. mishaps' \in Nat /\ mishaps' <= MaxMishaps /\ mishaps' # 0 BY <1>9, MishapFacts
  <2>3. Unspoilt' BY <2>2 DEF Unspoilt
  <2> HIDE DEF mark
  <2> QED BY <1>1, <1>2, <1>4, <1>7, <1>9, <2>1, <2>2, <2>3, FilterParts, HelperKeeps
<1> QED BY <1>6, <1>8, <1>9 DEF MarkActivation

\* The file a request saw is replaced by another of its revision, or by none.
LEMMA RenamedWatched ==
  ASSUME FilterInv, activation.step = "rename", dropIn' = activation.new, UNCHANGED committed,
         status' = [status EXCEPT !.seen = Replaced(status.seen)]
  PROVE  status' \in StatusRecords /\ Watched'
<1> USE DEF FilterInv
<1>1. Watched OBVIOUS
<1>2. dropIn = committed /\ activation.new.revision = committed.revision + 1 BY DEF InProgress, Locked
<1>3. committed.revision \in Nat /\ status.seen.revision \in Nat BY FilterParts, AppliedParts
<1>4. CASE status.seen.revision = activation.new.revision
  <2> DEFINE seen == [status.seen EXCEPT !.at = 2]
  <2>1. seen \in Applied /\ seen.at = 2 /\ seen.revision = status.seen.revision
        /\ seen.policy = status.seen.policy
    BY SMTT(30), FilterParts DEF Applied
  <2>2. status' = [status EXCEPT !.seen = seen] BY <1>4 DEF Replaced
  <2> HIDE DEF seen
  <2>3. /\ status' \in StatusRecords /\ status'.seen = seen /\ status'.step = status.step
        /\ status'.same = status.same
    BY <2>1, <2>2, FilterParts DEF StatusRecords
  <2>4. Agrees(dropIn)' /\ Agrees(committed)' BY SMT, <2>1, <2>3 DEF Agrees
  <2>5. Watched' BY SMT, <1>1, <2>1, <2>3, <2>4 DEF Watched, ConcludedAs
  <2> QED BY <2>3, <2>5
<1>5. CASE status.seen.revision # activation.new.revision
  <2>1. status' = [status EXCEPT !.seen = status.seen] BY <1>5 DEF Replaced
  <2>2. status' = status BY <2>1, FilterParts DEF StatusRecords
  <2>3. Agrees(dropIn)' /\ Agrees(committed)' BY <1>1, <1>5, <2>2 DEF Agrees, Watched
  <2>4. Watched' BY <1>1, <1>5, <2>2, <2>3 DEF Watched, ConcludedAs
  <2> QED BY <2>2, <2>4, FilterParts
<1> QED BY <1>4, <1>5

\* The file a request saw is gone: what was concluded is back.
LEMMA RestoredWatched ==
  ASSUME FilterInv, dropIn' \in {dropIn, committed}, UNCHANGED <<committed, status>>
  PROVE  Watched'
<1> USE DEF FilterInv
<1>1. Watched OBVIOUS
<1>2. committed.revision \in Nat /\ status.seen.revision \in Nat BY FilterParts, AppliedParts
<1>3. CASE dropIn' = dropIn BY <1>1, <1>3 DEF Watched, Agrees, ConcludedAs
<1>4. CASE dropIn' = committed
  <2>1. Agrees(dropIn)' /\ Agrees(committed)' BY <1>1, <1>4 DEF Agrees, Watched
  <2>2. Watched' BY <1>1, <1>2, <1>4, <2>1 DEF Watched, ConcludedAs
  <2> QED BY <2>2
<1> QED BY <1>3, <1>4

\* The file a request saw is concluded, or one before it.
LEMMA ConcludedWatched ==
  ASSUME FilterInv, committed' = dropIn, UNCHANGED <<dropIn, status>>
  PROVE  Watched'
<1> USE DEF FilterInv
<1>1. Watched OBVIOUS
<1>2. committed.revision \in Nat /\ status.seen.revision \in Nat /\ dropIn.revision \in Nat
      /\ status.seen.revision \in Revisions /\ status.seen.policy \in Policies
  BY FilterParts, AppliedParts
<1>3. dropIn = committed \/ dropIn.revision = committed.revision + 1 BY DEF Files
<1>4. Agrees(dropIn)' /\ Agrees(committed)' BY <1>1 DEF Agrees, Watched
<1>5. \A r \in Revisions, p \in Policies : ConcludedAs(r, p) => ConcludedAs(r, p)'
  BY <1>3, FilterParts, ConcludedKept
<1>6. ConcludedAs(status.seen.revision, status.seen.policy) =>
        ConcludedAs(status.seen.revision, status.seen.policy)'
  BY <1>2, <1>5 DEF ConcludedAs
<1>7. committed.revision < status.seen.revision /\ dropIn.revision # status.seen.revision =>
        committed'.revision < status'.seen.revision
  BY SMT, <1>2, <1>3
<1> QED BY <1>1, <1>4, <1>6, <1>7 DEF Watched

LEMMA RenameKeeps == FilterInv /\ RenameDropIn => FilterInv'
<1> SUFFICES ASSUME FilterInv, RenameDropIn PROVE FilterInv' OBVIOUS
<1> USE DEF FilterInv
<1>1. UNCHANGED <<previousFile, marker, dnsmasq, helperUp, operations, operationsDb, catalogs, committed>>
      /\ activation.step = "rename"
  BY DEF RenameDropIn
<1>2. /\ marker # "none" /\ dropIn = committed /\ activation.new.revision = committed.revision + 1
      /\ activation.new.at = 1 /\ activation.new.revision # 0
      /\ worker.step \in Calling => ~worker.wrote
  BY <1>1 DEF InProgress, Locked, Called, Calling
<1>3. CASE /\ dropIn' = activation.new /\ To("activate")
           /\ worker' = [worker EXCEPT !.wrote = (worker.step = "waiting")]
           /\ status' = [status EXCEPT !.seen = Replaced(status.seen)]
           /\ UNCHANGED mishaps
  <2>1. /\ activation' \in Activations /\ activation'.step = "activate" /\ activation'.new = activation.new
    BY <1>3, FilterParts, ToFacts DEF Locked
  <2>2. (worker.step = "waiting") \in BOOLEAN OBVIOUS
  <2>3. /\ worker' \in WorkerRecords /\ worker'.step = worker.step /\ worker'.outcome = worker.outcome
        /\ worker'.wrote = (worker.step = "waiting") /\ worker'.base = worker.base
        /\ worker'.policy = worker.policy /\ worker'.list = worker.list /\ worker'.slot = worker.slot
    BY <1>3, <2>2, FilterParts DEF WorkerRecords
  <2>4. status' \in StatusRecords /\ Watched' BY <1>1, <1>3, RenamedWatched
  <2>5. Files' BY <1>1, <1>2, <1>3 DEF Files, ActivationRecoverable, Stamped
  <2>6. InProgress' BY <1>1, <1>2, <1>3, <2>1 DEF InProgress, Locked
  <2>7. Employed' BY <1>1, <2>1, <2>3 DEF Employed, Busy, ConcludedAs
  <2>8. Called' BY <1>1, <2>1, <2>3 DEF Called, Locked
  <2>9. Unspoilt' BY <1>1, <1>3, <2>1, <2>3 DEF Unspoilt, Indexed, Calling
  <2> QED BY <1>1, <1>3, <2>1, <2>3, <2>4, <2>5, <2>6, <2>7, <2>8, <2>9, FilterParts, HelperKeeps
<1>4. CASE Answer(Base, "failed") /\ Mishap /\ UNCHANGED <<dropIn, status>>
  <2>1. /\ activation' \in Activations /\ activation'.step = "idle"
        /\ worker' \in WorkerRecords /\ Employed' /\ Called'
    BY <1>1, <1>2, <1>4, FilterParts, AnswerKeeps DEF Outcomes
  <2>2. mishaps' \in Nat /\ mishaps' <= MaxMishaps /\ mishaps' # 0 BY <1>4, MishapFacts
  <2>3. Files' /\ Watched'
    BY SMTT(30), <1>1, <1>4 DEF Files, ActivationRecoverable, Stamped, Watched, Agrees, ConcludedAs
  <2>4. InProgress' BY <2>1 DEF InProgress, Locked
  <2>5. Unspoilt' BY <2>2 DEF Unspoilt
  <2> QED BY <1>1, <1>4, <2>1, <2>2, <2>3, <2>4, <2>5, FilterParts, HelperKeeps
<1> QED BY <1>3, <1>4 DEF RenameDropIn

LEMMA ActivateKeeps == FilterInv /\ ActivateDropIn => FilterInv'
<1> SUFFICES ASSUME FilterInv, ActivateDropIn PROVE FilterInv' OBVIOUS
<1> USE DEF FilterInv
<1>1. UNCHANGED <<dropIn, previousFile, marker, helperUp, operations, operationsDb, worker, catalogs, status,
                  committed, mishaps>> /\ activation.step = "activate"
  BY DEF ActivateDropIn, filterHistory
<1>2. dnsmasq' \in Revisions \cup {-1} BY FilterParts, AppliedParts DEF ActivateDropIn
<1>3. PICK step \in {"finish", "restore"} : To(step) BY DEF ActivateDropIn
<1>4. /\ activation' \in Activations /\ activation'.step = step /\ activation'.new = activation.new
      /\ Employed' /\ Called'
  <2>1. step \in Locked /\ "activate" \in Locked BY DEF Locked
  <2> QED BY <1>1, <1>3, <2>1, GoesOn
<1>5. Files' /\ Watched'
  BY SMTT(30), <1>1 DEF Files, ActivationRecoverable, Stamped, Watched, Agrees, ConcludedAs
<1>6. InProgress' BY <1>1, <1>4 DEF InProgress, Locked
<1>7. Unspoilt' BY <1>1, <1>4 DEF Unspoilt, Indexed
<1> QED BY <1>1, <1>2, <1>4, <1>5, <1>6, <1>7, FilterParts, HelperKeeps

LEMMA RestoredIs == FilterInv /\ marker # "none" => Restored = committed
BY FilterParts DEF Restored, FilterInv, Files, ActivationRecoverable

LEMMA RestoreKeeps == FilterInv /\ RestoreDropIn => FilterInv'
<1> SUFFICES ASSUME FilterInv, RestoreDropIn PROVE FilterInv' OBVIOUS
<1> USE DEF FilterInv
<1>1. UNCHANGED <<previousFile, marker, dnsmasq, helperUp, operations, operationsDb, catalogs, status, committed>>
      /\ activation.step = "restore"
  BY DEF RestoreDropIn
<1>2. /\ marker # "none" /\ activation.new.revision = committed.revision + 1
      /\ activation.new.at = 1 /\ activation.new.revision # 0 /\ helperUp
  BY <1>1, FilterParts DEF InProgress, Locked
<1>3. Restored = committed BY <1>2, RestoredIs
<1>4. dropIn' \in {dropIn, committed} BY <1>3 DEF RestoreDropIn
<1>5. Watched' BY <1>1, <1>4, RestoredWatched
<1>6. Files' BY <1>1, <1>2, <1>4 DEF Files, ActivationRecoverable, Stamped
<1>7. dropIn' \in Applied BY <1>4, FilterParts
<1>8. CASE /\ dropIn' = Restored /\ To("restart back")
           /\ worker' = [worker EXCEPT !.wrote = FALSE] /\ UNCHANGED mishaps
  <2>1. /\ activation' \in Activations /\ activation'.step = "restart back"
        /\ activation'.new = activation.new
    BY <1>8, FilterParts, ToFacts DEF Locked
  <2>2. /\ worker' \in WorkerRecords /\ worker'.step = worker.step /\ worker'.outcome = worker.outcome
        /\ worker'.wrote = FALSE /\ worker'.base = worker.base
        /\ worker'.policy = worker.policy /\ worker'.list = worker.list /\ worker'.slot = worker.slot
    BY <1>8, FilterParts DEF WorkerRecords
  <2>3. InProgress' BY <1>1, <1>2, <1>3, <1>8, <2>1 DEF InProgress, Locked
  <2>4. Employed' BY <1>1, <2>1, <2>2 DEF Employed, Busy, ConcludedAs
  <2>5. Called' BY <1>1, <2>1, <2>2 DEF Called, Locked
  <2>6. Unspoilt' BY <1>1, <1>3, <1>8, <2>1, <2>2 DEF Unspoilt, Indexed, Calling
  <2> QED BY <1>1, <1>5, <1>6, <1>7, <1>8, <2>1, <2>2, <2>3, <2>4, <2>5, <2>6, FilterParts, HelperKeeps
<1>9. CASE Answer(Base, "recovery") /\ Mishap
  <2>1. /\ activation' \in Activations /\ activation'.step = "idle"
        /\ worker' \in WorkerRecords /\ Employed' /\ Called'
    BY <1>1, <1>9, FilterParts, AnswerKeeps DEF Outcomes
  <2>2. mishaps' \in Nat /\ mishaps' <= MaxMishaps /\ mishaps' # 0 BY <1>9, MishapFacts
  <2>3. InProgress' BY <2>1 DEF InProgress, Locked
  <2>4. Unspoilt' BY <2>2 DEF Unspoilt
  <2> QED BY <1>1, <1>5, <1>6, <1>7, <2>1, <2>2, <2>3, <2>4, FilterParts, HelperKeeps
<1> QED BY <1>8, <1>9 DEF RestoreDropIn

LEMMA RestartPreviousKeeps == FilterInv /\ RestartPrevious => FilterInv'
<1> SUFFICES ASSUME FilterInv, RestartPrevious PROVE FilterInv' OBVIOUS
<1> USE DEF FilterInv
<1>1. UNCHANGED <<dropIn, previousFile, marker, helperUp, operations, operationsDb, catalogs, status, committed>>
      /\ activation.step = "restart back"
  BY DEF RestartPrevious
<1>2. dnsmasq' \in Revisions \cup {-1} BY FilterParts, AppliedParts DEF RestartPrevious
<1>3. Files' /\ Watched'
  BY ZenonT(30), <1>1 DEF Files, ActivationRecoverable, Stamped, Watched, Agrees, ConcludedAs
<1>4. CASE To("undo") /\ UNCHANGED <<worker, mishaps>>
  <2>1. /\ activation' \in Activations /\ activation'.step = "undo" /\ activation'.new = activation.new
        /\ Employed' /\ Called'
    BY <1>1, <1>4, GoesOn DEF Locked
  <2>2. InProgress' BY <1>1, <2>1 DEF InProgress, Locked
  <2>3. Unspoilt' BY <1>1, <1>4, <2>1 DEF Unspoilt, Indexed
  <2> QED BY <1>1, <1>2, <1>3, <1>4, <2>1, <2>2, <2>3, FilterParts, HelperKeeps
<1>5. CASE Answer(Base, "recovery") /\ Mishap
  <2>1. /\ activation' \in Activations /\ activation'.step = "idle"
        /\ worker' \in WorkerRecords /\ Employed' /\ Called'
    BY <1>1, <1>5, FilterParts, AnswerKeeps DEF Outcomes
  <2>2. mishaps' \in Nat /\ mishaps' <= MaxMishaps /\ mishaps' # 0 BY <1>5, MishapFacts
  <2>3. InProgress' BY <2>1 DEF InProgress, Locked
  <2>4. Unspoilt' BY <2>2 DEF Unspoilt
  <2> QED BY <1>1, <1>2, <1>3, <2>1, <2>2, <2>3, <2>4, FilterParts, HelperKeeps
<1> QED BY <1>4, <1>5 DEF RestartPrevious

\* The marker goes, and what the drop-in holds is concluded; or it stays.
LEMMA ConcludeFacts ==
  ASSUME FilterInv, NEW ok \in BOOLEAN, finish_filter_activation(ok), ConcludeActivation,
         UNCHANGED dropIn, marker # "none"
  PROVE  /\ marker' \in {"none", "true", "false"} /\ previousFile' \in Applied \cup {NoFile}
         /\ ok => marker' = "none"
         /\ \/ marker' = "none" /\ committed' = dropIn
            \/ UNCHANGED <<marker, previousFile, committed>>
         /\ committed' \in Applied
         /\ committed' = committed \/ committed'.revision = committed.revision + 1
         /\ Files'
<1> USE DEF FilterInv
<1>1. /\ marker' \in {"none", marker} /\ (ok => marker' = "none")
      /\ previousFile' = IF marker' = "none" THEN NoFile ELSE previousFile
      /\ committed' = IF marker' = "none" THEN dropIn ELSE committed
  BY DEF finish_filter_activation, ConcludeActivation
<1>2. CASE marker' = "none"
  <2>1. previousFile' = NoFile /\ committed' = dropIn BY <1>1, <1>2
  <2>2. committed' = committed \/ committed'.revision = committed.revision + 1 BY <2>1 DEF Files
  <2>3. Files' BY <1>2, <2>1 DEF Files, ActivationRecoverable, Stamped
  <2> QED BY <1>1, <1>2, <2>1, <2>2, <2>3, FilterParts
<1>3. CASE marker' # "none"
  <2>1. UNCHANGED <<marker, previousFile, committed>> BY <1>1, <1>3
  <2>2. Files' BY <2>1 DEF Files, ActivationRecoverable, Stamped
  <2> QED BY <1>1, <2>1, <2>2, FilterParts
<1> QED BY <1>2, <1>3

LEMMA FinishActivationKeeps == FilterInv /\ FinishActivation => FilterInv'
<1> SUFFICES ASSUME FilterInv, FinishActivation PROVE FilterInv' OBVIOUS
<1> USE DEF FilterInv
<1>1. UNCHANGED <<dropIn, dnsmasq, helperUp, operations, operationsDb, catalogs, status>>
      /\ ConcludeActivation /\ activation.step \in {"undo", "finish"}
  BY DEF FinishActivation
<1>2. PICK ok \in BOOLEAN :
        /\ finish_filter_activation(ok)
        /\ \/ activation.step = "undo" /\ Answer(Base, IF ok THEN "rolled_back" ELSE "failed")
           \/ activation.step = "finish" /\ Answer(activation.new.revision, IF ok THEN "ok" ELSE "recovery")
        /\ IF ok THEN UNCHANGED mishaps ELSE Mishap
  BY DEF FinishActivation
<1>3. marker # "none" BY <1>1 DEF InProgress, Locked
<1>4. /\ marker' \in {"none", "true", "false"} /\ previousFile' \in Applied \cup {NoFile}
      /\ ok => marker' = "none"
      /\ \/ marker' = "none" /\ committed' = dropIn
         \/ UNCHANGED <<marker, previousFile, committed>>
      /\ committed' \in Applied
      /\ committed' = committed \/ committed'.revision = committed.revision + 1
      /\ Files'
  BY <1>1, <1>2, <1>3, ConcludeFacts
<1>5. Watched'
  <2>1. CASE committed' = dropIn BY <1>1, <2>1, ConcludedWatched
  <2>2. CASE committed' = committed BY <1>1, <2>2 DEF Watched, Agrees, ConcludedAs
  <2> QED BY <1>4, <2>1, <2>2
<1>6. /\ activation' \in Activations /\ activation'.step = "idle"
      /\ worker' \in WorkerRecords /\ Employed' /\ Called'
      /\ worker.step \in Calling => worker'.step = "finish"
  <2>1. CASE activation.step = "undo"
    <3> DEFINE o == IF ok THEN "rolled_back" ELSE "failed"
    <3>1. Answer(Base, o) /\ o \in Outcomes /\ o # "ok" BY <1>2, <2>1 DEF Outcomes
    <3>2. worker.step \in Calling => ~worker.wrote BY <2>1 DEF Called, Calling
    <3> HIDE DEF o
    <3> QED BY <1>1, <1>4, <3>1, <3>2, AnswerKeeps
  <2>2. CASE activation.step = "finish"
    <3> DEFINE o == IF ok THEN "ok" ELSE "recovery"
    <3>1. Answer(activation.new.revision, o) /\ o \in Outcomes /\ o \notin {"failed", "rolled_back"}
      BY <1>2, <2>2 DEF Outcomes
    <3>2. ASSUME worker.step \in Calling, o = "ok"
          PROVE  ConcludedAs(operations[1].target, operations[1].policy)'
      <4>1. ok BY <3>2
      <4>2. committed' = dropIn BY <1>3, <1>4, <4>1
      <4>3. dropIn = activation.new BY <2>2 DEF InProgress
      <4>4. operations[1].target = activation.new.revision /\ operations[1].policy = activation.new.policy
        BY <3>2 DEF Employed
      <4> QED BY <1>1, <4>2, <4>3, <4>4 DEF ConcludedAs
    <3> HIDE DEF o
    <3> QED BY <1>1, <1>4, <3>1, <3>2, AnswerKeeps
  <2> QED BY <1>1, <2>1, <2>2
<1>7. InProgress' BY <1>6 DEF InProgress, Locked
<1>8. mishaps' \in Nat /\ mishaps' <= MaxMishaps /\ (~ok => mishaps' # 0) /\ (ok => mishaps' = mishaps)
  BY <1>2, FilterParts, MishapFacts
<1>9. Unspoilt'
  <2>1. CASE ~ok BY <1>8, <2>1 DEF Unspoilt
  <2>2. CASE ok
    <3>1. marker' = "none" /\ committed' = dropIn BY <1>3, <1>4, <2>2
    <3> QED BY <1>1, <1>6, <1>8, <2>2, <3>1 DEF Unspoilt, Indexed
  <2> QED BY <2>1, <2>2
<1> QED BY <1>1, <1>4, <1>5, <1>6, <1>7, <1>8, <1>9, FilterParts, HelperKeeps

LEMMA RecoverKeeps == FilterInv /\ recover_filter_activation => FilterInv'
<1> SUFFICES ASSUME FilterInv, recover_filter_activation PROVE FilterInv' OBVIOUS
<1> USE DEF FilterInv
<1>1. UNCHANGED <<activation, operations, operationsDb, worker, catalogs, status, mishaps>>
      /\ ConcludeActivation /\ activation.step = "idle"
  BY DEF recover_filter_activation, serviceVars, InProgress
<1>2. /\ helperUp' \in BOOLEAN /\ marker' \in {"none", marker}
      /\ previousFile' = previousFile \/ (marker' = "none" /\ previousFile' = NoFile)
      /\ marker = "none" => UNCHANGED <<dropIn, previousFile, marker, dnsmasq>>
  BY DEF recover_filter_activation, finish_filter_activation
<1>3. marker # "none" => Restored = committed BY RestoredIs
<1>4. /\ dropIn' \in {dropIn, committed}
      /\ marker' = "none" => dropIn' = committed
      /\ dnsmasq' \in {dnsmasq, dropIn'.revision, -1}
  <2>1. CASE marker = "none"
    BY <1>2, <2>1 DEF Files, ActivationRecoverable
  <2>2. CASE marker # "none"
    BY <1>3, <2>2 DEF recover_filter_activation
  <2> QED BY <2>1, <2>2
<1>5. UNCHANGED committed BY <1>1, <1>4 DEF ConcludeActivation
<1>6. dropIn' \in Applied BY <1>4, FilterParts
<1>7. dnsmasq' \in Revisions \cup {-1} BY <1>4, <1>6, FilterParts, AppliedParts
<1>8. marker' \in {"none", "true", "false"} /\ previousFile' \in Applied \cup {NoFile} BY <1>2, FilterParts
<1>9. Files' BY <1>2, <1>4, <1>5 DEF Files, ActivationRecoverable, Stamped
<1>10. InProgress' BY <1>1 DEF InProgress, Locked
<1>11. Watched' BY <1>1, <1>4, <1>5, RestoredWatched
<1>12. Employed' /\ Called' BY <1>1, <1>5 DEF Employed, Called, Busy, ConcludedAs
<1>13. Unspoilt' BY <1>1, <1>2, <1>5 DEF Unspoilt, Indexed
<1> QED BY <1>1, <1>2, <1>5, <1>6, <1>7, <1>8, <1>9, <1>10, <1>11, <1>12, <1>13, FilterParts, HelperKeeps

LEMMA HelperStopsKeeps == FilterInv /\ HelperStops => FilterInv'
<1> SUFFICES ASSUME FilterInv, HelperStops PROVE FilterInv' OBVIOUS
<1> USE DEF FilterInv
<1>1. UNCHANGED <<dropIn, marker, dnsmasq, operations, operationsDb, catalogs, committed>>
      /\ status' = NoStatus /\ helperUp' = FALSE
      /\ previousFile' = IF marker = "none" THEN NoFile ELSE previousFile
  BY DEF HelperStops
<1>2. Answer(0, "unconfirmed") BY DEF HelperStops, Answer
<1>3. /\ activation' \in Activations /\ activation'.step = "idle"
      /\ worker' \in WorkerRecords /\ Employed' /\ Called'
  BY <1>1, <1>2, FilterParts, AnswerKeeps DEF Outcomes
<1>4. mishaps' \in Nat /\ mishaps' <= MaxMishaps /\ mishaps' # 0 BY MishapFacts DEF HelperStops
<1>5. status' \in StatusRecords /\ Watched' BY <1>1, Unwatched
<1>6. Files' BY <1>1 DEF Files, ActivationRecoverable, Stamped
<1>7. InProgress' BY <1>3 DEF InProgress, Locked
<1>8. Unspoilt' BY <1>4 DEF Unspoilt
<1>9. previousFile' \in Applied \cup {NoFile} BY <1>1, FilterParts
<1> QED BY ZenonT(30), <1>1, <1>3, <1>4, <1>5, <1>6, <1>7, <1>8, <1>9, FilterParts, HelperKeeps

LEMMA SameInterval ==
  ASSUME NEW m \in Nat, NEW n \in Nat, 1..m = 1..n
  PROVE  m = n
<1>1. CASE m < n
  <2>1. n \in 1..n /\ n \notin 1..m BY SMT, <1>1
  <2> QED BY <2>1
<1>2. CASE n < m
  <2>1. m \in 1..m /\ m \notin 1..n BY SMT, <1>2
  <2> QED BY <2>1
<1> QED BY SMT, <1>1, <1>2

LEMMA ReopenedFacts ==
  ASSUME NEW ops \in Seq(Operation), CompletedIn(ops), NEW reopened,
         reopened = [i \in DOMAIN ops |->
                       IF ops[i].state = "running"
                       THEN [ops[i] EXCEPT !.state = "needs_review", !.phase = "interrupted"]
                       ELSE ops[i]]
  PROVE  reopened \in Seq(Operation) /\ Len(reopened) = Len(ops) /\ CompletedIn(reopened)
<1>1. Len(ops) \in Nat /\ DOMAIN ops = 1..Len(ops) /\ \A i \in DOMAIN ops : ops[i] \in Operation
  BY LenProperties, ElementOfSeq
<1>2. "needs_review" \in States /\ "interrupted" \in Phases /\ "needs_review" # "completed"
  BY DEF States, Phases
<1>3. \A o \in Operation : /\ Restated(o, "needs_review", "interrupted") \in Operation
                           /\ Restated(o, "needs_review", "interrupted").state = "needs_review"
  BY <1>2, RestateFacts
<1>4. reopened = [i \in 1..Len(ops) |-> IF ops[i].state = "running"
                                        THEN Restated(ops[i], "needs_review", "interrupted") ELSE ops[i]]
  BY <1>1 DEF Restated
<1>5. ASSUME NEW i \in 1..Len(ops)
      PROVE  /\ reopened[i] \in Operation
             /\ reopened[i].state = "completed" => ops[i].state = "completed" /\ reopened[i] = ops[i]
  <2>1. ops[i] \in Operation BY <1>1
  <2>2. CASE ops[i].state = "running"
    <3>1. reopened[i] = Restated(ops[i], "needs_review", "interrupted") BY <1>4, <2>2
    <3> QED BY <1>2, <1>3, <2>1, <3>1
  <2>3. CASE ops[i].state # "running"
    <3>1. reopened[i] = ops[i] BY <1>4, <2>3
    <3> QED BY <2>1, <3>1
  <2> QED BY <2>2, <2>3
<1>6. DOMAIN reopened = 1..Len(ops) BY <1>4
<1>7. reopened \in [1..Len(ops) -> Operation] BY ZenonT(30), <1>4, <1>5
<1>8. reopened \in Seq(Operation) BY ZenonT(30), <1>1, <1>7, SeqDef
<1>9. Len(reopened) = Len(ops)
  <2> DEFINE m == Len(reopened)
             n == Len(ops)
  <2>1. m \in Nat /\ n \in Nat /\ 1..m = 1..n BY <1>1, <1>6, <1>8, LenProperties
  <2> HIDE DEF m, n
  <2>2. m = n BY <2>1, SameInterval
  <2> QED BY <2>2 DEF m, n
<1>10. CompletedIn(reopened) BY <1>1, <1>5, <1>6 DEF CompletedIn
<1> QED BY <1>8, <1>9, <1>10

LEMMA ServiceRestartsKeeps == FilterInv /\ ServiceRestarts => FilterInv'
<1> SUFFICES ASSUME FilterInv, ServiceRestarts PROVE FilterInv' OBVIOUS
<1> USE DEF FilterInv
<1>1. UNCHANGED <<dropIn, previousFile, marker, dnsmasq, helperUp, catalogs, committed>>
      /\ status' = NoStatus /\ worker' = NoWork /\ operationsDb' = operations'
  BY DEF ServiceRestarts
<1>2. operations' \in Seq(Operation) /\ Len(operations') = Len(operationsDb) /\ CompletedIn(operations')
  <2>1. operationsDb \in Seq(Operation) /\ CompletedIn(operationsDb) BY FilterParts DEF Journals
  <2>2. operations' = [i \in DOMAIN operationsDb |->
                        IF operationsDb[i].state = "running"
                        THEN [operationsDb[i] EXCEPT !.state = "needs_review", !.phase = "interrupted"]
                        ELSE operationsDb[i]]
    BY DEF ServiceRestarts
  <2> QED BY <2>1, <2>2, ReopenedFacts, Zenon
<1>3. activation' \in Activations /\ InProgress'
  <2>1. CASE worker.step = "streaming" BY <1>1, <2>1, CutFacts DEF ServiceRestarts
  <2>2. CASE worker.step # "streaming"
    <3>1. UNCHANGED activation BY <2>2 DEF ServiceRestarts
    <3> QED BY <1>1, <3>1, FilterParts DEF InProgress
  <2> QED BY <2>1, <2>2
<1>4. worker' \in WorkerRecords /\ worker'.step = "idle" /\ ~worker'.wrote BY <1>1, NoWorkIs
<1>5. mishaps' \in Nat /\ mishaps' <= MaxMishaps /\ mishaps' # 0 BY MishapFacts DEF ServiceRestarts
<1>6. status' \in StatusRecords /\ Watched' BY <1>1, Unwatched
<1>7. FilterTyped' BY <1>1, <1>2, <1>3, <1>4, <1>5, <1>6, FilterParts, FilterTypedAgain
<1>8. Files' BY <1>1 DEF Files, ActivationRecoverable, Stamped
<1>9. Employed' /\ Called' BY <1>4 DEF Employed, Called, Busy, Early, Calling
<1>10. Journals' BY <1>1, <1>2 DEF Journals, CompletedIn, ConcludedAs
<1>11. Unspoilt' BY <1>5 DEF Unspoilt
<1> QED BY <1>3, <1>6, <1>7, <1>8, <1>9, <1>10, <1>11

\* A network apply, or no step at all: nothing the invariant speaks of moves.
LEMMA OutsideKeeps ==
  ASSUME FilterInv, dnsmasq' \in Revisions \cup {-1},
         UNCHANGED <<dropIn, previousFile, marker, helperUp, activation, operations, operationsDb, worker,
                     catalogs, status, committed, mishaps>>
  PROVE  FilterInv'
<1> USE DEF FilterInv
<1>1. Files' /\ Watched' BY SMTT(30) DEF Files, ActivationRecoverable, Stamped, Watched, Agrees, ConcludedAs
<1>2. InProgress' BY DEF InProgress
<1>3. Employed' /\ Called' BY SMT DEF Employed, Called, Busy, ConcludedAs
<1>4. Unspoilt' BY DEF Unspoilt, Indexed
<1> QED BY SMTT(30), <1>1, <1>2, <1>3, <1>4, FilterParts, HelperKeeps

LEMMA FilterBegins == FilterInit => FilterInv
<1> SUFFICES ASSUME FilterInit PROVE FilterInv OBVIOUS
<1>1. /\ dropIn = NeverApplied /\ previousFile = NoFile /\ marker = "none"
      /\ dnsmasq = 0 /\ helperUp = TRUE /\ activation = NoActivation
      /\ operations = <<>> /\ operationsDb = <<>> /\ worker = NoWork
      /\ catalogs = [slot \in {0, 1} |-> 0] /\ status = NoStatus
      /\ committed = NeverApplied /\ mishaps = 0
  BY DEF FilterInit
<1>2. activation \in Activations /\ activation.step = "idle" BY <1>1, NoActivationIs
<1>3. worker \in WorkerRecords /\ worker.step = "idle" /\ ~worker.wrote BY <1>1, NoWorkIs
<1>4. status \in StatusRecords /\ status.step = "idle" /\ status.seen.at = 0
  BY <1>1, NoStatusIs, NeverAppliedIs
<1>5. FilterTyped
  <2>1. operations \in Seq(Operation) /\ Len(operations) = 0 BY <1>1, EmptySeq
  <2>2. operationsDb \in Seq(Operation) /\ Len(operationsDb) = 0 BY <1>1, EmptySeq
  <2>3. catalogs \in CatalogSlots BY <1>1, FilterBounds DEF CatalogSlots
  <2>4. mishaps \in 0..MaxMishaps /\ 0 <= OPERATION_RETENTION /\ dnsmasq \in Revisions BY SMT, <1>1, FilterBounds
  <2>5. helperUp \in BOOLEAN BY <1>1, Zenon
  <2>6. dropIn \in Applied /\ committed \in Applied /\ previousFile \in Applied \cup {NoFile}
        /\ marker \in {"none", "true", "false"}
    BY <1>1, NeverAppliedIs
  <2> QED BY <1>2, <1>3, <1>4, <2>1, <2>2, <2>3, <2>4, <2>5, <2>6 DEF FilterTyped
<1>6. Files BY <1>1 DEF Files, ActivationRecoverable, Stamped
<1>7. InProgress BY <1>2 DEF InProgress, Locked
<1>8. Watched BY SMTT(30), <1>4 DEF Watched, Agrees
<1>9. Employed /\ Called BY <1>3 DEF Employed, Called, Busy, Early, Calling
<1>10. Journals BY SMT, <1>1, EmptySeq DEF Journals, CompletedIn
<1>11. Unspoilt BY <1>1, <1>2, <1>3, NeverAppliedIs DEF Unspoilt, Indexed
<1> QED BY <1>5, <1>6, <1>7, <1>8, <1>9, <1>10, <1>11 DEF FilterInv

LEMMA FilterStepKeeps == FilterInv /\ [FilterNext]_filterVars => FilterInv'
<1> SUFFICES ASSUME FilterInv, [FilterNext]_filterVars PROVE FilterInv' OBVIOUS
<1>1. CASE NetworkApply
  <2>1. dnsmasq' \in Revisions \cup {-1} BY <1>1, FilterParts, AppliedParts DEF NetworkApply
  <2> QED BY <1>1, <2>1, OutsideKeeps DEF NetworkApply, serviceVars, filterHistory
<1>2. CASE UNCHANGED filterVars BY <1>2, FilterParts, OutsideKeeps DEF filterVars
<1> QED BY SMTT(30), <1>1, <1>2, StartKeeps, PrepareKeeps, DownloadKeeps, CallKeeps, StreamKeeps, TimeoutKeeps,
           FinishOperationKeeps, RefuseKeeps, AdmitKeeps, MarkKeeps, RenameKeeps, ActivateKeeps, RestoreKeeps,
           RestartPreviousKeeps, FinishActivationKeeps, ReadStateKeeps, CheckMarkerKeeps, ProbeKeeps,
           RereadKeeps, PublishKeeps, ReconcileKeeps, RecoverKeeps, HelperStopsKeeps, ServiceRestartsKeeps
        DEF FilterNext, WorkerStep, ActivationStep, StatusStep

LEMMA FilterShows == FilterInv => FilterSound
<1> SUFFICES ASSUME FilterInv PROVE FilterSound OBVIOUS
<1> USE DEF FilterInv
<1>1. FilterTypeOK
  BY DEF FilterTypeOK, FilterTyped, Activations, WorkerRecords, StatusRecords, CatalogSlots
<1>2. ActivationRecoverable BY DEF Files
<1>3. CompletedWasConcluded BY DEF CompletedWasConcluded, Journals, CompletedIn, ConcludedAs
<1>4. FailedLeftNothing BY DEF FailedLeftNothing, Called
<1>5. InstalledIndexKept BY DEF InstalledIndexKept, Unspoilt, Indexed
<1> QED BY <1>1, <1>2, <1>3, <1>4, <1>5 DEF FilterSound

\* The activation of a DNS filter (apply_dns_filter in the helper, the worker
\* of routerd and its status probe) can be recovered at every point, for
\* every set of policies and every number of mishaps: what is recorded as
\* completed was concluded by the helper, what failed left nothing installed,
\* and without a lost call the installed policy keeps its index.
THEOREM FilterIsSound == FilterSpec => []FilterSound
<1>1. FilterInit => FilterInv BY FilterBegins
<1>2. FilterInv /\ [FilterNext]_filterVars => FilterInv' BY FilterStepKeeps
<1>3. FilterInv => FilterSound BY FilterShows
<1> QED BY <1>1, <1>2, <1>3, PTL DEF FilterSpec

\* Only the end of an activation moves what is concluded, by one revision.
LEMMA RevisionMoves ==
  FilterInv /\ [FilterNext]_filterVars =>
    [committed' # committed => committed'.revision = committed.revision + 1]_filterVars
<1> SUFFICES ASSUME FilterInv, FilterNext, committed' # committed
             PROVE  committed'.revision = committed.revision + 1
  OBVIOUS
<1> USE DEF FilterInv
<1>1. CASE FinishActivation
  <2>1. UNCHANGED dropIn /\ ConcludeActivation /\ activation.step \in {"undo", "finish"}
        /\ \E ok \in BOOLEAN : finish_filter_activation(ok)
    BY <1>1 DEF FinishActivation
  <2>2. marker # "none" BY <2>1 DEF InProgress, Locked
  <2> QED BY <2>1, <2>2, ConcludeFacts
<1>2. CASE recover_filter_activation
  <2>1. CASE marker' # "none" BY <1>2, <2>1 DEF recover_filter_activation, ConcludeActivation
  <2>2. CASE marker' = "none" /\ marker = "none"
    BY <1>2, <2>2 DEF recover_filter_activation, ConcludeActivation, Files, ActivationRecoverable
  <2>3. CASE marker' = "none" /\ marker # "none"
    BY <1>2, <2>3, RestoredIs DEF recover_filter_activation, ConcludeActivation
  <2> QED BY <2>1, <2>2, <2>3
<1> QED BY <1>1, <1>2
   DEF FilterNext, WorkerStep, ActivationStep, StatusStep, start_operation, PrepareOperation,
       download_catalog, CallHelper, StreamDomains, CallTimeout, FinishOperation, RefuseRequest,
       AdmitActivation, MarkActivation, RenameDropIn, ActivateDropIn, RestoreDropIn, RestartPrevious,
       ReadState, CheckMarker, ProbeOnce, RereadState, PublishProbe, reconcile_filter_operation,
       HelperStops, ServiceRestarts, NetworkApply, unchangedByStatus, filterHistory

\* The revisions that the helper concludes go up by one, over restarts of
\* both processes: of two sessions that edit the same revision at most one
\* succeeds.
THEOREM FilterRevisionsInOrder == FilterSpec => RevisionsInOrder
<1>1. FilterInit => FilterInv BY FilterBegins
<1>2. FilterInv /\ [FilterNext]_filterVars => FilterInv' BY FilterStepKeeps
<1>3. FilterInv /\ [FilterNext]_filterVars =>
        [committed' # committed => committed'.revision = committed.revision + 1]_filterVars
  BY RevisionMoves
<1> QED BY <1>1, <1>2, <1>3, PTL DEF FilterSpec, RevisionsInOrder

-----------------------------------------------------------------------------
(***************************************************************************)
(* GatewayMonitor. Two decisions to restart are an outage apart because    *)
(* the observer's own account of the last is never older than the decision *)
(* itself (AttemptsAged), and a reconnect is real because whoever still knows the *)
(* link as down has not counted its rise (RisesKnown).                     *)
(***************************************************************************)

(* Every field of the monitor's and the observer's records. *)
Samples == [up : BOOLEAN, age : {None} \cup (-1 .. RecentCap)]
Summaries == [available : BOOLEAN, enabled : BOOLEAN, known : BOOLEAN, age : -1 .. StampCap, up : BOOLEAN]
Lives == [latest : Summaries, initialized : BOOLEAN, lastUp : BOOLEAN]
Collections == [by : {"none", "run", "manual"}, up : BOOLEAN, counted : BOOLEAN, age : -1 .. Far]
Observers == [step : {"watch", "attempt", "restarting"}, down : {None} \cup (0 .. OUTAGE_WINDOW),
              last : {None} \cup (0 .. COOLDOWN)]

FlagsTyped ==
  /\ link \in BOOLEAN /\ wan \in BOOLEAN /\ daemon \in BOOLEAN /\ enabled \in BOOLEAN
  /\ writable \in BOOLEAN /\ risen \in BOOLEAN /\ engineState \in {"idle", "busy"}
  /\ pollDue \subseteq {"collect", "poll"}

GatewayTyped ==
  /\ FlagsTyped /\ gatewayUpsets \in 0 .. MaxGatewayUpsets /\ sinceAttempt \in 0 .. COOLDOWN
  /\ stored \in Samples /\ live \in Lives /\ collecting \in Collections /\ observer \in Observers

(* The last decision is at least as old as the observer's own account of it,
   or as the outage it counts when it remembers none. *)
AttemptsAged ==
  /\ observer.step = "attempt" => observer.last # None
  /\ observer.step = "restarting" => observer.last # None /\ engineState = "idle"
  /\ observer.last # None => observer.last <= sinceAttempt
  /\ observer.last = None /\ observer.down # None => observer.down <= sinceAttempt

(* Wherever the monitor still knows the link as down while it is up, the rise
   has not been counted, or is being counted by the collection under way. *)
RisesKnown ==
  /\ link /\ live.initialized /\ ~live.lastUp => risen
  /\ link /\ collecting.by # "none" /\ ~collecting.up => risen
  /\ link /\ stored.age # None /\ ~stored.up => risen \/ collecting.counted
  /\ collecting.counted => collecting.up
  /\ collecting.by = "none" => collecting = Idle

GatewayInv == GatewayTyped /\ AttemptsAged /\ RisesKnown

-----------------------------------------------------------------------------
LEMMA GatewayConstants ==
  /\ OUTAGE_WINDOW \in Nat \ {0} /\ COOLDOWN \in Nat \ {0} /\ OUTAGE_WINDOW <= COOLDOWN
  /\ StampCap \in Nat \ {0} /\ RecentCap \in Nat \ {0} /\ Far \in Nat /\ MaxGatewayUpsets \in Nat
BY SMT, GatewayAssumption DEF StampCap, RecentCap, Far

LEMMA FreshTyped == /\ FreshLive \in Lives /\ [FreshLive EXCEPT !.latest = Disabled] \in Lives
                    /\ Idle \in Collections /\ FreshObserver \in Observers
<1>0. 0 \in -1 .. StampCap /\ StampCap \in -1 .. StampCap /\ 0 \in -1 .. Far
  BY SMT, GatewayConstants
<1>1. Unknown \in Summaries
  BY <1>0 DEF Unknown, Summaries
<1>2. Disabled \in Summaries
  BY <1>0, <1>1 DEF Disabled, Summaries
<1>3. FreshLive \in Lives
  BY <1>1 DEF FreshLive, Lives
<1>4. [FreshLive EXCEPT !.latest = Disabled] \in Lives
  BY <1>2 DEF FreshLive, Lives
<1>5. Idle \in Collections
  BY <1>0 DEF Idle, Collections
<1>6. FreshObserver \in Observers
  BY DEF FreshObserver, Observers
<1> QED
  BY <1>3, <1>4, <1>5, <1>6

LEMMA GatewayStarts == GatewayInit => GatewayInv
<1> SUFFICES ASSUME GatewayInit PROVE GatewayInv
  OBVIOUS
<1> USE GatewayConstants, FreshTyped
<1>1. FlagsTyped
  BY DEF GatewayInit, FlagsTyped
<1>2. GatewayTyped
  BY SMT, <1>1 DEF GatewayInit, GatewayTyped, Samples
<1>3. AttemptsAged /\ RisesKnown
  BY DEF GatewayInit, AttemptsAged, RisesKnown, FreshLive, FreshObserver, Idle, None
<1> QED
  BY <1>2, <1>3 DEF GatewayInv

\* What is older stays an age within its cap.
LEMMA OlderAge ==
  ASSUME NEW cap \in Nat, NEW age \in {None} \cup (-1 .. cap)
  PROVE  /\ Older(age, cap) \in {None} \cup (-1 .. cap)
         /\ age = None <=> Older(age, cap) = None
         /\ age # None => age <= Older(age, cap)
         /\ age \in {None} \cup (0 .. cap) => Older(age, cap) \in {None} \cup (0 .. cap)
BY SMT DEF Older, None

LEMMA BeginCollectKeeps ==
  ASSUME GatewayInv, NEW by \in {"run", "manual"}, BeginCollect(by), by = "manual" => gatewayUpsets < MaxGatewayUpsets
  PROVE  GatewayInv'
<1> USE GatewayConstants
<1>1. collecting = Idle
  BY DEF BeginCollect
<1>2. Reconnected \in BOOLEAN /\ (Reconnected => link)
  BY DEF Reconnected, GatewayInv, GatewayTyped, FlagsTyped, Lives, Samples
<1>3. Reconnected => risen
  BY <1>1, <1>2 DEF Reconnected, GatewayInv, GatewayTyped, FlagsTyped, Lives, RisesKnown, Idle
<1>4. UNCHANGED <<link, wan, engineState, daemon, enabled, writable, stored, observer, sinceAttempt>>
  BY DEF BeginCollect
<1>5. AttemptsAged'
  BY <1>4 DEF GatewayInv, AttemptsAged
<1>6. CASE enabled
  <2>1. /\ collecting' = [by |-> by, up |-> link, counted |-> Reconnected, age |-> 0]
        /\ risen' = (risen /\ ~Reconnected)
        /\ live' = [live EXCEPT !.initialized = TRUE, !.lastUp = link]
        /\ pollDue' = pollDue /\ gatewayUpsets' \in 0 .. MaxGatewayUpsets
    BY SMT, <1>6 DEF BeginCollect, GatewayInv, GatewayTyped
  <2>2. GatewayTyped'
    <3>1. FlagsTyped'
      BY <1>4, <2>1 DEF GatewayInv, GatewayTyped, FlagsTyped
    <3>2. live' \in Lives
      BY <2>1 DEF GatewayInv, GatewayTyped, FlagsTyped, Lives
    <3>3. collecting' \in Collections
      BY SMT, <1>2, <2>1 DEF GatewayInv, GatewayTyped, FlagsTyped, Collections
    <3> QED
      BY <1>4, <2>1, <3>1, <3>2, <3>3 DEF GatewayInv, GatewayTyped
  <2>3. RisesKnown'
    BY <1>1, <1>2, <1>3, <1>4, <2>1 DEF GatewayInv, GatewayTyped, FlagsTyped, Lives, RisesKnown, Idle
  <2> QED
    BY <1>5, <2>2, <2>3 DEF GatewayInv
<1>7. CASE ~enabled
  <2>1. /\ live' = [FreshLive EXCEPT !.latest = Disabled] /\ pollDue' = pollDue \ {"collect"}
        /\ UNCHANGED <<collecting, risen>> /\ gatewayUpsets' \in 0 .. MaxGatewayUpsets
    BY SMT, <1>7 DEF BeginCollect, GatewayInv, GatewayTyped
  <2>2. GatewayTyped'
    <3>1. FlagsTyped'
      BY <1>4, <2>1 DEF GatewayInv, GatewayTyped, FlagsTyped
    <3> QED
      BY <1>4, <2>1, <3>1, FreshTyped DEF GatewayInv, GatewayTyped
  <2>3. RisesKnown'
    BY <1>4, <2>1 DEF GatewayInv, GatewayTyped, FlagsTyped, RisesKnown, FreshLive
  <2> QED
    BY <1>5, <2>2, <2>3 DEF GatewayInv
<1> QED
  BY <1>6, <1>7

LEMMA FinishCollectKeeps ==
  ASSUME GatewayInv, FinishCollect
  PROVE  GatewayInv'
<1> USE GatewayConstants
<1>1. GatewayTyped'
  <2>1. FlagsTyped'
    BY DEF GatewayInv, GatewayTyped, FlagsTyped, FinishCollect, Collections
  <2>2. live' \in Lives
    <3>1. [available |-> TRUE, enabled |-> TRUE, known |-> TRUE, up |-> collecting.up,
           age |-> Capped(collecting.age, StampCap)] \in Summaries
      BY SMT DEF GatewayInv, GatewayTyped, Capped, Summaries, Collections
    <3> QED
      BY <3>1 DEF GatewayInv, GatewayTyped, FinishCollect, Lives
  <2>3. stored' \in Samples
    BY SMT DEF GatewayInv, GatewayTyped, FinishCollect, Capped, Samples, Collections
  <2> QED
    BY <2>1, <2>2, <2>3, FreshTyped DEF GatewayInv, GatewayTyped, FinishCollect
<1>2. AttemptsAged'
  BY DEF GatewayInv, AttemptsAged, FinishCollect
<1>3. RisesKnown'
  BY DEF GatewayInv, GatewayTyped, FlagsTyped, Samples, Lives, Collections, RisesKnown, FinishCollect, Idle
<1> QED
  BY <1>1, <1>2, <1>3 DEF GatewayInv

LEMMA CollectFailsKeeps ==
  ASSUME GatewayInv, CollectFails
  PROVE  GatewayInv'
<1> USE GatewayConstants
<1>1. GatewayTyped'
  <2>1. FlagsTyped'
    BY DEF GatewayInv, GatewayTyped, FlagsTyped, CollectFails, Collections
  <2>2. live' \in Lives
    <3>1. live.latest \in Summaries
      BY DEF GatewayInv, GatewayTyped, Lives
    <3>2. [live.latest EXCEPT !.available = FALSE] \in Summaries
      BY <3>1 DEF Summaries
    <3> QED
      BY <3>2 DEF GatewayInv, GatewayTyped, CollectFails, Lives
  <2>3. gatewayUpsets' \in 0 .. MaxGatewayUpsets
    BY SMT DEF GatewayInv, GatewayTyped, CollectFails, GatewayUpset
  <2> QED
    BY <2>1, <2>2, <2>3, FreshTyped DEF GatewayInv, GatewayTyped, CollectFails
<1>2. AttemptsAged'
  BY DEF GatewayInv, AttemptsAged, CollectFails
<1>3. RisesKnown'
  BY DEF GatewayInv, GatewayTyped, FlagsTyped, Samples, Lives, Collections, RisesKnown, CollectFails, Idle
<1> QED
  BY <1>1, <1>2, <1>3 DEF GatewayInv

LEMMA GatewaySettingsKeep ==
  ASSUME GatewayInv, NEW on \in BOOLEAN, update_settings(on)
  PROVE  GatewayInv'
<1> USE GatewayConstants
<1>1. GatewayTyped'
  <2>1. FlagsTyped'
    BY DEF GatewayInv, GatewayTyped, FlagsTyped, update_settings
  <2>2. live' \in Lives
    BY FreshTyped DEF GatewayInv, GatewayTyped, update_settings
  <2>3. gatewayUpsets' \in 0 .. MaxGatewayUpsets
    BY SMT DEF GatewayInv, GatewayTyped, update_settings, GatewayUpset
  <2> QED
    BY <2>1, <2>2, <2>3 DEF GatewayInv, GatewayTyped, update_settings
<1>2. AttemptsAged'
  BY DEF GatewayInv, AttemptsAged, update_settings
<1>3. RisesKnown'
  BY DEF GatewayInv, GatewayTyped, FlagsTyped, RisesKnown, update_settings, FreshLive
<1> QED
  BY <1>1, <1>2, <1>3 DEF GatewayInv

LEMMA PollKeeps ==
  ASSUME GatewayInv, Poll
  PROVE  GatewayInv'
<1>0. 0 \in {None} \cup (0 .. OUTAGE_WINDOW) /\ 0 \in {None} \cup (0 .. COOLDOWN) /\ 0 # None
  BY SMT, GatewayConstants DEF None
<1>1. FlagsTyped'
  BY DEF GatewayInv, GatewayTyped, FlagsTyped, Poll
<1> DEFINE Due ==
             /\ observer' = [observer EXCEPT !.step = "attempt", !.last = 0] /\ sinceAttempt' = 0
             /\ observer.down # None /\ observer.down >= OUTAGE_WINDOW
             /\ observer.last = None \/ observer.last >= COOLDOWN
<1>2. \/ observer' = [observer EXCEPT !.down = None] /\ sinceAttempt' = sinceAttempt
      \/ observer' = [observer EXCEPT !.down = 0] /\ sinceAttempt' = sinceAttempt
      \/ observer' = observer /\ sinceAttempt' = sinceAttempt
      \/ Due
  BY DEF Poll, auto_recovery_due
<1> HIDE DEF Due
<1>3. observer' \in Observers
  <2>1. observer \in Observers
    BY DEF GatewayInv, GatewayTyped
  <2>2. CASE observer' = [observer EXCEPT !.down = None]
    BY <2>1, <2>2 DEF Observers
  <2>3. CASE observer' = [observer EXCEPT !.down = 0]
    BY <1>0, <2>1, <2>3 DEF Observers
  <2>4. CASE Due
    BY <1>0, <2>1, <2>4 DEF Observers, Due
  <2> QED
    BY <1>2, <2>1, <2>2, <2>3, <2>4
<1>4. UNCHANGED <<link, wan, engineState, daemon, enabled, writable, stored, live, collecting, risen, gatewayUpsets>>
  BY DEF Poll
<1>5. GatewayTyped'
  <2>1. sinceAttempt' \in 0 .. COOLDOWN
    BY SMT, <1>2, GatewayConstants DEF GatewayInv, GatewayTyped, Due
  <2> QED
    BY <1>1, <1>3, <1>4, <2>1 DEF GatewayInv, GatewayTyped
<1>6. AttemptsAged'
  <2>1. observer.step = "watch"
    BY DEF Poll
  <2>2. observer \in Observers /\ sinceAttempt \in 0 .. COOLDOWN /\ AttemptsAged
    BY DEF GatewayInv, GatewayTyped
  <2>3. CASE observer' = [observer EXCEPT !.down = None] /\ sinceAttempt' = sinceAttempt
    BY <1>4, <2>1, <2>2, <2>3 DEF Observers, AttemptsAged
  <2>4. CASE observer' = [observer EXCEPT !.down = 0] /\ sinceAttempt' = sinceAttempt
    BY SMT, <1>0, <1>4, <2>1, <2>2, <2>4 DEF Observers, AttemptsAged
  <2>5. CASE Due
    <3>1. observer'.step = "attempt" /\ observer'.last = 0 /\ sinceAttempt' = 0
      BY <2>2, <2>5 DEF Observers, Due
    <3> QED
      BY SMT, <1>0, <3>1 DEF AttemptsAged
  <2>6. CASE observer' = observer /\ sinceAttempt' = sinceAttempt
    BY <1>4, <2>2, <2>6 DEF AttemptsAged
  <2> QED
    BY <1>2, <2>3, <2>4, <2>5, <2>6
<1>7. RisesKnown'
  BY <1>4 DEF GatewayInv, RisesKnown
<1> QED
  BY <1>5, <1>6, <1>7 DEF GatewayInv

LEMMA AttemptKeeps ==
  ASSUME GatewayInv, Attempt
  PROVE  GatewayInv'
<1> USE GatewayConstants
<1>1. UNCHANGED <<link, wan, engineState, daemon, enabled, writable, stored, live, collecting, pollDue, risen, gatewayUpsets>>
  BY DEF Attempt
<1>2. FlagsTyped' /\ RisesKnown'
  BY <1>1 DEF GatewayInv, GatewayTyped, FlagsTyped, RisesKnown
<1>3. observer' \in Observers /\ sinceAttempt' \in 0 .. COOLDOWN
  BY SMT DEF GatewayInv, GatewayTyped, Attempt, Observers
<1>4. GatewayTyped'
  BY <1>1, <1>2, <1>3 DEF GatewayInv, GatewayTyped
<1>5. AttemptsAged'
  BY SMT DEF GatewayInv, GatewayTyped, Observers, AttemptsAged, Attempt, action_allowed, None
<1> QED
  BY <1>2, <1>4, <1>5 DEF GatewayInv

LEMMA RestartEndsKeeps ==
  ASSUME GatewayInv, NEW ok \in BOOLEAN, RestartEnds(ok)
  PROVE  GatewayInv'
<1> USE GatewayConstants
<1>1. FlagsTyped'
  BY DEF GatewayInv, GatewayTyped, FlagsTyped, RestartEnds
<1>2. observer' \in Observers
  BY DEF GatewayInv, GatewayTyped, RestartEnds, Observers
<1>3. GatewayTyped'
  BY <1>1, <1>2 DEF GatewayInv, GatewayTyped, RestartEnds
<1>4. AttemptsAged'
  BY DEF GatewayInv, GatewayTyped, Observers, AttemptsAged, RestartEnds, None
<1>5. RisesKnown'
  BY DEF GatewayInv, GatewayTyped, FlagsTyped, RisesKnown, RestartEnds
<1> QED
  BY <1>3, <1>4, <1>5 DEF GatewayInv

LEMMA LinkKeeps ==
  ASSUME GatewayInv, LinkChanges
  PROVE  GatewayInv'
<1>1. FlagsTyped'
  BY DEF GatewayInv, GatewayTyped, FlagsTyped, LinkChanges
<1>2. GatewayTyped' /\ AttemptsAged'
  BY <1>1 DEF GatewayInv, GatewayTyped, AttemptsAged, LinkChanges
<1>3. RisesKnown'
  BY DEF GatewayInv, GatewayTyped, FlagsTyped, RisesKnown, LinkChanges
<1> QED
  BY <1>2, <1>3 DEF GatewayInv

LEMMA EngineKeeps ==
  ASSUME GatewayInv, EngineMoves
  PROVE  GatewayInv'
<1> USE GatewayConstants
<1>1. FlagsTyped'
  BY DEF GatewayInv, GatewayTyped, FlagsTyped, EngineMoves
<1>2. gatewayUpsets' \in 0 .. MaxGatewayUpsets
  BY SMT DEF GatewayInv, GatewayTyped, EngineMoves, GatewayUpset
<1>3. GatewayTyped' /\ AttemptsAged'
  BY <1>1, <1>2 DEF GatewayInv, GatewayTyped, AttemptsAged, EngineMoves
<1>4. RisesKnown'
  BY DEF GatewayInv, RisesKnown, EngineMoves
<1> QED
  BY <1>3, <1>4 DEF GatewayInv

LEMMA DiskKeeps ==
  ASSUME GatewayInv, DiskPressure
  PROVE  GatewayInv'
<1> USE GatewayConstants
<1>1. FlagsTyped'
  BY DEF GatewayInv, GatewayTyped, FlagsTyped, DiskPressure
<1>2. gatewayUpsets' \in 0 .. MaxGatewayUpsets
  BY SMT DEF GatewayInv, GatewayTyped, FlagsTyped, DiskPressure, GatewayUpset
<1>3. GatewayTyped' /\ AttemptsAged'
  BY <1>1, <1>2 DEF GatewayInv, GatewayTyped, AttemptsAged, DiskPressure
<1>4. RisesKnown'
  BY DEF GatewayInv, RisesKnown, DiskPressure
<1> QED
  BY <1>3, <1>4 DEF GatewayInv

LEMMA DaemonKeeps ==
  ASSUME GatewayInv, DaemonRestarts
  PROVE  GatewayInv'
<1> USE GatewayConstants
<1>1. FlagsTyped'
  BY DEF GatewayInv, GatewayTyped, FlagsTyped, DaemonRestarts, Collections
<1>2. gatewayUpsets' \in 0 .. MaxGatewayUpsets
  BY SMT DEF GatewayInv, GatewayTyped, FlagsTyped, DaemonRestarts, GatewayUpset
<1>3. GatewayTyped'
  BY <1>1, <1>2, FreshTyped DEF GatewayInv, GatewayTyped, DaemonRestarts
<1>4. AttemptsAged'
  BY DEF GatewayInv, GatewayTyped, AttemptsAged, DaemonRestarts, FreshObserver
<1>5. RisesKnown'
  BY DEF GatewayInv, GatewayTyped, FlagsTyped, Collections, RisesKnown, DaemonRestarts, FreshLive, Idle
<1> QED
  BY <1>3, <1>4, <1>5 DEF GatewayInv

LEMMA GatewayTickKeeps ==
  ASSUME GatewayInv, Tick
  PROVE  GatewayInv'
<1> USE GatewayConstants
<1>1. FlagsTyped'
  BY DEF GatewayInv, GatewayTyped, FlagsTyped, Tick
<1>2. live' \in Lives
  <2>1. live.latest \in Summaries /\ live.latest.age \in -1 .. StampCap
    BY DEF GatewayInv, GatewayTyped, Lives, Summaries
  <2>2. Older(live.latest.age, StampCap) \in -1 .. StampCap
    BY SMT, <2>1, OlderAge DEF None
  <2>3. [live.latest EXCEPT !.age = Older(@, StampCap)] \in Summaries
    BY <2>1, <2>2 DEF Summaries
  <2> QED
    BY <2>3 DEF GatewayInv, GatewayTyped, Tick, Lives
<1>3. stored.age \in {None} \cup (-1 .. RecentCap) /\ stored' = [stored EXCEPT !.age = Older(stored.age, RecentCap)]
  BY DEF GatewayInv, GatewayTyped, Samples, Tick
<1>4. stored' \in Samples /\ (stored'.age = None <=> stored.age = None) /\ stored'.up = stored.up
  <2>1. Older(stored.age, RecentCap) \in {None} \cup (-1 .. RecentCap)
        /\ (Older(stored.age, RecentCap) = None <=> stored.age = None)
    BY SMT, <1>3, OlderAge
  <2> QED
    BY <1>3, <2>1 DEF GatewayInv, GatewayTyped, Samples
<1>5. /\ observer' = [observer EXCEPT !.down = Older(@, OUTAGE_WINDOW), !.last = Older(@, COOLDOWN)]
      /\ observer \in Observers
      /\ observer.down \in {None} \cup (0 .. OUTAGE_WINDOW) /\ observer.last \in {None} \cup (0 .. COOLDOWN)
      /\ sinceAttempt' = Older(sinceAttempt, COOLDOWN) /\ sinceAttempt \in 0 .. COOLDOWN
  BY DEF GatewayInv, GatewayTyped, Observers, Tick
<1>6. observer' \in Observers
  <2>1. Older(observer.down, OUTAGE_WINDOW) \in {None} \cup (0 .. OUTAGE_WINDOW)
        /\ Older(observer.last, COOLDOWN) \in {None} \cup (0 .. COOLDOWN)
    BY SMT, <1>5, OlderAge DEF None
  <2> QED
    BY <1>5, <2>1 DEF Observers
<1>7. sinceAttempt' \in 0 .. COOLDOWN
  BY SMT, <1>5 DEF Older, None
<1>8. GatewayTyped'
  BY <1>1, <1>2, <1>4, <1>6, <1>7 DEF GatewayInv, GatewayTyped, Tick
<1>9. AttemptsAged'
  <2>1. /\ observer'.step = observer.step /\ observer'.down = Older(observer.down, OUTAGE_WINDOW)
        /\ observer'.last = Older(observer.last, COOLDOWN) /\ engineState' = engineState
    BY <1>5 DEF Observers, Tick
  <2> QED
    BY SMT, <1>5, <2>1 DEF GatewayInv, AttemptsAged, Older, None
<1>10. RisesKnown'
  <2>1. live'.initialized = live.initialized /\ live'.lastUp = live.lastUp /\ UNCHANGED <<link, collecting, risen>>
    BY DEF GatewayInv, GatewayTyped, Lives, Tick
  <2> QED
    BY <1>4, <2>1 DEF GatewayInv, RisesKnown
<1> QED
  BY <1>8, <1>9, <1>10 DEF GatewayInv

LEMMA GatewayClockKeeps ==
  ASSUME GatewayInv, NEW ahead \in BOOLEAN, ClockStep(ahead)
  PROVE  GatewayInv'
<1> USE GatewayConstants
<1>1. UNCHANGED <<link, wan, engineState, daemon, enabled, writable, observer, pollDue, risen, sinceAttempt>>
      /\ gatewayUpsets' \in 0 .. MaxGatewayUpsets
  BY SMT DEF GatewayInv, GatewayTyped, ClockStep, GatewayUpset
<1>2. FlagsTyped' /\ AttemptsAged'
  BY SMT, <1>1 DEF GatewayInv, GatewayTyped, FlagsTyped, AttemptsAged
<1>3. live' \in Lives /\ live'.initialized = live.initialized /\ live'.lastUp = live.lastUp
  <2>1. live.latest \in Summaries
    BY DEF GatewayInv, GatewayTyped, Lives
  <2>2. [live.latest EXCEPT !.age = IF ahead THEN StampCap ELSE -1] \in Summaries
    BY SMT, <2>1 DEF Summaries
  <2> QED
    BY <2>2 DEF GatewayInv, GatewayTyped, ClockStep, Lives
<1>4. stored' \in Samples /\ (stored'.age = None <=> stored.age = None) /\ stored'.up = stored.up
  BY SMT DEF GatewayInv, GatewayTyped, ClockStep, Samples, None
<1>5. /\ collecting' \in Collections /\ collecting'.by = collecting.by /\ collecting'.up = collecting.up
      /\ collecting'.counted = collecting.counted /\ (collecting = Idle => collecting' = Idle)
  BY SMT DEF GatewayInv, GatewayTyped, ClockStep, Collections
<1>6. GatewayTyped'
  BY <1>1, <1>2, <1>3, <1>4, <1>5 DEF GatewayInv, GatewayTyped
<1>7. RisesKnown'
  BY <1>1, <1>3, <1>4, <1>5 DEF GatewayInv, RisesKnown
<1> QED
  BY <1>2, <1>6, <1>7 DEF GatewayInv

LEMMA GatewayStep == GatewayInv /\ [GatewayNext]_gatewayVars => GatewayInv'
<1> SUFFICES ASSUME GatewayInv, [GatewayNext]_gatewayVars
             PROVE  GatewayInv'
  OBVIOUS
<1>1. CASE Collector
  BY <1>1, BeginCollectKeeps, FinishCollectKeeps DEF Collector
<1>2. CASE probe_now
  BY <1>2, BeginCollectKeeps DEF probe_now
<1>3. CASE CollectFails \/ Poll \/ Attempt
  BY <1>3, CollectFailsKeeps, PollKeeps, AttemptKeeps
<1>4. CASE \E on \in BOOLEAN : update_settings(on)
  BY <1>4, GatewaySettingsKeep
<1>5. CASE \E ok \in BOOLEAN : RestartEnds(ok)
  BY <1>5, RestartEndsKeeps
<1>6. CASE LinkChanges \/ EngineMoves \/ DiskPressure \/ DaemonRestarts
  BY <1>6, LinkKeeps, EngineKeeps, DiskKeeps, DaemonKeeps
<1>7. CASE Tick
  BY <1>7, GatewayTickKeeps
<1>8. CASE \E ahead \in BOOLEAN : ClockStep(ahead)
  BY <1>8, GatewayClockKeeps
<1>9. CASE UNCHANGED gatewayVars
  BY SMT, <1>9 DEF gatewayVars, GatewayInv, GatewayTyped, FlagsTyped, AttemptsAged, RisesKnown
<1> QED
  BY <1>1, <1>2, <1>3, <1>4, <1>5, <1>6, <1>7, <1>8, <1>9 DEF GatewayNext

LEMMA GatewayInvHolds == GatewaySpec => []GatewayInv
BY GatewayStarts, GatewayStep, PTL DEF GatewaySpec

\* run_gateway_auto_recovery restarts PPPoE only while the engine is idle, and
\* recovery_status reports what auto_recovery_due decides, whatever the windows,
\* the cooldown and the age limits.
THEOREM GatewayIsSound == GatewaySpec => []GatewaySound
<1>1. GatewayInv => GatewaySound
  <2> SUFFICES ASSUME GatewayInv PROVE GatewaySound
    OBVIOUS
  <2>1. GatewayTypeOK
    BY DEF GatewayInv, GatewayTyped, FlagsTyped, GatewayTypeOK, Samples, Lives, Summaries, Collections, Observers
  <2>2. RestartWaitsForChange
    BY DEF GatewayInv, AttemptsAged, RestartWaitsForChange
  <2>3. StatusAgrees
    BY SMT, GatewayConstants DEF GatewayInv, GatewayTyped, Observers, StatusAgrees, auto_recovery_due, usable_outage_evidence,
       recovery_status
  <2> QED
    BY <2>1, <2>2, <2>3 DEF GatewaySound
<1> QED
  BY <1>1, GatewayInvHolds, PTL

\* Two decisions to restart PPPoE are an outage window apart, over restarts of
\* routerd, which forgets the earlier one, over steps of the wall clock and however
\* long run_service_action waits for the operation lock; and a restart that runs is
\* the one the last decision asked for.
THEOREM GatewayRestartsPaced == GatewaySpec => RestartsPaced
<1> DEFINE Paced ==
             /\ observer'.step = "attempt" /\ observer.step # "attempt" => sinceAttempt >= OUTAGE_WINDOW
             /\ observer'.step = "restarting" => observer.step \in {"attempt", "restarting"}
<1>1. GatewayInv /\ [GatewayNext]_gatewayVars => [Paced]_gatewayVars
  <2> SUFFICES ASSUME GatewayInv, GatewayNext PROVE Paced
    OBVIOUS
  <2>1. observer \in Observers /\ sinceAttempt \in 0 .. COOLDOWN /\ AttemptsAged
    BY DEF GatewayInv, GatewayTyped
  <2>2. CASE Poll
    <3>1. observer.step = "watch" /\ observer'.step \in {"watch", "attempt"}
      BY <2>1, <2>2 DEF Poll, Observers
    <3>2. ASSUME observer'.step = "attempt" PROVE sinceAttempt >= OUTAGE_WINDOW
      <4>1. auto_recovery_due(live.latest, observer.down, observer.last)
        BY <2>1, <2>2, <3>1, <3>2 DEF Poll, Observers
      <4>2. observer.down \in Int /\ (observer.last # None => observer.last \in Int)
        BY SMT, <2>1, <4>1 DEF Observers, auto_recovery_due
      <4> QED
        BY SMT, <2>1, <4>1, <4>2, GatewayConstants DEF AttemptsAged, auto_recovery_due
    <3> QED
      BY <3>1, <3>2
  <2>3. CASE Attempt
    <3>1. observer.step = "attempt" /\ observer'.step \in {"watch", "restarting"}
      BY <2>1, <2>3 DEF Attempt, Observers
    <3> QED
      BY <3>1
  <2>4. CASE (\E ok \in BOOLEAN : RestartEnds(ok)) \/ DaemonRestarts
    <3>1. observer'.step = "watch"
      <4>1. CASE \E ok \in BOOLEAN : RestartEnds(ok)
        BY <2>1, <4>1 DEF RestartEnds, Observers
      <4>2. CASE DaemonRestarts
        BY <4>2 DEF DaemonRestarts, FreshObserver
      <4> QED
        BY <2>4, <4>1, <4>2
    <3> QED
      BY <3>1
  <2>5. ASSUME observer'.step = observer.step PROVE Paced
    BY <2>5
  <2>6. CASE Tick
    <3>1. observer'.step = observer.step
      BY <2>1, <2>6 DEF Tick, Observers
    <3> QED
      BY <2>5, <3>1
  <2>7. CASE Collector \/ probe_now \/ CollectFails
    BY <2>5, <2>7 DEF Collector, BeginCollect, FinishCollect, CollectFails, probe_now
  <2>8. CASE LinkChanges \/ EngineMoves \/ DiskPressure
    BY <2>5, <2>8 DEF LinkChanges, EngineMoves, DiskPressure
  <2>9. CASE (\E on \in BOOLEAN : update_settings(on)) \/ (\E ahead \in BOOLEAN : ClockStep(ahead))
    BY <2>5, <2>9 DEF update_settings, ClockStep
  <2> HIDE DEF Paced
  <2> QED
    BY <2>2, <2>3, <2>4, <2>6, <2>7, <2>8, <2>9 DEF GatewayNext
<1> QED
  BY <1>1, GatewayInvHolds, PTL DEF GatewaySpec, RestartsPaced

\* collect counts a reconnect only for a rise of the link that no stored
\* reconnect stands for.
THEOREM GatewayReconnectIsReal == GatewaySpec => ReconnectIsReal
<1> DEFINE Real == collecting'.counted /\ ~collecting.counted => risen
<1>1. GatewayInv /\ [GatewayNext]_gatewayVars => [Real]_gatewayVars
  <2> SUFFICES ASSUME GatewayInv, GatewayNext, collecting'.counted, ~collecting.counted
               PROVE  risen
    OBVIOUS
  <2>1. collecting \in Collections
    BY DEF GatewayInv, GatewayTyped
  <2>2. collecting = Idle /\ Reconnected
    <3>1. collecting' # collecting /\ collecting' # Idle
      BY SMT DEF Idle
    <3>2. ~FinishCollect /\ ~CollectFails /\ ~DaemonRestarts
      BY <3>1 DEF FinishCollect, CollectFails, DaemonRestarts
    <3>3. \A ahead \in BOOLEAN : ~ClockStep(ahead)
      BY <2>1, <3>1 DEF ClockStep, Collections
    <3>4. ~Poll /\ ~Attempt /\ (\A ok \in BOOLEAN : ~RestartEnds(ok))
      BY <3>1 DEF Poll, Attempt, RestartEnds
    <3>5. ~LinkChanges /\ ~EngineMoves /\ ~DiskPressure /\ ~Tick /\ (\A on \in BOOLEAN : ~update_settings(on))
      BY <3>1 DEF LinkChanges, EngineMoves, DiskPressure, Tick, update_settings
    <3>6. \E by \in {"run", "manual"} : BeginCollect(by)
      BY <3>2, <3>3, <3>4, <3>5 DEF GatewayNext, Collector, probe_now
    <3> QED
      BY SMT, <3>1, <3>6 DEF BeginCollect
  <2> QED
    BY <2>2 DEF GatewayInv, GatewayTyped, FlagsTyped, Lives, Samples, RisesKnown, Reconnected, Idle
<1> QED
  BY <1>1, GatewayInvHolds, PTL DEF GatewaySpec, ReconnectIsReal

-----------------------------------------------------------------------------
(***************************************************************************)
(* RiskFeeds, for every number of versions and of deaths. ActiveIndexWhole *)
(* and ReportedIsServed are not inductive: they say nothing of the list a  *)
(* refresh is building, nor of the row while no list is loaded. FeedInv    *)
(* adds both: the refresh works in the slot the row does not name, the     *)
(* row's file is whole or gone, and every tag is that of the version it is *)
(* kept with.                                                              *)
(***************************************************************************)

ListVersions == 0 .. MaxVersions

FeedTyped ==
    /\ upstream \in Versions
    /\ files \in [{0, 1} -> Versions \cup {NoList, Partial}]
    /\ row \in [slot : {0, 1}, version : ListVersions, etag : ListVersions]
    /\ feed \in [loaded : BOOLEAN, slot : {0, 1}, version : ListVersions, etag : ListVersions, confirmed : ListVersions]
    /\ refresh \in [at : {"idle", "build", "fill", "publish", "swap"},
                    slot : {0, 1}, version : ListVersions, etag : ListVersions]

(* The row names a slot whose file is the row's version, or was lost. *)
RowFile ==
    /\ row.version # NoList => files[row.slot] \in {row.version, NoList}
    /\ row.etag \in {NoList, row.version}

(* The list in memory is the row's, except while a published one has still
   to be swapped in. *)
InUse ==
    /\ row.version # NoList /\ refresh.at # "swap" => feed.slot = row.slot
    /\ row.version = NoList => ~feed.loaded
    /\ feed.loaded => /\ files[feed.slot] = feed.version /\ feed.version \in Versions
                      /\ feed.confirmed = feed.version
                      /\ feed.etag \in {NoList, feed.version}
                      /\ refresh.at # "swap" => row.version = feed.version

(* A refresh works in the slot that is not in use. *)
Building ==
    refresh.at # "idle" =>
        /\ refresh.slot = 1 - feed.slot /\ refresh.version \in Versions
        /\ refresh.etag \in {NoList, refresh.version}
        /\ refresh.at \in {"publish", "swap"} => files[refresh.slot] = refresh.version
        /\ refresh.at = "swap" => row = [slot |-> refresh.slot, version |-> refresh.version,
                                         etag |-> refresh.etag]

FeedInv == FeedTyped /\ RowFile /\ InUse /\ Building

USE DEF Versions, NoList, Partial, ListVersions

LEMMA FeedConstants == MaxVersions \in Nat \ {0} /\ MaxCrashes \in Nat
BY FeedAssumption

LEMMA FeedStarts == FeedInit => FeedInv
BY SMT, FeedConstants DEF FeedInit, FeedInv, FeedTyped, RowFile, InUse, Building, NoRow, NoRefresh, Unloaded

LEMMA FeedKept == FeedInv /\ [FeedNext]_feedVars => FeedInv'
<1> SUFFICES ASSUME FeedInv, [FeedNext]_feedVars PROVE FeedInv'
    OBVIOUS
<1> USE FeedConstants DEF FeedInv, FeedTyped, RowFile, InUse, Building
<1>1. CASE UpstreamPublishes
    BY SMT, <1>1 DEF UpstreamPublishes
<1>2. CASE Download
    BY SMT, <1>2 DEF Download
<1>3. CASE RemoveOldIndex
    BY SMT, <1>3 DEF RemoveOldIndex
<1>4. CASE build_feed
    BY SMT, <1>4 DEF build_feed, NoRefresh
<1>5. CASE PublishRow
    BY SMTT(30), <1>5 DEF PublishRow, NoRefresh
<1>6. CASE SwapFeed
    BY SMTT(30), <1>6 DEF SwapFeed, NoRefresh
<1>7. CASE OpenService
    BY SMT, <1>7 DEF OpenService, NoRefresh, Unloaded
<1>8. CASE IndexLost
    BY SMT, <1>8 DEF IndexLost, Unloaded
<1>9. CASE UNCHANGED feedVars
    BY SMTT(30), <1>9 DEF feedVars
<1> QED BY <1>1, <1>2, <1>3, <1>4, <1>5, <1>6, <1>7, <1>8, <1>9 DEF FeedNext

LEMMA FeedAlways == FeedSpec => []FeedInv
BY FeedStarts, FeedKept, PTL DEF FeedSpec

(* Slots, row, list and refresh keep their types: no refresh, however many
   lists it rebuilds, leaves the two slots. *)
THEOREM FeedTypeCorrect == FeedSpec => []FeedTypeOK
<1>1. FeedInv => FeedTypeOK
    BY DEF FeedInv, FeedTyped, FeedTypeOK
<1> QED BY <1>1, FeedAlways, PTL

(* Whenever a list is loaded, the file the row names is whole and of the
   row's version, and the file in use is of the version in use: a refresh
   that fails or dies at any step costs no list. *)
THEOREM FeedIndexWhole == FeedSpec => []ActiveIndexWhole
<1>1. FeedInv => ActiveIndexWhole
    BY SMT, FeedConstants DEF FeedInv, FeedTyped, RowFile, InUse, Building, ActiveIndexWhole
<1> QED BY <1>1, FeedAlways, PTL

(* An unchanged answer of upstream never confirms another version than the
   one in use, whatever was lost, untagged or interrupted before. *)
THEOREM FeedReportedIsServed == FeedSpec => []ReportedIsServed
<1>1. FeedInv => ReportedIsServed
    BY DEF FeedInv, InUse, ReportedIsServed
<1> QED BY <1>1, FeedAlways, PTL

\* FeedSound: the list that lookups use is whole and is the version last reported up
\* to date, after any failed download, publication or restart.
THEOREM FeedsSound == FeedSpec => []FeedSound
BY FeedTypeCorrect, FeedIndexWhole, FeedReportedIsServed, PTL DEF FeedSound
=============================================================================
