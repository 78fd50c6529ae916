---------------------------- MODULE HelperProofs ----------------------------
(***************************************************************************)
(* Proofs about HelperClients, and about two parts of routerd that keep    *)
(* count: LoginLimiter and TrafficAccounting. For every value of their     *)
(* constants. Each part starts with its inductive invariant.               *)
(***************************************************************************)
EXTENDS HelperClients, LoginLimiter, TrafficAccounting, SequenceTheorems, TLAPS

\* Most leaves are first-order reasoning; the others name their prover.
USE Zenon

-----------------------------------------------------------------------------
(***************************************************************************)
(* HelperClients. Type correctness of the privileged helper and the        *)
(* confirmation gate, for every set of sections, values and IDs and every  *)
(* bound.                                                                  *)
(***************************************************************************)

USE DEF vars, channelVars, helperVars

\* Removing one waiting request leaves a shorter queue of requests.
LEMMA Removal ==
  ASSUME NEW M, NEW q \in Seq(M), NEW i \in 1..Len(q)
  PROVE  /\ SubSeq(q, 1, i - 1) \o SubSeq(q, i + 1, Len(q)) \in Seq(M)
         /\ Len(SubSeq(q, 1, i - 1) \o SubSeq(q, i + 1, Len(q))) = Len(q) - 1
<1> DEFINE a == SubSeq(q, 1, i - 1)
           b == SubSeq(q, i + 1, Len(q))
<1>1. a \in Seq(M) /\ Len(a) = i - 1
  BY SMT, SubSeqProperties
<1>2. b \in Seq(M) /\ Len(b) = Len(q) - i
  BY SMT, SubSeqProperties
<1> HIDE DEF a, b
<1>3. a \o b \in Seq(M) /\ Len(a \o b) = Len(a) + Len(b)
  BY <1>1, <1>2, ConcatProperties
<1>4. Len(a \o b) = Len(q) - 1
  BY SMT, <1>1, <1>2, <1>3
<1> QED BY <1>3, <1>4 DEF a, b

LEMMA ConfigTypes ==
  /\ NoConfig \in OptConfig /\ Config \subseteq OptConfig
  /\ DefaultBody \in Body
  /\ \A c \in OptConfig : c.body \in Body
  /\ NoConfig \notin Config
BY SMT, ProtocolAssumption DEF OptConfig, Config, NoConfig

LEMMA IdleTypes == Idle \in Executions /\ NoRecord \in TransactionRecord
BY ConfigTypes DEF Idle, Executions, HelperPCs, Outcomes, NoRecord, TransactionRecord

LEMMA MixtureTypes ==
  /\ \A old, new \in Body : Mixtures(old, new) \subseteq Body
  /\ \A old, new \in Runtime : Mixtures(old, new) \subseteq Runtime
BY DEF Mixtures, Body, Runtime

LEMMA RuntimeTypes ==
  ASSUME HelperTypeOK
  PROVE  /\ FirstRunRuntime \in Runtime
         /\ RolledBackRuntime \in Runtime
         /\ RolledBackFiles \in Body
         /\ \A old \in Body : FirstRunFiles(old) \in Body
         /\ \A lan \in SUBSET Values : FailClosed(lan) \in Runtime
         /\ \A c, p \in OptConfig, b \in BOOLEAN : Activated(c, p, b) \in Runtime
<1> USE ConfigTypes DEF Runtime, Body
<1>1. helper.previous \in OptConfig /\ helper.captured \in Body
  BY DEF HelperTypeOK, Executions
<1>2. \A c \in OptConfig, s \in Sections : c.body[s] \in Values
  OBVIOUS
<1>3. FirstRunRuntime \in Runtime BY DEF FirstRunRuntime
<1>4. \A old \in Body : FirstRunFiles(old) \in Body BY DEF FirstRunFiles
<1>5. RolledBackRuntime \in Runtime BY SMT, <1>1, <1>2, <1>3 DEF RolledBackRuntime
<1>6. RolledBackFiles \in Body BY <1>1, <1>4 DEF RolledBackFiles
<1>7. \A lan \in SUBSET Values : FailClosed(lan) \in Runtime BY DEF FailClosed
<1>8. \A c, p \in OptConfig, b \in BOOLEAN : Activated(c, p, b) \in Runtime
  <2> SUFFICES ASSUME NEW c \in OptConfig, NEW p \in OptConfig, NEW b \in BOOLEAN
               PROVE  Activated(c, p, b) \in Runtime
    OBVIOUS
  <2>1. \A s \in Sections : c.body[s] \in Values /\ p.body[s] \in Values
    BY <1>2, ConfigTypes
  <2>2. \A s \in Sections : runtime[s] \in SUBSET Values
    BY DEF HelperTypeOK
  <2> QED BY <2>1, <2>2 DEF Activated
<1> QED BY <1>3, <1>4, <1>5, <1>6, <1>7, <1>8

\* ChannelTypeOK and HelperTypeOK hold initially.
LEMMA InitTypes == Init => TypeOK
<1> SUFFICES ASSUME Init PROVE TypeOK OBVIOUS
<1>1. ChannelTypeOK
  <2>1. inbox = <<>> /\ serving = FALSE /\ answer = "none" /\ faults = 0
    BY DEF Init, ChannelInit
  <2>2. inbox \in Seq(Message) /\ Len(inbox) = 0
    BY <2>1, EmptySeq
  <2>3. Len(inbox) <= MaxQueue /\ faults \in 0..MaxFaults
    BY SMT, <2>1, <2>2, ProtocolAssumption
  <2>4. answer \in Answers BY <2>1 DEF Answers
  <2>5. serving \in BOOLEAN BY <2>1
  <2> QED BY <2>2, <2>3, <2>4, <2>5 DEF ChannelTypeOK
<1>2. FailClosed({}) \in Runtime
  BY DEF FailClosed, Runtime
<1>3. [Idle EXCEPT !.pc = "down"] \in Executions
  BY IdleTypes DEF Executions, HelperPCs
<1>4. HelperTypeOK
  BY <1>2, <1>3, ConfigTypes, IdleTypes DEF Init, HelperInit, HelperTypeOK
<1> QED BY <1>1, <1>4 DEF TypeOK

LEMMA FaultTypes ==
  ASSUME ChannelTypeOK, Fault \/ NoFault
  PROVE  faults' \in 0..MaxFaults
BY SMT, ProtocolAssumption DEF ChannelTypeOK, Fault, NoFault

LEMMA ReplyTypes ==
  ASSUME HelperTypeOK, NEW req \in ApplyRequest, NEW unreadable \in BOOLEAN
  PROVE  journalled_reply(req, unreadable) \in Outcomes \cup {"run"}
<1>1. \A r \in TransactionRecord :
        replay_transaction_response(req, r) \in Outcomes \cup {"run"}
  BY DEF replay_transaction_response, TransactionRecord, Outcomes
<1> QED BY <1>1 DEF journalled_reply, HelperTypeOK, Outcomes

LEMMA ProcessTypes == TypeOK /\ process_request => TypeOK'
<1> SUFFICES ASSUME TypeOK, process_request PROVE TypeOK'
  OBVIOUS
<1> USE DEF TypeOK
<1>1. PICK i \in 1..Len(inbox), unreadable \in BOOLEAN :
        /\ inbox' = SubSeq(inbox, 1, i - 1) \o SubSeq(inbox, i + 1, Len(inbox))
        /\ admit(inbox[i], unreadable)
  BY DEF process_request
<1> DEFINE m == inbox[i]
<1>2. m \in Message /\ m.req \in ApplyRequest /\ m.live \in BOOLEAN
  <2>1. inbox \in Seq(Message) BY DEF ChannelTypeOK
  <2>2. m \in Message BY <2>1, ElementOfSeq
  <2> QED BY <2>2 DEF Message
<1>3. inbox' \in Seq(Message) /\ Len(inbox') <= MaxQueue
  <2>1. inbox \in Seq(Message) /\ Len(inbox) <= MaxQueue /\ Len(inbox) \in Nat
    BY LenProperties DEF ChannelTypeOK
  <2>2. inbox' \in Seq(Message) /\ Len(inbox') = Len(inbox) - 1
    BY <1>1, <2>1, Removal
  <2> QED BY SMT, <2>1, <2>2, ProtocolAssumption
<1>4. faults' \in 0..MaxFaults
  BY <1>1, FaultTypes DEF admit
<1>5. answer' \in Answers /\ serving' \in BOOLEAN
  BY <1>1, <1>2, ReplyTypes DEF admit, respond, Answers, Outcomes, ChannelTypeOK
<1>6. [req |-> m.req, outcome |-> "incomplete"] \in TransactionRecord
  BY <1>2 DEF TransactionRecord
<1>7. [Idle EXCEPT !.pc = "execute", !.req = m.req] \in Executions
  BY <1>2, IdleTypes DEF Executions, HelperPCs
<1>8. journal' \in TransactionRecord /\ memory' \in TransactionRecord /\ helper' \in Executions
  BY <1>1, <1>6, <1>7 DEF admit, HelperTypeOK
<1>9. HelperTypeOK'
  BY <1>8 DEF process_request, HelperTypeOK
<1> QED BY <1>3, <1>4, <1>5, <1>9 DEF ChannelTypeOK

\* A step that leaves the channel alone and moves the helper within its types.
LEMMA ExecutionTypes ==
  ASSUME TypeOK, UNCHANGED channelVars, Fault \/ NoFault,
         lastGood' \in OptConfig, pendingConfirmation' \in OptConfig,
         journal' \in TransactionRecord, memory' \in TransactionRecord,
         files' \in Body, runtime' \in Runtime, helper' \in Executions
  PROVE  TypeOK'
BY FaultTypes DEF TypeOK, ChannelTypeOK, HelperTypeOK

\* Where the moves between the steps of a request leave the helper.
LEMMA MoveTypes ==
  ASSUME HelperTypeOK
  PROVE  /\ \A o \in Outcomes : Concludes(o) => helper' \in Executions
         /\ \A pc \in HelperPCs : [helper EXCEPT !.pc = pc] \in Executions
         /\ \A pc \in HelperPCs : [helper EXCEPT !.pc = pc, !.previous = lastGood,
                                                 !.captured = files] \in Executions
BY DEF HelperTypeOK, Executions, Concludes, HelperPCs

\* The request in execution is made of typed parts.
LEMMA RequestTypes ==
  ASSUME HelperTypeOK
  PROVE  /\ helper.req \in ApplyRequest \cup {NoRequest}
         /\ helper.req.config \in OptConfig /\ helper.req.config.body \in Body
         /\ helper.req.require_confirmation \in BOOLEAN
         /\ helper.outcome \in Outcomes
<1>1. helper.req \in ApplyRequest \cup {NoRequest} /\ helper.outcome \in Outcomes
  BY DEF HelperTypeOK, Executions
<1>2. \A r \in ApplyRequest : r.config \in OptConfig /\ r.require_confirmation \in BOOLEAN
  BY ConfigTypes DEF ApplyRequest
<1>3. NoRequest.config \in OptConfig /\ NoRequest.require_confirmation \in BOOLEAN
  BY ConfigTypes DEF NoRequest
<1> QED BY <1>1, <1>2, <1>3, ConfigTypes

LEMMA RefuseTypes == TypeOK /\ refuse => TypeOK'
<1> SUFFICES ASSUME TypeOK, refuse PROVE TypeOK'
  OBVIOUS
<1>1. HelperTypeOK BY DEF TypeOK
<1>2. helper' \in Executions
  BY <1>1, MoveTypes DEF refuse, Outcomes
<1>3. Fault \/ NoFault BY DEF refuse
<1> QED BY <1>1, <1>2, <1>3, ExecutionTypes DEF refuse, HelperTypeOK

LEMMA InstallTypes == TypeOK /\ install_and_activate => TypeOK'
<1> SUFFICES ASSUME TypeOK, install_and_activate PROVE TypeOK'
  OBVIOUS
<1> DEFINE new == Activated(helper.req.config, lastGood, helper.req.require_confirmation)
<1>1. HelperTypeOK BY DEF TypeOK
<1>2. new \in Runtime
  BY <1>1, RuntimeTypes, RequestTypes DEF HelperTypeOK
<1>3. helper' \in Executions
  BY <1>1, MoveTypes DEF install_and_activate, HelperPCs
<1> HIDE DEF new
<1>4. /\ files' \in {files, helper.req.config.body} \cup Mixtures(files, helper.req.config.body)
      /\ runtime' \in {runtime, new} \cup Mixtures(runtime, new)
  BY DEF install_and_activate, new
<1>5. files' \in Body /\ runtime' \in Runtime
  BY <1>1, <1>2, <1>4, MixtureTypes, RequestTypes DEF HelperTypeOK
<1>6. Fault \/ NoFault BY DEF install_and_activate
<1> QED BY <1>1, <1>3, <1>5, <1>6, ExecutionTypes DEF install_and_activate, HelperTypeOK

LEMMA PersistTypes ==
  TypeOK /\ (save_pending_confirmation \/ save_last_good) => TypeOK'
<1> SUFFICES ASSUME TypeOK, save_pending_confirmation \/ save_last_good PROVE TypeOK'
  OBVIOUS
<1>1. HelperTypeOK BY DEF TypeOK
<1>2. helper' \in Executions
  BY <1>1, MoveTypes DEF save_pending_confirmation, save_last_good, HelperPCs, Outcomes
<1>3. lastGood' \in OptConfig /\ pendingConfirmation' \in OptConfig
  BY <1>1, RequestTypes, ConfigTypes DEF save_pending_confirmation, save_last_good, HelperTypeOK
<1>4. Fault \/ NoFault BY DEF save_pending_confirmation, save_last_good
<1> QED BY <1>1, <1>2, <1>3, <1>4, ExecutionTypes
        DEF save_pending_confirmation, save_last_good, HelperTypeOK

LEMMA RollbackTypes ==
  TypeOK /\ (rollback \/ (rollback_fails_closed /\ UNCHANGED channelVars)) => TypeOK'
<1> SUFFICES ASSUME TypeOK, rollback \/ (rollback_fails_closed /\ UNCHANGED channelVars)
             PROVE  TypeOK'
  OBVIOUS
<1>1. HelperTypeOK BY DEF TypeOK
<1>2. helper' \in Executions
  BY <1>1, MoveTypes DEF rollback, rollback_fails_closed, Outcomes
<1>3. runtime[Lan] \in SUBSET Values /\ FirstRunRuntime[Lan] \in SUBSET Values
  BY <1>1, RuntimeTypes, ProtocolAssumption DEF HelperTypeOK, Runtime
<1>4. BestEffort(RolledBackRuntime) \subseteq Runtime
  BY DEF BestEffort
<1>5. files' \in Body /\ runtime' \in Runtime
  BY <1>1, <1>3, <1>4, RuntimeTypes, MixtureTypes DEF rollback, rollback_fails_closed, HelperTypeOK
<1>6. pendingConfirmation' \in OptConfig
  BY <1>1, ConfigTypes DEF rollback, rollback_fails_closed, HelperTypeOK
<1>7. Fault \/ NoFault BY DEF rollback, rollback_fails_closed
<1> QED BY <1>1, <1>2, <1>5, <1>6, <1>7, ExecutionTypes
        DEF rollback, rollback_fails_closed, HelperTypeOK

LEMMA ConfirmTypes ==
  TypeOK /\ (confirm_apply \/ commit_confirmed_apply) => TypeOK'
<1> SUFFICES ASSUME TypeOK, confirm_apply \/ commit_confirmed_apply PROVE TypeOK'
  OBVIOUS
<1>1. HelperTypeOK BY DEF TypeOK
<1>2. helper' \in Executions
  BY <1>1, MoveTypes DEF confirm_apply, commit_confirmed_apply, HelperPCs, Outcomes
<1>3. [runtime EXCEPT ![Lan] = {helper.req.config.body[Lan]}] \in Runtime
  BY <1>1, RequestTypes, ProtocolAssumption DEF HelperTypeOK, Runtime, Body
<1>4. runtime' \in Runtime
  BY <1>1, <1>3 DEF confirm_apply, commit_confirmed_apply, HelperTypeOK
<1>5. Fault \/ NoFault BY DEF confirm_apply, commit_confirmed_apply
<1> QED BY <1>1, <1>2, <1>4, <1>5, ExecutionTypes
        DEF confirm_apply, commit_confirmed_apply, HelperTypeOK

LEMMA OutcomeTypes == TypeOK /\ persist_transaction_outcome => TypeOK'
<1> SUFFICES ASSUME TypeOK, persist_transaction_outcome PROVE TypeOK'
  OBVIOUS
<1>1. ChannelTypeOK /\ HelperTypeOK BY DEF TypeOK
<1>2. \A o \in Outcomes : [req |-> helper.req, outcome |-> o] \in TransactionRecord
  BY <1>1, RequestTypes DEF TransactionRecord
<1>3. journal' \in TransactionRecord /\ memory' \in TransactionRecord
  BY <1>1, <1>2, RequestTypes DEF persist_transaction_outcome, HelperTypeOK, Outcomes
<1>4. HelperTypeOK'
  BY <1>1, <1>3, IdleTypes DEF persist_transaction_outcome, HelperTypeOK
<1>5. answer' \in Answers
  BY <1>1, RequestTypes
  DEF persist_transaction_outcome, respond, ChannelTypeOK, Answers, Outcomes
<1>6. faults' \in 0..MaxFaults
  BY <1>1, FaultTypes DEF persist_transaction_outcome
<1>7. serving' \in BOOLEAN /\ inbox' = inbox
  BY DEF persist_transaction_outcome
<1> QED BY <1>1, <1>4, <1>5, <1>6, <1>7 DEF TypeOK, ChannelTypeOK

LEMMA CrashTypes == TypeOK /\ HelperCrash => TypeOK'
<1> SUFFICES ASSUME TypeOK, HelperCrash PROVE TypeOK'
  OBVIOUS
<1>1. ChannelTypeOK /\ HelperTypeOK BY DEF TypeOK
<1>2. [Idle EXCEPT !.pc = "down"] \in Executions
  BY IdleTypes DEF Executions, HelperPCs
<1>3. HelperTypeOK'
  BY <1>1, <1>2, IdleTypes DEF HelperCrash, HelperTypeOK
<1>4. answer' \in Answers
  BY <1>1 DEF HelperCrash, respond, ChannelTypeOK, Answers
<1>5. faults' \in 0..MaxFaults
  BY <1>1, FaultTypes DEF HelperCrash
<1>6. inbox' \in Seq(Message) /\ Len(inbox') = 0
  BY EmptySeq DEF HelperCrash
<1>7. Len(inbox') <= MaxQueue BY SMT, <1>6, ProtocolAssumption
<1>8. serving' \in BOOLEAN BY DEF HelperCrash
<1> QED BY <1>3, <1>4, <1>5, <1>6, <1>7, <1>8 DEF TypeOK, ChannelTypeOK

LEMMA StartTypes ==
  TypeOK /\ (reconcile_startup \/ (startup_fails /\ UNCHANGED channelVars)) => TypeOK'
<1> SUFFICES ASSUME TypeOK, reconcile_startup \/ (startup_fails /\ UNCHANGED channelVars)
             PROVE  TypeOK'
  OBVIOUS
<1>1. HelperTypeOK BY DEF TypeOK
<1>2. lastGood.body \in Body /\ FirstRunFiles(files) \in Body /\ FirstRunRuntime \in Runtime
  BY <1>1, ConfigTypes, RuntimeTypes DEF HelperTypeOK
<1>3. /\ runtime[Lan] \in SUBSET Values
      /\ {lastGood.body[Lan]} \in SUBSET Values
  BY <1>1, <1>2, ProtocolAssumption DEF HelperTypeOK, Runtime, Body
<1>4. CASE reconcile_startup
  <2>1. BestEffort([s \in Sections |-> {lastGood.body[s]}]) \subseteq Runtime
    BY DEF BestEffort
  <2>2. files' \in Body /\ runtime' \in Runtime
    BY <1>2, <1>4, <2>1 DEF reconcile_startup
  <2> QED BY <1>1, <1>4, <2>2, ConfigTypes, IdleTypes, ExecutionTypes
          DEF reconcile_startup, HelperTypeOK
<1>5. CASE startup_fails /\ UNCHANGED channelVars
  <2>1. files' \in Body
    BY <1>1, <1>2, <1>5, MixtureTypes DEF startup_fails, HelperTypeOK
  <2>2. runtime' \in Runtime
    BY <1>1, <1>3, <1>5, RuntimeTypes DEF startup_fails
  <2>3. pendingConfirmation' \in OptConfig
    BY <1>1, <1>5, ConfigTypes DEF startup_fails, HelperTypeOK
  <2> QED BY <1>1, <1>5, <2>1, <2>2, <2>3, ExecutionTypes DEF startup_fails, HelperTypeOK
<1> QED BY <1>4, <1>5

LEMMA SubmitTypes ==
  ASSUME TypeOK, NEW req \in ApplyRequest, Submit(req)
  PROVE  TypeOK'
<1> DEFINE m == [req |-> req, live |-> FALSE]
<1>1. ChannelTypeOK /\ HelperTypeOK BY DEF TypeOK
<1>2. m \in Message BY DEF Message
<1>3. inbox \in Seq(Message) /\ Len(inbox) \in Nat /\ Len(inbox) < MaxQueue /\ inbox' = Append(inbox, m)
  BY <1>1, LenProperties DEF ChannelTypeOK, Submit
<1> HIDE DEF m
<1>4. inbox' \in Seq(Message) /\ Len(inbox') = Len(inbox) + 1
  BY <1>2, <1>3, AppendProperties
<1>5. Len(inbox') <= MaxQueue BY SMT, <1>3, <1>4, ProtocolAssumption
<1>6. HelperTypeOK' BY <1>1 DEF Submit, HelperTypeOK
<1> QED BY <1>1, <1>4, <1>5, <1>6 DEF TypeOK, ChannelTypeOK, Submit

LEMMA NextTypes == TypeOK /\ [Next]_vars => TypeOK'
<1> SUFFICES ASSUME TypeOK, [Next]_vars PROVE TypeOK'
  OBVIOUS
<1>1. CASE \E req \in ApplyRequest : Submit(req)
  BY <1>1, SubmitTypes
<1>2. CASE HelperStep
  BY <1>2, ProcessTypes, RefuseTypes, InstallTypes, PersistTypes, RollbackTypes,
     ConfirmTypes, OutcomeTypes DEF HelperStep
<1>3. CASE HelperCrash
  BY <1>3, CrashTypes
<1>4. CASE reconcile_startup \/ (startup_fails /\ UNCHANGED channelVars)
  BY <1>4, StartTypes
<1>5. CASE rollback_fails_closed /\ UNCHANGED channelVars
  BY <1>5, RollbackTypes
<1>6. CASE UNCHANGED vars
  BY <1>6 DEF TypeOK, ChannelTypeOK, HelperTypeOK
<1> QED BY <1>1, <1>2, <1>3, <1>4, <1>5, <1>6 DEF Next

\* router-applyd is type-correct, whoever its clients are and whatever fails:
\* the records it persists are configurations and complete journal entries,
\* and the waiting connections stay within the bound.
THEOREM TypeCorrect == Spec => []TypeOK
<1>1. Init => TypeOK BY InitTypes
<1>2. TypeOK /\ [Next]_vars => TypeOK' BY NextTypes
<1> QED BY <1>1, <1>2, PTL DEF Spec

-----------------------------------------------------------------------------
(* The confirmation gate.                                                  *)

\* A request that reached the point where last-good is written has passed the
\* check of its kind, and what that check looked at has not moved since.
GateInv ==
  helper.pc = "persist" =>
    /\ helper.req.op \in {"APPLY_ALL", "COMMIT_CONFIRMED", "RECONCILE"}
    /\ helper.req.op = "APPLY_ALL" => validate_confirmation_request(helper.req, lastGood)
    /\ helper.req.op = "COMMIT_CONFIRMED" => pendingConfirmation = helper.req.config

\* Only three moves keep or reach the point of persisting.
LEMMA GateStep == TypeOK /\ GateInv /\ [Next]_vars => GateInv'
<1> SUFFICES ASSUME TypeOK, GateInv, [Next]_vars, helper'.pc = "persist" PROVE GateInv'
  BY DEF GateInv
<1>1. helper \in Executions BY DEF TypeOK, HelperTypeOK
<1>2. \A o \in Outcomes : ~Concludes(o)
  BY <1>1 DEF Concludes, Executions
<1>3. Idle.pc = "idle" /\ [Idle EXCEPT !.pc = "down"].pc = "down" BY DEF Idle
<1>4. CASE install_and_activate
  <2>1. validate_confirmation_request(helper.req, lastGood) /\ lastGood' = lastGood
    BY <1>4 DEF install_and_activate
  <2>2. helper.req.op \in {"APPLY_ALL", "RECONCILE"}
    BY <1>4 DEF install_and_activate
  <2>3. helper'.req = helper.req
    BY <1>1, <1>4 DEF install_and_activate, Executions
  <2> QED BY <2>1, <2>2, <2>3 DEF GateInv, validate_confirmation_request, requires_confirmation
<1>5. CASE commit_confirmed_apply
  <2>1. helper' = [helper EXCEPT !.pc = "persist"] /\ Matches(helper.req)
    BY <1>2, <1>5 DEF commit_confirmed_apply, Outcomes
  <2>2. helper'.req = helper.req BY <1>1, <2>1 DEF Executions
  <2> QED BY <1>5, <2>1, <2>2 DEF GateInv, Matches, commit_confirmed_apply
<1>6. CASE UNCHANGED <<lastGood, pendingConfirmation, helper>>
  BY <1>6 DEF GateInv, validate_confirmation_request, requires_confirmation
<1>7. CASE process_request
  <2>1. helper' = helper \/ helper'.pc = "execute"
    BY <1>7 DEF process_request, admit, Idle
  <2> QED BY <1>7, <2>1 DEF process_request
<1>8. ~(refuse \/ rollback \/ rollback_fails_closed \/ confirm_apply)
  BY <1>2 DEF refuse, rollback, rollback_fails_closed, confirm_apply, Outcomes
<1>9. ~(save_pending_confirmation \/ save_last_good)
  <2>1. [helper EXCEPT !.pc = "rollback"].pc = "rollback" BY <1>1 DEF Executions
  <2> QED BY <1>2, <2>1 DEF save_pending_confirmation, save_last_good, Outcomes
<1>10. ~(persist_transaction_outcome \/ HelperCrash \/ reconcile_startup)
  BY <1>3 DEF persist_transaction_outcome, HelperCrash, reconcile_startup
<1>11. ~startup_fails BY DEF startup_fails
<1>12. CASE \E req \in ApplyRequest : Submit(req)
  BY <1>6, <1>12 DEF Submit
<1> QED BY <1>4, <1>5, <1>6, <1>7, <1>8, <1>9, <1>10, <1>11, <1>12 DEF Next, HelperStep

\* last-good moves in one place only, to the configuration of the request.
LEMMA LastGoodStep ==
  ASSUME [Next]_vars, lastGood' # lastGood
  PROVE  save_last_good /\ lastGood' = helper.req.config
<1>1. CASE save_last_good BY <1>1 DEF save_last_good
<1>2. CASE ~save_last_good
  BY <1>2 DEF Next, HelperStep, Submit, process_request, refuse, install_and_activate,
     save_pending_confirmation, rollback, confirm_apply, commit_confirmed_apply,
     persist_transaction_outcome, HelperCrash, reconcile_startup, startup_fails,
     rollback_fails_closed
<1> QED BY <1>1, <1>2

\* No APPLY_ALL bypasses the confirmation (validate_confirmation_request,
\* apply_all and commit_confirmed_apply together): a disruptive change reaches
\* last-good only through the pending marker or a reconciliation, for every
\* client, every set of sections and every number of failures and restarts.
THEOREM GateHolds == Spec => ConfirmationGate
<1> DEFINE Gate == lastGood' # lastGood /\ lastGood # NoConfig
                     /\ requires_confirmation(lastGood, lastGood')
                   => helper.req.op = "RECONCILE" \/ pendingConfirmation = lastGood'
<1>1. Init => GateInv
  BY DEF Init, HelperInit, GateInv, Idle
<1>2. GateInv /\ [Next]_vars => [Gate]_vars
  <2> SUFFICES ASSUME GateInv, [Next]_vars, lastGood' # lastGood, lastGood # NoConfig,
                      requires_confirmation(lastGood, lastGood'), helper.req.op # "RECONCILE"
               PROVE  pendingConfirmation = lastGood'
    OBVIOUS
  <2>1. save_last_good /\ lastGood' = helper.req.config BY LastGoodStep
  <2>2. helper.pc = "persist" /\ ~Provisional(helper.req) BY <2>1 DEF save_last_good
  <2>3. helper.req.op # "APPLY_ALL"
    BY <2>1, <2>2 DEF GateInv, Provisional, validate_confirmation_request
  <2> QED BY <2>1, <2>2, <2>3 DEF GateInv
<1> QED BY <1>1, <1>2, TypeCorrect, GateStep, PTL DEF Spec, ConfirmationGate

-----------------------------------------------------------------------------
(***************************************************************************)
(* What is replayed is true. ReplayIsTrue speaks of the idle helper only;  *)
(* ReplayInv follows a request from its activation to its outcome.         *)
(***************************************************************************)

\* Flags are meaningful on APPLY_ALL only.
FlagsFit(req) ==
  req.op = "APPLY_ALL" \/ ~(req.require_confirmation \/ req.defer_last_good)
Fitting == {m \in Message : FlagsFit(m.req)}

\* An outcome reported for a request, and what it says of the appliance.
IsTrue(req, outcome) ==
  /\ outcome = "success" /\ Provisional(req) =>
       pendingConfirmation = req.config /\ Verifiable(req.config)
  /\ outcome = "success" /\ req.op = "CONFIRM" =>
       pendingConfirmation = req.config /\ runtime[Lan] = {req.config.body[Lan]}
  /\ outcome = "success" /\ ~Provisional(req) /\ req.op # "CONFIRM" =>
       lastGood = req.config /\ pendingConfirmation = NoConfig
  /\ outcome = "rolled_back" /\ Provisional(req) =>
       pendingConfirmation = NoConfig /\ runtime[Lan] = {lastGood.body[Lan]}

\* Between the activation and the outcome a provisional apply keeps last-good
\* as its way back, and until the marker is written its LAN address is up; the
\* memory starts empty and follows outcomes that were true when concluded.
ReplayInv ==
  /\ inbox \in Seq(Fitting)
  /\ FlagsFit(helper.req) /\ FlagsFit(memory.req)
  /\ helper.pc = "down" => memory = NoRecord
  /\ helper.pc = "idle" /\ memory # NoRecord => IsTrue(memory.req, memory.outcome)
  /\ helper.pc = "outcome" => IsTrue(helper.req, helper.outcome)
  /\ helper.pc \in {"persist", "rollback"} =>
       /\ helper.req.op # "CONFIRM"
       /\ Provisional(helper.req) => helper.previous = lastGood
  /\ helper.pc = "persist" /\ Provisional(helper.req) => Verifiable(helper.req.config)

LEMMA RequestParts ==
  /\ NoRequest.op = "RECONCILE" /\ ~NoRequest.require_confirmation /\ ~NoRequest.defer_last_good
  /\ NoRecord.req = NoRequest
  /\ Idle.pc = "idle" /\ Idle.req = NoRequest
  /\ Idle.previous = NoConfig /\ NoConfig.body = DefaultBody
BY DEF NoRequest, NoRecord, Idle, NoConfig

\* A conclusion that is true keeps the invariant: nothing else is at stake.
LEMMA ConcludesReplay ==
  ASSUME TypeOK, ReplayInv, NEW o \in Outcomes, Concludes(o), inbox' = inbox, memory' = memory,
         IsTrue(helper.req, o)'
  PROVE  ReplayInv'
<1>1. helper' = [helper EXCEPT !.pc = "outcome", !.outcome = o] BY DEF Concludes
<1>2. helper'.pc = "outcome" /\ helper'.outcome = o /\ helper'.req = helper.req
  BY <1>1 DEF TypeOK, HelperTypeOK, Executions
<1>3. IsTrue(helper.req, helper.outcome)' BY <1>2
<1> QED BY <1>2, <1>3 DEF ReplayInv, FlagsFit

LEMMA FailedReplay ==
  ASSUME TypeOK, ReplayInv, Concludes("failed") \/ Concludes("recovery_required"),
         inbox' = inbox, memory' = memory
  PROVE  ReplayInv'
<1>1. IsTrue(helper.req, "failed")' /\ IsTrue(helper.req, "recovery_required")'
  BY DEF IsTrue
<1>2. "failed" \in Outcomes /\ "recovery_required" \in Outcomes BY DEF Outcomes
<1>3. CASE Concludes("failed") BY <1>1, <1>2, <1>3, ConcludesReplay
<1>4. CASE Concludes("recovery_required") BY <1>1, <1>2, <1>4, ConcludesReplay
<1> QED BY <1>3, <1>4

LEMMA SubmitReplay ==
  ASSUME TypeOK, ReplayInv, NEW req \in ApplyRequest, Submit(req)
  PROVE  ReplayInv'
<1> DEFINE m == [req |-> req, live |-> FALSE]
<1>1. m \in Fitting BY DEF Fitting, Message, Submit, FlagsFit
<1>2. inbox' = Append(inbox, m) BY DEF Submit
<1> HIDE DEF m
<1>3. inbox' \in Seq(Fitting) BY <1>1, <1>2, AppendProperties DEF ReplayInv
<1>4. UNCHANGED helperVars BY DEF Submit
<1> QED BY SMT, <1>3, <1>4 DEF ReplayInv, FlagsFit, helperVars, IsTrue, Verifiable

LEMMA ProcessReplay == TypeOK /\ ReplayInv /\ process_request => ReplayInv'
<1> SUFFICES ASSUME TypeOK, ReplayInv, process_request PROVE ReplayInv'
  OBVIOUS
<1>1. inbox \in Seq(Fitting) BY DEF ReplayInv
<1>2. PICK i \in 1..Len(inbox), unreadable \in BOOLEAN :
        /\ inbox' = SubSeq(inbox, 1, i - 1) \o SubSeq(inbox, i + 1, Len(inbox))
        /\ admit(inbox[i], unreadable)
  BY DEF process_request
<1>3. inbox' \in Seq(Fitting) /\ inbox[i] \in Fitting
  BY <1>1, <1>2, Removal, ElementOfSeq
<1>4. UNCHANGED <<lastGood, pendingConfirmation, runtime>> /\ helper.pc = "idle"
  BY DEF process_request
<1>5. CASE UNCHANGED <<memory, helper>>
  BY <1>3, <1>4, <1>5 DEF ReplayInv, FlagsFit, IsTrue, Verifiable
<1>6. CASE /\ memory' = [req |-> inbox[i].req, outcome |-> "incomplete"]
           /\ helper' = [Idle EXCEPT !.pc = "execute", !.req = inbox[i].req]
  <2>1. helper'.pc = "execute" /\ helper'.req = inbox[i].req BY <1>6 DEF Idle
  <2>2. memory'.req = inbox[i].req BY <1>6
  <2>3. FlagsFit(inbox[i].req) BY <1>3 DEF Fitting
  <2> QED BY <1>3, <2>1, <2>2, <2>3 DEF ReplayInv, FlagsFit
<1>7. UNCHANGED <<memory, helper>>
        \/ (/\ memory' = [req |-> inbox[i].req, outcome |-> "incomplete"]
            /\ helper' = [Idle EXCEPT !.pc = "execute", !.req = inbox[i].req])
  BY <1>2 DEF admit
<1> QED BY <1>5, <1>6, <1>7

LEMMA RefuseReplay == TypeOK /\ ReplayInv /\ refuse => ReplayInv'
BY FailedReplay DEF refuse, channelVars

\* A provisional apply installs its own LAN address, next to the previous one.
LEMMA InstallReplay == TypeOK /\ ReplayInv /\ install_and_activate => ReplayInv'
<1> SUFFICES ASSUME TypeOK, ReplayInv, install_and_activate PROVE ReplayInv'
  OBVIOUS
<1>1. /\ UNCHANGED <<inbox, lastGood, pendingConfirmation, memory>>
      /\ helper.req.op \in {"APPLY_ALL", "RECONCILE"}
  BY DEF install_and_activate, channelVars
<1>2. PICK pc \in {"persist", "rollback"} :
        /\ helper' = [helper EXCEPT !.pc = pc, !.previous = lastGood, !.captured = files]
        /\ pc = "persist" =>
             runtime' = Activated(helper.req.config, lastGood, helper.req.require_confirmation)
  BY DEF install_and_activate
<1>3. helper'.pc = pc /\ helper'.req = helper.req /\ helper'.previous = lastGood
  BY <1>2 DEF TypeOK, HelperTypeOK, Executions
<1>4. ASSUME pc = "persist" PROVE helper.req.config.body[Lan] \in runtime'[Lan]
  <2>1. Lan \in Sections /\ Lan \in Always BY ProtocolAssumption
  <2> QED BY <1>2, <1>4, <2>1 DEF Activated
<1> QED BY <1>1, <1>3, <1>4 DEF ReplayInv, FlagsFit, Provisional, Verifiable

\* The marker a provisional success speaks of is the one just written.
LEMMA PersistReplay ==
  TypeOK /\ ReplayInv /\ (save_pending_confirmation \/ save_last_good) => ReplayInv'
<1> SUFFICES ASSUME TypeOK, ReplayInv, save_pending_confirmation \/ save_last_good
             PROVE  ReplayInv'
  OBVIOUS
<1>1. UNCHANGED <<inbox, memory, runtime>> /\ helper.pc = "persist" /\ helper.req.op # "CONFIRM"
  BY DEF save_pending_confirmation, save_last_good, channelVars, ReplayInv
<1>2. CASE Concludes("failed") \/ Concludes("recovery_required")
  BY <1>1, <1>2, FailedReplay
<1>3. CASE Concludes("success")
  <2>1. helper'.req = helper.req
    BY <1>3 DEF Concludes, TypeOK, HelperTypeOK, Executions
  <2>2. helper' # [helper EXCEPT !.pc = "rollback"]
    BY <1>3 DEF Concludes, TypeOK, HelperTypeOK, Executions
  <2>3. ~Concludes("recovery_required")
    BY <1>3 DEF Concludes, TypeOK, HelperTypeOK, Executions
  <2>4. IsTrue(helper.req, "success")'
    <3>1. CASE save_pending_confirmation
      BY <1>1, <2>1, <2>2, <3>1 DEF save_pending_confirmation, IsTrue, ReplayInv, Verifiable, Provisional
    <3>2. CASE save_last_good
      BY <1>1, <2>1, <2>2, <2>3, <3>2 DEF save_last_good, IsTrue, Provisional
    <3> QED BY <3>1, <3>2
  <2> QED BY <1>1, <1>3, <2>4, ConcludesReplay DEF Outcomes
<1>4. CASE helper' = [helper EXCEPT !.pc = "rollback"]
  <2>1. /\ helper'.pc = "rollback" /\ helper'.req = helper.req
        /\ helper'.previous = helper.previous
    BY <1>4 DEF TypeOK, HelperTypeOK, Executions
  <2>2. Provisional(helper.req) => lastGood' = lastGood
    BY DEF save_pending_confirmation, save_last_good
  <2> QED BY <1>1, <2>1, <2>2 DEF ReplayInv, FlagsFit, Provisional
<1> QED BY <1>2, <1>3, <1>4 DEF save_pending_confirmation, save_last_good

\* The way back ends on last-good alone, as far as the LAN goes.
LEMMA RollbackReplay ==
  TypeOK /\ ReplayInv /\ (rollback \/ (rollback_fails_closed /\ UNCHANGED channelVars))
    => ReplayInv'
<1> SUFFICES ASSUME TypeOK, ReplayInv,
                    rollback \/ (rollback_fails_closed /\ UNCHANGED channelVars)
             PROVE  ReplayInv'
  OBVIOUS
<1>1. UNCHANGED <<inbox, memory, lastGood>> /\ helper.pc = "rollback"
  BY DEF rollback, rollback_fails_closed, channelVars
<1>2. CASE Concludes("recovery_required")
  BY <1>1, <1>2, FailedReplay
<1>3. CASE ~Concludes("recovery_required")
  <2>1. /\ runtime' \in BestEffort(RolledBackRuntime) /\ pendingConfirmation' = NoConfig
        /\ Concludes("rolled_back")
    BY <1>3 DEF rollback, rollback_fails_closed
  <2>2. Lan \in Sections /\ Lan \notin Optional /\ Lan \notin FileDriven
    BY ProtocolAssumption
  <2>3. runtime'[Lan] = RolledBackRuntime[Lan] BY <2>1, <2>2 DEF BestEffort
  <2>4. helper'.req = helper.req
    BY <2>1 DEF Concludes, TypeOK, HelperTypeOK, Executions
  <2>5. RolledBackRuntime[Lan] = {helper.previous.body[Lan]}
    <3>1. CASE helper.previous = NoConfig
      BY <2>2, <3>1, RequestParts DEF RolledBackRuntime, FirstRunRuntime
    <3>2. CASE helper.previous # NoConfig
      BY <2>2, <3>2 DEF RolledBackRuntime
    <3> QED BY <3>1, <3>2
  <2>6. Provisional(helper.req) => helper.previous = lastGood
    BY <1>1 DEF ReplayInv
  <2>7. IsTrue(helper.req, "rolled_back")'
    BY <1>1, <2>1, <2>3, <2>4, <2>5, <2>6 DEF IsTrue, Provisional
  <2> QED BY <1>1, <2>1, <2>7, ConcludesReplay DEF Outcomes
<1> QED BY <1>2, <1>3

LEMMA ConfirmReplay ==
  TypeOK /\ ReplayInv /\ (confirm_apply \/ commit_confirmed_apply) => ReplayInv'
<1> SUFFICES ASSUME TypeOK, ReplayInv, confirm_apply \/ commit_confirmed_apply
             PROVE  ReplayInv'
  OBVIOUS
<1>1. UNCHANGED <<inbox, memory, lastGood, pendingConfirmation>> /\ helper.pc = "execute"
  BY DEF confirm_apply, commit_confirmed_apply, channelVars
<1>2. CASE Concludes("failed") \/ Concludes("recovery_required")
  BY <1>1, <1>2, FailedReplay
<1>3. CASE confirm_apply /\ Matches(helper.req) /\ Concludes("success")
           /\ runtime' = [runtime EXCEPT ![Lan] = {helper.req.config.body[Lan]}]
  <2>1. helper'.req = helper.req /\ helper.req.op = "CONFIRM"
    BY <1>3 DEF Concludes, TypeOK, HelperTypeOK, Executions, confirm_apply
  <2>2. ~Provisional(helper.req) BY <2>1 DEF ReplayInv, FlagsFit, Provisional
  <2>3. runtime'[Lan] = {helper.req.config.body[Lan]}
    BY <1>3, ProtocolAssumption DEF TypeOK, HelperTypeOK, Runtime
  <2>4. IsTrue(helper.req, "success")'
    BY <1>1, <1>3, <2>1, <2>2, <2>3 DEF IsTrue, Provisional, Matches
  <2> QED BY <1>1, <1>3, <2>4, ConcludesReplay DEF Outcomes
<1>4. CASE commit_confirmed_apply /\ helper' = [helper EXCEPT !.pc = "persist"]
  <2>1. helper'.pc = "persist" /\ helper'.req = helper.req
    BY <1>4 DEF TypeOK, HelperTypeOK, Executions
  <2>2. helper.req.op = "COMMIT_CONFIRMED" BY <1>4 DEF commit_confirmed_apply
  <2> QED BY <1>1, <2>1, <2>2 DEF ReplayInv, FlagsFit, Provisional
<1> QED BY <1>2, <1>3, <1>4 DEF confirm_apply, commit_confirmed_apply

LEMMA OutcomeReplay == TypeOK /\ ReplayInv /\ persist_transaction_outcome => ReplayInv'
<1> SUFFICES ASSUME TypeOK, ReplayInv, persist_transaction_outcome PROVE ReplayInv'
  OBVIOUS
<1>1. /\ UNCHANGED <<inbox, lastGood, pendingConfirmation, runtime>>
      /\ helper' = Idle /\ helper.pc = "outcome"
  BY DEF persist_transaction_outcome
<1>2. helper'.pc = "idle" /\ FlagsFit(helper'.req)
  BY <1>1, RequestParts DEF FlagsFit
<1>3. PICK o \in {helper.outcome, "recovery_required"} :
        memory' = [req |-> helper.req, outcome |-> o]
  BY DEF persist_transaction_outcome
<1>4. memory'.req = helper.req /\ memory'.outcome = o BY <1>3
<1>5. IsTrue(memory.req, memory.outcome)'
  <2>1. IsTrue(helper.req, helper.outcome) BY <1>1 DEF ReplayInv
  <2> QED BY <1>1, <1>3, <1>4, <2>1 DEF IsTrue, Verifiable, Provisional
<1> QED BY <1>1, <1>2, <1>4, <1>5 DEF ReplayInv, FlagsFit

\* A start begins with no memory, so it has nothing to replay from there.
LEMMA RestartReplay ==
  TypeOK /\ ReplayInv
    /\ (HelperCrash \/ reconcile_startup \/ (startup_fails /\ UNCHANGED channelVars))
    => ReplayInv'
<1> SUFFICES ASSUME TypeOK, ReplayInv,
                    HelperCrash \/ reconcile_startup \/ (startup_fails /\ UNCHANGED channelVars)
             PROVE  ReplayInv'
  OBVIOUS
<1>1. FlagsFit(NoRequest) BY RequestParts DEF FlagsFit
<1>2. CASE HelperCrash
  <2>1. helper'.pc = "down" /\ helper'.req = NoRequest BY <1>2 DEF HelperCrash, Idle
  <2>2. memory' = NoRecord /\ memory'.req = NoRequest /\ inbox' = <<>>
    BY <1>2, RequestParts DEF HelperCrash
  <2>3. inbox' \in Seq(Fitting) BY <2>2, EmptySeq
  <2> QED BY <1>1, <2>1, <2>2, <2>3 DEF ReplayInv
<1>3. CASE reconcile_startup
  <2>1. UNCHANGED <<inbox, memory>> /\ memory = NoRecord /\ helper' = Idle
    BY <1>3 DEF reconcile_startup, channelVars, ReplayInv
  <2> QED BY <1>1, <2>1, RequestParts DEF ReplayInv
<1>4. CASE startup_fails /\ UNCHANGED channelVars
  <2>1. UNCHANGED <<inbox, memory, helper>> /\ helper.pc = "down"
    BY <1>4 DEF startup_fails, channelVars
  <2> QED BY <2>1 DEF ReplayInv, FlagsFit
<1> QED BY <1>2, <1>3, <1>4

LEMMA NextReplay == TypeOK /\ ReplayInv /\ [Next]_vars => ReplayInv'
<1> SUFFICES ASSUME TypeOK, ReplayInv, [Next]_vars PROVE ReplayInv'
  OBVIOUS
<1>1. CASE \E req \in ApplyRequest : Submit(req)
  BY <1>1, SubmitReplay
<1>2. CASE HelperStep
  BY <1>2, ProcessReplay, RefuseReplay, InstallReplay, PersistReplay, RollbackReplay,
     ConfirmReplay, OutcomeReplay DEF HelperStep
<1>3. CASE HelperCrash \/ reconcile_startup \/ (startup_fails /\ UNCHANGED channelVars)
  BY <1>3, RestartReplay
<1>4. CASE rollback_fails_closed /\ UNCHANGED channelVars
  BY <1>4, RollbackReplay
<1>5. CASE UNCHANGED vars
  BY SMTT(30), <1>5 DEF ReplayInv, FlagsFit, IsTrue, Verifiable, vars, helperVars, channelVars
<1> QED BY <1>1, <1>2, <1>3, <1>4, <1>5 DEF Next

\* What the memory of router-applyd would answer to a repeated request
\* (replay_transaction_response) is still true of the appliance, for every
\* client, every set of sections and every number of failures and restarts: a
\* provisional success is pending and reachable, any other success is last-good
\* with nothing pending, and a provisional apply reported rolled back left the
\* management address of last-good alone.
THEOREM ReplayHolds == Spec => []ReplayIsTrue
<1>1. Init => ReplayInv
  <2> SUFFICES ASSUME Init PROVE ReplayInv OBVIOUS
  <2>1. helper.pc = "down" /\ helper.req = NoRequest BY DEF Init, HelperInit, Idle
  <2>2. memory = NoRecord /\ inbox = <<>> BY DEF Init, HelperInit, ChannelInit
  <2>3. inbox \in Seq(Fitting) BY <2>2, EmptySeq
  <2>4. FlagsFit(NoRequest) BY RequestParts DEF FlagsFit
  <2> QED BY <2>1, <2>2, <2>3, <2>4, RequestParts DEF ReplayInv
<1>2. ReplayInv => ReplayIsTrue
  <2> SUFFICES ASSUME ReplayInv, helper.pc = "idle", memory # NoRecord PROVE ReplayIsTrue
    BY DEF ReplayIsTrue
  <2>1. IsTrue(memory.req, memory.outcome) /\ FlagsFit(memory.req) BY DEF ReplayInv
  <2>2. memory.req.op = "CONFIRM" => ~Provisional(memory.req)
    BY <2>1 DEF FlagsFit, Provisional
  <2> QED BY <2>1, <2>2 DEF ReplayIsTrue, IsTrue
<1> QED BY <1>1, <1>2, TypeCorrect, NextReplay, PTL DEF Spec

-----------------------------------------------------------------------------
(***************************************************************************)
(* LoginLimiter. That a window grants at most LIMIT attempts is not        *)
(* inductive: what a restart or a failed write leaves to judge the next    *)
(* attempt must count every grant of the window in force (GrantsCounted),  *)
(* and a refusal ends in time because the start that judges it is          *)
(* explained by the moment the refusals began (LockExplained).             *)
(***************************************************************************)

(* What the variables are, with every field of the two records. *)
LimiterTyped ==
  /\ now \in Nat /\ now <= MaxTime /\ offset \in Offsets /\ offset \in Int
  /\ cache \in [attempts : 0 .. LIMIT, first : [wall : Int, mono : Int]]
  /\ bucket \in [attempts : 0 .. LIMIT, wall : Int]
  /\ janitor \in {"sleep", "clean"}
  /\ opened \in Nat /\ opened <= now /\ granted \in Nat /\ steps \in 0 .. MaxSteps
  /\ loose \in BOOLEAN /\ lockedSince \in Int /\ -1 <= lockedSince /\ lockedSince <= now

(* Where the starts of windows come from: a monotonic reading is of the past,
   the stored start is rounded, and a cached start without a monotonic
   reading is the stored one. *)
StartsRead ==
  /\ cache.first.mono >= NoMono /\ cache.first.mono <= now
  /\ rfc3339(bucket.wall) = bucket.wall
  /\ cache.attempts # 0 /\ cache.first.mono = NoMono =>
       /\ rfc3339(cache.first.wall) = cache.first.wall
       /\ bucket.attempts # 0 => bucket.wall = cache.first.wall

(* Every grant of the window in force is counted in the entry and in the row
   that would judge the next attempt. *)
GrantsCounted ==
  /\ granted <= LIMIT
  /\ cache.attempts # 0 => granted <= cache.attempts
  /\ bucket.attempts # 0 => granted <= bucket.attempts

(* How long a refusal has lasted: while a monotonic start judges, no longer
   than the window; while a stored one does, no longer than a window before
   it began to and the time it has judged. *)
FullSince(attempts, wall) ==
  attempts >= LIMIT /\ Wall - wall <= WINDOW /\ wall <= Wall
      => now - lockedSince <= WINDOW + (Wall - wall)

LockExplained ==
  /\ lockedSince # -1 <=> Denied
  /\ Denied =>
       IF cache.attempts # 0
       THEN IF cache.first.mono # NoMono THEN cache.first.mono <= lockedSince
            ELSE FullSince(cache.attempts, cache.first.wall)
       ELSE FullSince(bucket.attempts, bucket.wall)

(* While the window is not loose, every start that can judge it is its
   opening, and the row is missing only when its time has run. *)
WindowKnown ==
  ~loose =>
    /\ cache.attempts # 0 /\ cache.first.mono # NoMono =>
         cache.first.mono = opened /\ cache.first.wall = opened + offset
    /\ cache.attempts # 0 /\ cache.first.mono = NoMono => cache.first.wall = rfc3339(opened + offset)
    /\ bucket.attempts # 0 => bucket.wall = rfc3339(opened + offset)
    /\ bucket.attempts = 0 => now - opened > WINDOW - SECOND

LimiterInv == LimiterTyped /\ StartsRead /\ GrantsCounted /\ LockExplained /\ WindowKnown

-----------------------------------------------------------------------------
\* rfc3339 drops less than a second, and nothing from a time it made.
LEMMA Rounded ==
  ASSUME NEW w \in Int
  PROVE  rfc3339(w) \in Int /\ rfc3339(w) <= w /\ w - SECOND < rfc3339(w) /\ rfc3339(rfc3339(w)) = rfc3339(w)
<1>1. SECOND \in Nat \ {0}
  BY LimiterAssumption
<1>2. rfc3339(w) \in Int /\ rfc3339(w) <= w /\ w - SECOND < rfc3339(w)
  BY SMT, <1>1 DEF rfc3339
<1>3. rfc3339(rfc3339(w)) = rfc3339(w)
  BY SMT, <1>1 DEF rfc3339
<1> QED
  BY <1>2, <1>3

LEMMA LimiterStarts == LimiterInit => LimiterInv
<1>1. 0 % SECOND = 0
  BY SMT, LimiterAssumption
<1> QED
  BY SMT, <1>1, LimiterAssumption
  DEF LimiterInit, LimiterInv, LimiterTyped, StartsRead, GrantsCounted, LockExplained, WindowKnown,
      FullSince, Denied, Lapsed, Age, Before, Wall, Loaded, rfc3339, NoEntry, NoBucket, NoMono

\* A window is opened when nothing is refused.
LEMMA OpenKeeps ==
  ASSUME LimiterInv, Open, ~Denied, UNCHANGED <<now, offset, steps, janitor>>, Watch
  PROVE  LimiterInv'
<1> USE LimiterAssumption
<1>1. /\ rfc3339(Wall) \in Int /\ rfc3339(rfc3339(Wall)) = rfc3339(Wall) /\ Wall \in Int
  BY SMT, Rounded DEF LimiterInv, LimiterTyped, Wall
<1>2. PICK g \in {0, 1} : granted' = g /\ loose' = (g = 0)
             /\ bucket' = IF g = 0 THEN bucket ELSE [attempts |-> 1, wall |-> rfc3339(Wall)]
  BY SMT DEF Open, set_rate_limit_bucket, Now
<1>3. cache' = [attempts |-> 1, first |-> [wall |-> Wall, mono |-> now]] /\ opened' = now
  BY DEF Open, Now
<1>4. lockedSince = -1
  BY DEF LimiterInv, LockExplained
<1>5. lockedSince' = IF ~Denied' THEN -1 ELSE now
  BY <1>4 DEF Watch
<1>6. LimiterTyped'
  BY SMT, <1>1, <1>2, <1>3, <1>5 DEF LimiterInv, LimiterTyped
<1>7. StartsRead'
  BY SMT, <1>1, <1>2, <1>3 DEF LimiterInv, LimiterTyped, StartsRead, NoMono
<1>8. GrantsCounted'
  BY SMT, <1>1, <1>2, <1>3 DEF LimiterInv, LimiterTyped, GrantsCounted
<1>9. LockExplained'
  BY SMT, <1>1, <1>2, <1>3, <1>5 DEF LimiterInv, LimiterTyped, LockExplained, NoMono
<1>10. WindowKnown'
  <2>1. ~loose' => bucket' = [attempts |-> 1, wall |-> rfc3339(opened' + offset')]
    BY <1>2, <1>3 DEF Wall
  <2> QED
    BY SMT, <1>3, <2>1 DEF LimiterInv, LimiterTyped, WindowKnown, NoMono, Wall
<1> QED
  BY <1>6, <1>7, <1>8, <1>9, <1>10 DEF LimiterInv

\* What judges the next attempt: the cached entry, or else the stored row.
Judging == IF cache.attempts # 0 THEN cache ELSE [attempts |-> bucket.attempts, first |-> Loaded(bucket)]

LEMMA DeniedByJudging ==
  LimiterInv => (Denied <=> Judging.attempts >= LIMIT /\ ~Lapsed(Judging.first))
BY DEF LimiterInv, LimiterTyped, Denied, Judging, Loaded

\* Facts of the entry that judges, whichever of the two it is.
LEMMA JudgingKnown ==
  ASSUME LimiterInv, Judging.attempts # 0
  PROVE  /\ Judging \in [attempts : 1 .. LIMIT, first : [wall : Int, mono : Int]]
         /\ granted <= Judging.attempts
         /\ Judging.first.mono >= NoMono /\ Judging.first.mono <= now
         /\ Judging.first.mono = NoMono =>
              /\ rfc3339(Judging.first.wall) = Judging.first.wall
              /\ bucket.attempts # 0 => bucket.wall = Judging.first.wall
         /\ ~loose =>
              IF Judging.first.mono # NoMono
              THEN Judging.first.mono = opened /\ Judging.first.wall = opened + offset
              ELSE Judging.first.wall = rfc3339(opened + offset)
         /\ lockedSince # -1 =>
              IF Judging.first.mono # NoMono THEN Judging.first.mono <= lockedSince
              ELSE FullSince(Judging.attempts, Judging.first.wall)
<1> USE LimiterAssumption
<1>1. CASE cache.attempts # 0
  BY SMT, <1>1 DEF LimiterInv, LimiterTyped, Judging, StartsRead, GrantsCounted, LockExplained, WindowKnown
<1>2. CASE cache.attempts = 0
  BY SMT, <1>2 DEF LimiterInv, LimiterTyped, Judging, StartsRead, GrantsCounted, LockExplained, WindowKnown,
     Loaded, NoMono
<1> QED
  BY <1>1, <1>2 DEF LimiterInv, LimiterTyped

\* A refusal leaves the judging entry in the cache.
LEMMA RefuseKeeps ==
  ASSUME LimiterInv, Judging.attempts # 0, Judging.attempts >= LIMIT, ~Lapsed(Judging.first),
         Refuse(Judging.attempts, Judging.first), UNCHANGED <<now, offset, steps, janitor>>, Watch
  PROVE  LimiterInv'
<1> USE LimiterAssumption, JudgingKnown
<1>1. cache' = Judging /\ bucket' = bucket /\ opened' = opened /\ granted' = granted /\ loose' = loose
  BY DEF Refuse
<1>2. Denied /\ Denied'
  BY <1>1, DeniedByJudging DEF Denied, Lapsed, Age, Before, Wall, NoMono
<1>3. lockedSince' = lockedSince /\ lockedSince # -1
  BY <1>2 DEF Watch, LimiterInv, LockExplained
<1>4. LimiterTyped'
  BY SMT, <1>1, <1>3 DEF LimiterInv, LimiterTyped
<1>5. StartsRead'
  BY <1>1 DEF LimiterInv, StartsRead, NoMono
<1>6. GrantsCounted'
  BY <1>1 DEF LimiterInv, GrantsCounted
<1>7. LockExplained'
  BY <1>1, <1>2, <1>3 DEF LimiterInv, LockExplained, FullSince, Wall
<1>8. WindowKnown'
  BY <1>1 DEF LimiterInv, WindowKnown, NoMono
<1> QED
  BY <1>4, <1>5, <1>6, <1>7, <1>8 DEF LimiterInv

\* A counted attempt: one more in the cache, and in the row when it is stored.
LEMMA CountKeeps ==
  ASSUME LimiterInv, Judging.attempts # 0, Judging.attempts < LIMIT,
         Count(Judging.attempts, Judging.first), UNCHANGED <<now, offset, steps, janitor>>, Watch
  PROVE  LimiterInv'
<1> USE LimiterAssumption
<1> DEFINE n == Judging.attempts + 1
           first == Judging.first
<1>0. /\ n \in 2 .. LIMIT /\ first \in [wall : Int, mono : Int] /\ granted + 1 <= n
      /\ first.mono >= -1 /\ first.mono <= now
  BY SMT, JudgingKnown DEF NoMono, LimiterInv, LimiterTyped
<1>1. /\ cache' = [attempts |-> n, first |-> first] /\ opened' = opened /\ loose' = loose
  BY DEF Count
<1>2. \/ granted' = granted /\ bucket' = bucket
      \/ granted' = granted + 1 /\ bucket' = [attempts |-> n, wall |-> rfc3339(first.wall)]
  BY DEF Count, set_rate_limit_bucket
<1>3. rfc3339(first.wall) \in Int /\ rfc3339(rfc3339(first.wall)) = rfc3339(first.wall)
  BY <1>0, Rounded
<1>4. ~Denied /\ lockedSince = -1
  BY SMT, DeniedByJudging, JudgingKnown DEF LimiterInv, LockExplained
<1>5. lockedSince' = IF ~Denied' THEN -1 ELSE now
  BY <1>4 DEF Watch
<1> HIDE DEF n, first
<1>6. LimiterTyped'
  BY SMT, <1>0, <1>1, <1>2, <1>3, <1>5 DEF LimiterInv, LimiterTyped
<1>7. StartsRead'
  <2>1. first.mono = NoMono => /\ rfc3339(first.wall) = first.wall
                               /\ bucket.attempts # 0 => bucket.wall = first.wall
    BY JudgingKnown DEF first
  <2> QED
    BY SMT, <1>0, <1>1, <1>2, <1>3, <2>1 DEF LimiterInv, StartsRead, NoMono
<1>8. GrantsCounted'
  BY SMT, <1>0, <1>1, <1>2 DEF LimiterInv, LimiterTyped, GrantsCounted
<1>9. LockExplained'
  <2>1. now - lockedSince' = 0 \/ ~Denied'
    BY SMT, <1>5 DEF LimiterInv, LimiterTyped
  <2> QED
    BY SMT, <1>0, <1>1, <1>5, <2>1 DEF LimiterInv, LimiterTyped, LockExplained, FullSince, Wall, NoMono
<1>10. WindowKnown'
  <2>1. ~loose => IF first.mono # NoMono
                  THEN first.mono = opened /\ first.wall = opened + offset
                  ELSE first.wall = rfc3339(opened + offset)
    BY JudgingKnown DEF first
  <2>2. first.mono = NoMono => rfc3339(first.wall) = first.wall
    BY JudgingKnown DEF first
  <2> QED
    BY SMT, <1>0, <1>1, <1>2, <2>1, <2>2 DEF LimiterInv, WindowKnown, NoMono
<1> QED
  BY <1>6, <1>7, <1>8, <1>9, <1>10 DEF LimiterInv

\* An attempt judged by an entry, whether cached or loaded.
LEMMA JudgeKeeps ==
  ASSUME LimiterInv, Judging.attempts # 0, Judge(Judging.attempts, Judging.first),
         UNCHANGED <<now, offset, steps, janitor>>, Watch
  PROVE  LimiterInv'
<1>1. CASE Lapsed(Judging.first)
  BY <1>1, OpenKeeps, DeniedByJudging DEF Judge
<1>2. CASE ~Lapsed(Judging.first) /\ Judging.attempts >= LIMIT
  BY <1>2, RefuseKeeps DEF Judge
<1>3. CASE ~Lapsed(Judging.first) /\ ~(Judging.attempts >= LIMIT)
  <2>1. Judging.attempts < LIMIT
    BY SMT, <1>3, JudgingKnown, LimiterAssumption
  <2> QED
    BY <1>3, <2>1, CountKeeps DEF Judge
<1> QED
  BY <1>1, <1>2, <1>3

\* Nothing that judges has changed: the refusal stands as it did.
LEMMA WatchSame ==
  ASSUME LimiterInv, UNCHANGED <<now, offset, cache, bucket>>, Watch
  PROVE  lockedSince' = lockedSince /\ (Denied' <=> Denied)
BY DEF LimiterInv, LockExplained, LimiterTyped, Watch, Denied, Lapsed, Age, Before, Wall, Loaded

LEMMA SameKeeps ==
  ASSUME LimiterInv, UNCHANGED <<now, offset, cache, bucket, opened, granted, loose, steps>>, Watch,
         janitor' \in {"sleep", "clean"}
  PROVE  LimiterInv'
BY SMT, WatchSame DEF LimiterInv, LimiterTyped, StartsRead, GrantsCounted, LockExplained, WindowKnown, FullSince, Wall

LEMMA AllowKeeps ==
  ASSUME LimiterInv, allow_cached \/ allow_loaded
  PROVE  LimiterInv'
<1>1. CASE allow_cached
  <2>1. Judging = cache /\ Judging.attempts # 0
    BY <1>1 DEF allow_cached, Judging
  <2> QED
    BY <1>1, <2>1, JudgeKeeps DEF allow_cached
<1>2. CASE allow_loaded /\ UNCHANGED <<cache, bucket, opened, granted, loose>>
  <2>1. janitor' \in {"sleep", "clean"}
    BY <1>2 DEF allow_loaded, LimiterInv, LimiterTyped
  <2> QED
    BY <1>2, <2>1, SameKeeps DEF allow_loaded
<1>3. CASE allow_loaded /\ bucket.attempts = 0 /\ Open
  <2>1. ~Denied
    BY SMT, <1>3, LimiterAssumption DEF allow_loaded, Denied
  <2> QED
    BY <1>3, <2>1, OpenKeeps DEF allow_loaded
<1>4. CASE allow_loaded /\ bucket.attempts # 0 /\ Judge(bucket.attempts, Loaded(bucket))
  <2>1. Judging.attempts = bucket.attempts /\ Judging.first = Loaded(bucket)
    BY <1>4 DEF allow_loaded, Judging
  <2> QED
    BY <1>4, <2>1, JudgeKeeps DEF allow_loaded
<1> QED
  BY <1>1, <1>2, <1>3, <1>4 DEF allow_loaded

\* The entry goes: the row judges from here on, and it has not been asked
\* while the entry was in force longer than the window.
LEMMA ForgetKeeps ==
  ASSUME LimiterInv, cache' = NoEntry, janitor' \in {"sleep", "clean"},
         UNCHANGED <<clocks, bucket, opened, granted>>, Watch
  PROVE  LimiterInv'
<1> USE LimiterAssumption
<1>1. CASE cache.attempts = 0
  <2>1. Denied' <=> Denied
    BY <1>1 DEF Denied, NoEntry, clocks, Lapsed, Age, Before, Wall, Loaded
  <2>2. lockedSince' = lockedSince
    BY <2>1 DEF Watch, clocks, LimiterInv, LockExplained
  <2>3. LimiterTyped' /\ GrantsCounted' /\ WindowKnown'
    BY SMT, <2>2 DEF LimiterInv, LimiterTyped, GrantsCounted, WindowKnown, NoEntry, NoMono, clocks
  <2>4. StartsRead'
    BY SMT DEF LimiterInv, LimiterTyped, StartsRead, NoEntry, NoMono, clocks
  <2>5. LockExplained'
    BY <1>1, <2>1, <2>2 DEF LimiterInv, LockExplained, FullSince, Wall, NoEntry, clocks
  <2> QED
    BY <2>3, <2>4, <2>5 DEF LimiterInv
<1>2. CASE cache.attempts # 0
  <2>1. lockedSince' = IF ~Denied' THEN -1 ELSE IF lockedSince = -1 THEN now ELSE lockedSince
    BY DEF Watch, clocks
  <2>2. LimiterTyped'
    BY SMT, <2>1 DEF LimiterInv, LimiterTyped, NoEntry, NoMono, clocks
  <2>3. GrantsCounted' /\ WindowKnown'
    BY DEF LimiterInv, LimiterTyped, GrantsCounted, WindowKnown, NoEntry, NoMono, clocks
  <2>4. StartsRead'
    BY SMT DEF LimiterInv, LimiterTyped, StartsRead, NoEntry, NoMono, clocks
  <2>5. Denied' => bucket.attempts >= LIMIT /\ Wall - bucket.wall <= WINDOW /\ bucket.wall <= Wall
    BY SMT DEF Denied, Lapsed, Age, Before, Wall, Loaded, NoEntry, clocks, LimiterInv, LimiterTyped
  <2>6. lockedSince # -1 /\ cache.first.mono # NoMono => now - lockedSince <= WINDOW
    BY SMT, <1>2 DEF LimiterInv, LimiterTyped, LockExplained, Denied, Lapsed, Age, NoMono
  <2>7. lockedSince # -1 /\ cache.first.mono = NoMono /\ bucket.attempts # 0 =>
           now - lockedSince <= WINDOW + (Wall - bucket.wall)
    BY SMT, <1>2 DEF LimiterInv, LimiterTyped, LockExplained, StartsRead, FullSince, Denied, Lapsed, Age, Before, NoMono, Wall
  <2>8. Denied' => now - lockedSince' <= WINDOW + (Wall - bucket.wall)
    BY SMT, <2>1, <2>5, <2>6, <2>7 DEF LimiterInv, LimiterTyped, Wall
  <2>9. LockExplained'
    BY SMT, <2>1, <2>8 DEF LockExplained, FullSince, Wall, NoEntry, clocks, LimiterInv, LimiterTyped
  <2> QED
    BY <2>2, <2>3, <2>4, <2>9 DEF LimiterInv
<1> QED
  BY <1>1, <1>2

LEMMA CleanCacheKeeps ==
  ASSUME LimiterInv, CleanCache
  PROVE  LimiterInv'
<1>1. CASE cache' = cache
  BY <1>1, SameKeeps DEF CleanCache, clocks
<1>2. CASE cache' = NoEntry
  BY <1>2, ForgetKeeps DEF CleanCache
<1> QED
  BY <1>1, <1>2 DEF CleanCache

\* The row goes once its time has run; without a cached entry nothing is
\* refused any more.
LEMMA CleanTableKeeps ==
  ASSUME LimiterInv, clean_expired_rate_limit_buckets
  PROVE  LimiterInv'
<1> USE LimiterAssumption
<1>1. CASE bucket' = bucket
  BY <1>1, SameKeeps DEF clean_expired_rate_limit_buckets, clocks
<1>2. CASE bucket' = NoBucket /\ bucket.wall < rfc3339(Wall - WINDOW)
  <2>1. bucket.wall < Wall - WINDOW
    BY SMT, <1>2, Rounded DEF LimiterInv, LimiterTyped, Wall
  <2>2. UNCHANGED <<now, offset, steps, loose, cache, opened, granted>> /\ janitor' = "sleep"
    BY DEF clean_expired_rate_limit_buckets, clocks
  <2>3. lockedSince' = IF ~Denied' THEN -1 ELSE IF lockedSince = -1 THEN now ELSE lockedSince
    BY <2>2 DEF clean_expired_rate_limit_buckets, Watch
  <2>4. IF cache.attempts # 0 THEN Denied' <=> Denied ELSE ~Denied'
    BY SMT, <1>2, <2>2 DEF Denied, Lapsed, Age, Before, Wall, Loaded, NoBucket
  <2>5. LimiterTyped'
    BY SMT, <1>2, <2>2, <2>3 DEF LimiterInv, LimiterTyped, NoBucket
  <2>6. 0 % SECOND = 0
    BY SMT
  <2>7. StartsRead'
    BY SMT, <1>2, <2>2, <2>6 DEF LimiterInv, StartsRead, NoBucket, rfc3339
  <2>8. GrantsCounted'
    BY <1>2, <2>2 DEF LimiterInv, GrantsCounted, NoBucket
  <2>9. LockExplained'
    BY <1>2, <2>2, <2>3, <2>4 DEF LimiterInv, LimiterTyped, LockExplained, FullSince, NoBucket, Wall
  <2>10. ~loose /\ bucket.attempts # 0 => now - opened > WINDOW - SECOND
    <3>1. opened + offset \in Int /\ opened + offset - SECOND < rfc3339(opened + offset)
      BY SMT, Rounded DEF LimiterInv, LimiterTyped
    <3> QED
      BY SMT, <2>1, <3>1 DEF LimiterInv, LimiterTyped, WindowKnown, Wall
  <2>11. WindowKnown'
    BY <1>2, <2>2, <2>10 DEF LimiterInv, WindowKnown, NoBucket
  <2> QED
    BY <2>5, <2>7, <2>8, <2>9, <2>11 DEF LimiterInv
<1> QED
  BY <1>1, <1>2 DEF clean_expired_rate_limit_buckets

\* A step of the clock starts the account of a refusal anew.
LEMMA ClockStepKeeps ==
  ASSUME LimiterInv, ClockStep
  PROVE  LimiterInv'
<1> USE LimiterAssumption
<1>1. UNCHANGED <<now, cache, bucket, janitor, opened, granted>> /\ offset' \in Offsets /\ offset' \in Int
      /\ steps' \in 0 .. MaxSteps /\ loose' = TRUE
  BY SMT DEF ClockStep, LimiterInv, LimiterTyped
<1>2. CASE offset' = offset
  <2>1. lockedSince' = lockedSince /\ (Denied' <=> Denied)
    BY <1>1, <1>2, WatchSame DEF ClockStep
  <2> QED
    BY <1>1, <1>2, <2>1 DEF LimiterInv, LimiterTyped, StartsRead, GrantsCounted, LockExplained, WindowKnown, FullSince, Wall
<1>3. CASE offset' # offset
  <2>1. lockedSince' = IF ~Denied' THEN -1 ELSE now
    BY <1>1, <1>3 DEF ClockStep, Watch
  <2>2. LimiterTyped'
    BY SMT, <1>1, <2>1 DEF LimiterInv, LimiterTyped
  <2>3. StartsRead' /\ GrantsCounted' /\ WindowKnown'
    BY <1>1 DEF LimiterInv, StartsRead, GrantsCounted, WindowKnown
  <2>4. LockExplained'
    BY SMT, <1>1, <2>1 DEF LimiterInv, LimiterTyped, LockExplained, StartsRead, FullSince, Wall, NoMono
  <2> QED
    BY <2>2, <2>3, <2>4 DEF LimiterInv
<1> QED
  BY <1>2, <1>3

\* Time passes for both clocks alike.
LEMMA TickKeeps ==
  ASSUME LimiterInv, Tick
  PROVE  LimiterInv'
<1> USE LimiterAssumption
<1>1. now < MaxTime /\ now' = now + 1 /\ UNCHANGED <<offset, steps, loose, cache, bucket, janitor, opened, granted>>
  BY DEF Tick
<1>2. lockedSince' = IF ~Denied' THEN -1 ELSE IF lockedSince = -1 THEN now' ELSE lockedSince
  BY <1>1 DEF Tick, Watch
<1>3. LimiterTyped'
  BY SMT, <1>1, <1>2 DEF LimiterInv, LimiterTyped
<1>4. StartsRead' /\ GrantsCounted'
  BY SMT, <1>1 DEF LimiterInv, LimiterTyped, StartsRead, GrantsCounted
<1>5. WindowKnown'
  BY SMT, <1>1 DEF LimiterInv, LimiterTyped, WindowKnown
<1>6. LockExplained'
  <2>1. CASE ~Denied
    BY SMT, <1>1, <1>2, <2>1 DEF LimiterInv, LimiterTyped, LockExplained, StartsRead, FullSince, Wall, NoMono
  <2>2. CASE Denied /\ cache.attempts # 0 /\ cache.first.mono # NoMono
    BY <1>1, <1>2, <2>2 DEF LimiterInv, LimiterTyped, LockExplained
  <2>3. CASE Denied /\ cache.attempts # 0 /\ cache.first.mono = NoMono
    <3>1. now - lockedSince <= WINDOW + (Wall - cache.first.wall)
      BY SMT, <2>3 DEF LimiterInv, LimiterTyped, LockExplained, FullSince, Denied, Lapsed, Age, Before, Wall
    <3> QED
      BY SMTT(30), <1>1, <1>2, <2>3, <3>1 DEF LimiterInv, LimiterTyped, LockExplained, FullSince, Wall
  <2>4. CASE Denied /\ cache.attempts = 0
    <3>1. now - lockedSince <= WINDOW + (Wall - bucket.wall)
      BY SMT, <2>4 DEF LimiterInv, LimiterTyped, LockExplained, FullSince, Denied, Lapsed, Age, Before, Wall, Loaded
    <3> QED
      BY SMTT(30), <1>1, <1>2, <2>4, <3>1 DEF LimiterInv, LimiterTyped, LockExplained, FullSince, Wall
  <2> QED
    BY <2>1, <2>2, <2>3, <2>4
<1> QED
  BY <1>3, <1>4, <1>5, <1>6 DEF LimiterInv

LEMMA LimiterStep == LimiterInv /\ [LimiterNext]_limiterVars => LimiterInv'
<1> SUFFICES ASSUME LimiterInv, [LimiterNext]_limiterVars
             PROVE  LimiterInv'
  OBVIOUS
<1>1. CASE allow_cached \/ allow_loaded
  BY <1>1, AllowKeeps
<1>2. CASE CleanCache
  BY <1>2, CleanCacheKeeps
<1>3. CASE clean_expired_rate_limit_buckets
  BY <1>3, CleanTableKeeps
<1>4. CASE Restart
  BY <1>4, ForgetKeeps DEF Restart
<1>5. CASE ClockStep
  BY <1>5, ClockStepKeeps
<1>6. CASE Tick
  BY <1>6, TickKeeps
<1>7. CASE UNCHANGED limiterVars
  <2>1. /\ now' = now /\ offset' = offset /\ cache' = cache /\ bucket' = bucket /\ janitor' = janitor
        /\ opened' = opened /\ granted' = granted /\ steps' = steps /\ loose' = loose
        /\ lockedSince' = lockedSince
    BY <1>7 DEF limiterVars
  <2>2. LimiterTyped' /\ GrantsCounted'
    BY <2>1 DEF LimiterInv, LimiterTyped, GrantsCounted
  <2>3. StartsRead' /\ WindowKnown'
    BY <2>1 DEF LimiterInv, StartsRead, WindowKnown
  <2>4. Denied' = Denied /\ Wall' = Wall
    BY <2>1 DEF Denied, Lapsed, Age, Before, Wall, Loaded
  <2>5. LockExplained'
    BY <2>1, <2>4 DEF LimiterInv, LockExplained, FullSince
  <2> QED
    BY <2>2, <2>3, <2>5 DEF LimiterInv
<1> QED
  BY <1>1, <1>2, <1>3, <1>4, <1>5, <1>6, <1>7 DEF LimiterNext

LEMMA LimiterInvHolds == LimiterSpec => []LimiterInv
BY LimiterStarts, LimiterStep, PTL DEF LimiterSpec

\* PersistentRateLimiter keeps its limit over restarts, failed writes and clock
\* steps, and no refusal outlasts two windows, for every limit, window, rounding
\* and set of clock steps.
THEOREM LimiterIsSound == LimiterSpec => []LimiterSound
<1>1. LimiterInv => LimiterSound
  <2> SUFFICES ASSUME LimiterInv PROVE LimiterSound
    OBVIOUS
  <2> USE LimiterAssumption
  <2>1. LimiterTypeOK
    BY SMT DEF LimiterInv, LimiterTyped, LimiterTypeOK, Time
  <2>2. WithinLimit
    BY DEF LimiterInv, GrantsCounted, WithinLimit
  <2>3. LockoutEnds
    <3> SUFFICES ASSUME lockedSince # -1
                 PROVE  now - lockedSince <= 2 * WINDOW
      BY DEF LockoutEnds
    <3>1. Denied
      BY DEF LimiterInv, LockExplained
    <3>2. CASE cache.attempts # 0 /\ cache.first.mono # NoMono
      BY SMTT(30), <3>1, <3>2 DEF LimiterInv, LimiterTyped, LockExplained, Denied, Lapsed, Age
    <3>3. CASE cache.attempts # 0 /\ cache.first.mono = NoMono
      BY SMTT(30), <3>1, <3>3 DEF LimiterInv, LimiterTyped, LockExplained, FullSince, Denied, Lapsed, Age, Before, Wall
    <3>4. CASE cache.attempts = 0
      BY SMT, <3>1, <3>4 DEF LimiterInv, LimiterTyped, LockExplained, FullSince, Denied, Lapsed, Age, Before, Wall, Loaded
    <3> QED
      BY <3>2, <3>3, <3>4
  <2> QED
    BY <2>1, <2>2, <2>3 DEF LimiterSound
<1> QED
  BY <1>1, LimiterInvHolds, PTL

\* A window of the limiter is followed by another only when it has run, but for
\* the second its stored start was rounded by.
THEOREM LimiterWindowRuns == LimiterSpec => WindowRuns
<1> DEFINE Runs == opened' # opened => loose \/ now - opened > WINDOW - SECOND
<1>1. LimiterInv /\ [LimiterNext]_limiterVars => [Runs]_limiterVars
  <2> SUFFICES ASSUME LimiterInv, LimiterNext, opened' # opened, ~loose
               PROVE  now - opened > WINDOW - SECOND
    OBVIOUS
  <2> USE LimiterAssumption
  <2>1. opened + offset \in Int /\ opened + offset - SECOND < rfc3339(opened + offset)
        /\ rfc3339(opened + offset) \in Int /\ rfc3339(opened + offset) <= opened + offset
    BY SMT, Rounded DEF LimiterInv, LimiterTyped
  <2>2. \/ cache.attempts # 0 /\ Lapsed(cache.first)
        \/ cache.attempts = 0 /\ bucket.attempts = 0
        \/ cache.attempts = 0 /\ bucket.attempts # 0 /\ Lapsed(Loaded(bucket))
    BY DEF LimiterNext, allow_cached, allow_loaded, Judge, Open, Count, Refuse, CleanCache,
       clean_expired_rate_limit_buckets, Restart, ClockStep, Tick
  <2>3. CASE cache.attempts # 0 /\ Lapsed(cache.first)
    BY SMT, <2>1, <2>3 DEF LimiterInv, LimiterTyped, WindowKnown, Lapsed, Age, Before, Wall
  <2>4. CASE bucket.attempts = 0
    BY <2>4 DEF LimiterInv, WindowKnown
  <2>5. CASE bucket.attempts # 0 /\ Lapsed(Loaded(bucket))
    BY SMT, <2>1, <2>5 DEF LimiterInv, LimiterTyped, WindowKnown, Lapsed, Age, Before, Wall, Loaded
  <2> QED
    BY <2>2, <2>3, <2>4, <2>5
<1> QED
  BY <1>1, LimiterInvHolds, PTL DEF LimiterSpec, WindowRuns

-----------------------------------------------------------------------------
(***************************************************************************)
(* TrafficAccounting. That the stored usage is covered by what was carried *)
(* is not inductive: the bytes of the live table and of a round under way  *)
(* are still to be added. Ledger counts them on the right side of the      *)
(* balance, before and after a table is recreated, and the generation of a *)
(* cursor tells the two apart (RevisionsHadTables).                        *)
(***************************************************************************)

Cursors == [raw : Nat, generation : Nat, known : BOOLEAN]

LiveTables == [born : 1 .. MaxTables, revision : Nat \ {0}, counting : BOOLEAN, bytes : 0 .. MaxBytes]
Rounds == [at : {"idle", "read", "record"}, generation : Nat, raw : Nat, matched : BOOLEAN]
Usages == [month : Nat, recent : Nat, cursor : Cursors, cleared : BOOLEAN]
Minutes == [born : 0 .. MaxTables, seen : 0 .. MaxBytes, stored : Nat]

TrafficTyped ==
    /\ tableNow \in LiveTables /\ sampler \in Rounds /\ usage \in Usages /\ firewall \in Minutes
    /\ carried \in 0 .. MaxBytes /\ raced \in BOOLEAN /\ misses \in 0 .. MaxMisses
    /\ canonical \in [revision : Nat \ {0}, enabled : BOOLEAN]
    /\ candidate \in [live : BOOLEAN, enabled : BOOLEAN]

(* The fields that the arguments below count with. *)
LEMMA TrafficNumbers ==
  ASSUME TrafficTyped
  PROVE  /\ tableNow.born \in 1 .. MaxTables /\ tableNow.revision \in Nat \ {0} /\ tableNow.bytes \in 0 .. MaxBytes
         /\ sampler.generation \in Nat /\ sampler.raw \in Nat /\ sampler.matched \in BOOLEAN
         /\ usage.month \in Nat /\ usage.recent \in Nat /\ usage.cursor \in Cursors /\ usage.cleared \in BOOLEAN
         /\ firewall.born \in 0 .. MaxTables /\ firewall.seen \in 0 .. MaxBytes /\ firewall.stored \in Nat
         /\ canonical.revision \in Nat \ {0} /\ canonical.enabled \in BOOLEAN
         /\ candidate.live \in BOOLEAN /\ candidate.enabled \in BOOLEAN
BY DEF TrafficTyped, LiveTables, Rounds, Usages, Minutes

LEMMA EmptyTyped == NoRound \in Rounds /\ NoCursor \in Cursors /\ clear_history \in Usages /\ NoCandidate \in [live : BOOLEAN, enabled : BOOLEAN]
<1>1. NoCursor \in Cursors
  BY DEF NoCursor, Cursors
<1>2. clear_history \in Usages
  BY <1>1 DEF clear_history, Usages
<1>3. NoRound \in Rounds
  BY DEF NoRound, Rounds
<1> QED
  BY <1>1, <1>2, <1>3 DEF NoCandidate

(* Every revision had a table of its own. *)
RevisionsHadTables ==
    LET proposed == canonical.revision + (IF candidate.live THEN 1 ELSE 0)
    IN  tableNow.revision <= proposed /\ proposed <= tableNow.born

(* What a round that read bytes under a generation would add. *)
Unrecorded(bytes, generation) ==
    IF usage.cursor.known
    THEN delta_across_generations(usage.cursor.generation, generation, usage.cursor.raw, bytes)
    ELSE bytes

(* The ledger: what is stored and what the live table would still add is
   covered by what the device moved; in the middle of a round, what was read
   and what the table counted since, be it the table that was read or a
   later one. *)
Ledger ==
    /\ tableNow.bytes <= carried
    /\ ~raced => usage.month + Unrecorded(tableNow.bytes, tableNow.revision) <= carried
    /\ ~raced /\ sampler.at = "record" /\ sampler.matched =>
         LET read == usage.month + Unrecorded(sampler.raw, sampler.generation)
         IN  \/ /\ tableNow.revision = sampler.generation /\ sampler.raw <= tableNow.bytes
                /\ read + (tableNow.bytes - sampler.raw) <= carried
             \/ read + tableNow.bytes <= carried

(* A round under way has marked the history live. *)
HistoryMarked ==
    /\ sampler.at # "idle" => ~usage.cleared
    /\ ClearedIsEmpty

(* The packets of the live table that are not stored yet. *)
MinutesCovered ==
    /\ firewall.born <= tableNow.born /\ firewall.stored <= carried
    /\ firewall.born = tableNow.born =>
         firewall.seen <= tableNow.bytes /\ firewall.stored + (tableNow.bytes - firewall.seen) <= carried

TrafficInv == TrafficTyped /\ RevisionsHadTables /\ Ledger /\ HistoryMarked /\ MinutesCovered

-----------------------------------------------------------------------------
LEMMA TrafficStarts == TrafficInit => TrafficInv
<1> SUFFICES ASSUME TrafficInit PROVE TrafficInv
  OBVIOUS
<1>1. 1 \in 1 .. MaxTables /\ 0 \in 0 .. MaxBytes /\ 0 \in 0 .. MaxTables /\ 0 \in 0 .. MaxMisses
      /\ 1 \in Nat \ {0} /\ 0 \in Nat
  BY SMT, TrafficAssumption
<1>2. TrafficTyped
  <2>1. tableNow \in LiveTables
    BY <1>1 DEF TrafficInit, LiveTables
  <2>2. firewall \in Minutes
    BY <1>1 DEF TrafficInit, Minutes
  <2> QED
    BY <1>1, <2>1, <2>2, EmptyTyped DEF TrafficInit, TrafficTyped
<1>3. RevisionsHadTables /\ MinutesCovered
  BY SMTT(30) DEF TrafficInit, RevisionsHadTables, MinutesCovered, NoCandidate
<1>4. Ledger /\ HistoryMarked
  BY SMTT(30) DEF TrafficInit, Ledger, HistoryMarked, ClearedIsEmpty, Unrecorded, clear_history, NoCursor, NoRound
<1> QED
  BY <1>2, <1>3, <1>4 DEF TrafficInv

\* A round adds at most what it read, and a byte more read adds at most a byte.
LEMMA UnrecordedBounds ==
  ASSUME TrafficInv, NEW bytes \in Nat, NEW generation \in Nat
  PROVE  /\ Unrecorded(bytes, generation) \in Nat /\ Unrecorded(bytes, generation) <= bytes
         /\ Unrecorded(bytes + 1, generation) <= Unrecorded(bytes, generation) + 1
BY SMT, TrafficNumbers DEF TrafficInv, Cursors, Unrecorded, delta_across_generations, delta

LEMMA UnrecordedNow ==
  ASSUME TrafficInv
  PROVE  /\ Unrecorded(tableNow.bytes, tableNow.revision) \in Nat
         /\ Unrecorded(sampler.raw, sampler.generation) \in Nat
         /\ Unrecorded(sampler.raw, sampler.generation) <= sampler.raw
         /\ tableNow.bytes \in Nat /\ carried \in Nat /\ tableNow.revision \in Nat
<1>1. tableNow.bytes \in Nat /\ carried \in Nat /\ tableNow.revision \in Nat
  BY SMT, TrafficNumbers, TrafficAssumption DEF TrafficInv, TrafficTyped
<1>2. sampler.raw \in Nat /\ sampler.generation \in Nat
  BY TrafficNumbers DEF TrafficInv
<1> QED
  BY <1>1, <1>2, UnrecordedBounds

LEMMA TrafficFlows ==
  ASSUME TrafficInv, DeviceTraffic
  PROVE  TrafficInv'
<1>1. /\ carried < MaxBytes /\ carried' = carried + 1
      /\ UNCHANGED <<canonical, candidate, sampler, usage, raced, firewall, misses>>
      /\ tableNow' = [tableNow EXCEPT !.bytes = @ + 1]
  BY DEF DeviceTraffic
<1>2. tableNow'.bytes = tableNow.bytes + 1 /\ tableNow'.born = tableNow.born /\ tableNow'.revision = tableNow.revision
  BY <1>1 DEF TrafficInv, TrafficTyped, LiveTables
<1>3. TrafficTyped'
  <2>1. tableNow.bytes + 1 \in 0 .. MaxBytes /\ carried' \in 0 .. MaxBytes
    BY SMT, <1>1, TrafficNumbers, TrafficAssumption DEF TrafficInv, TrafficTyped, Ledger
  <2>2. tableNow' \in LiveTables
    BY <1>1, <2>1 DEF TrafficInv, TrafficTyped, LiveTables
  <2> QED
    BY <1>1, <2>1, <2>2 DEF TrafficInv, TrafficTyped
<1>4. RevisionsHadTables' /\ HistoryMarked'
  BY <1>1, <1>2 DEF TrafficInv, RevisionsHadTables, HistoryMarked, ClearedIsEmpty
<1>5. Ledger'
  <2>1. /\ Unrecorded(tableNow.bytes, tableNow.revision)' = Unrecorded(tableNow.bytes + 1, tableNow.revision)
        /\ Unrecorded(sampler.raw, sampler.generation)' = Unrecorded(sampler.raw, sampler.generation)
    BY SMT, <1>1, <1>2 DEF Unrecorded
  <2>2. tableNow.bytes \in Nat /\ tableNow.bytes + 1 \in Nat /\ tableNow.revision \in Nat
    BY SMT, TrafficNumbers, TrafficAssumption DEF TrafficInv
  <2>3. /\ Unrecorded(tableNow.bytes + 1, tableNow.revision) <= Unrecorded(tableNow.bytes, tableNow.revision) + 1
        /\ Unrecorded(tableNow.bytes + 1, tableNow.revision) \in Nat
        /\ Unrecorded(tableNow.bytes, tableNow.revision) \in Nat
    BY <2>2, UnrecordedBounds
  <2>4. Unrecorded(sampler.raw, sampler.generation) \in Nat
    BY TrafficNumbers, UnrecordedBounds DEF TrafficInv
  <2>5. carried \in Nat /\ usage.month \in Nat /\ sampler.raw \in Nat
    BY SMT, TrafficNumbers, TrafficAssumption DEF TrafficInv, TrafficTyped
  <2> QED
    BY SMT, <1>1, <1>2, <2>1, <2>2, <2>3, <2>4, <2>5 DEF TrafficInv, Ledger
<1>6. MinutesCovered'
  BY SMT, <1>1, <1>2, TrafficNumbers, TrafficAssumption DEF TrafficInv, TrafficTyped, MinutesCovered
<1> QED
  BY <1>3, <1>4, <1>5, <1>6 DEF TrafficInv

\* A new table: the counters start at zero, and every round read an earlier one.
LEMMA FreshKeeps ==
  ASSUME TrafficInv, tableNow.born < MaxTables,
         NEW revision \in Nat \ {0}, NEW on \in BOOLEAN, tableNow' = Fresh(revision, on),
         candidate' \in [live : BOOLEAN, enabled : BOOLEAN],
         UNCHANGED <<carried, canonical, sampler, usage, raced, firewall, misses>>,
         revision <= canonical.revision + (IF candidate'.live THEN 1 ELSE 0),
         candidate'.live => ~candidate.live
  PROVE  TrafficInv'
<1>1. tableNow'.born = tableNow.born + 1 /\ tableNow'.revision = revision /\ tableNow'.bytes = 0
  BY DEF Fresh
<1>2. TrafficTyped'
  <2>1. tableNow.born + 1 \in 1 .. MaxTables /\ 0 \in 0 .. MaxBytes
    BY SMT, TrafficNumbers, TrafficAssumption DEF TrafficInv
  <2>2. [born |-> tableNow.born + 1, revision |-> revision, counting |-> on, bytes |-> 0] \in LiveTables
    BY <2>1, Zenon DEF LiveTables
  <2>3. tableNow' \in LiveTables
    BY <2>2 DEF Fresh
  <2> QED
    BY <2>3 DEF TrafficInv, TrafficTyped
<1>3. RevisionsHadTables'
  BY SMT, <1>1, TrafficNumbers, TrafficAssumption DEF TrafficInv, RevisionsHadTables
<1>4. HistoryMarked'
  BY DEF TrafficInv, HistoryMarked, ClearedIsEmpty
<1>5. Ledger'
  <2>1. Unrecorded(tableNow.bytes, tableNow.revision)' = 0
    BY SMT, <1>1, TrafficNumbers DEF TrafficInv, Cursors, Unrecorded, delta_across_generations, delta
  <2>2. Unrecorded(sampler.raw, sampler.generation)' = Unrecorded(sampler.raw, sampler.generation)
    BY DEF Unrecorded
  <2>3. Unrecorded(sampler.raw, sampler.generation) \in Nat
    BY TrafficNumbers, UnrecordedBounds DEF TrafficInv
  <2>4. Unrecorded(tableNow.bytes, tableNow.revision) \in Nat
    BY UnrecordedNow
  <2>5. carried \in Nat /\ usage.month \in Nat /\ sampler.raw \in Nat /\ tableNow.bytes \in Nat
    BY SMTT(30), TrafficNumbers, TrafficAssumption DEF TrafficInv, TrafficTyped
  <2> QED
    BY SMTT(30), <1>1, <2>1, <2>2, <2>3, <2>4, <2>5 DEF TrafficInv, Ledger
<1>6. MinutesCovered'
  BY SMT, <1>1, TrafficNumbers, TrafficAssumption DEF TrafficInv, TrafficTyped, MinutesCovered
<1> QED
  BY <1>2, <1>3, <1>4, <1>5, <1>6 DEF TrafficInv

LEMMA TablesKeep ==
  ASSUME TrafficInv, (\E enabled \in BOOLEAN : ApplyCandidate(enabled)) \/ ReloadCanonical
  PROVE  TrafficInv'
<1>1. ASSUME NEW enabled \in BOOLEAN, ApplyCandidate(enabled)
      PROVE  TrafficInv'
  <2>1. canonical.revision + 1 \in Nat \ {0} /\ candidate'.live = TRUE /\ candidate' \in [live : BOOLEAN, enabled : BOOLEAN]
        /\ canonical.revision + 1 <= canonical.revision + (IF candidate'.live THEN 1 ELSE 0)
    BY SMT, <1>1, TrafficNumbers DEF TrafficInv, ApplyCandidate
  <2> QED
    BY <1>1, <2>1, FreshKeeps DEF ApplyCandidate
<1>2. CASE ReloadCanonical
  <2>1. /\ canonical.revision \in Nat \ {0} /\ canonical.enabled \in BOOLEAN /\ candidate'.live = FALSE
        /\ candidate' \in [live : BOOLEAN, enabled : BOOLEAN]
        /\ canonical.revision <= canonical.revision + (IF candidate'.live THEN 1 ELSE 0)
    BY SMT, <1>2, TrafficNumbers DEF TrafficInv, ReloadCanonical, NoCandidate
  <2> QED
    BY <1>2, <2>1, FreshKeeps DEF ReloadCanonical
<1> QED
  BY <1>1, <1>2

LEMMA CommitKeeps ==
  ASSUME TrafficInv, CommitCandidate
  PROVE  TrafficInv'
<1>1. UNCHANGED <<tableNow, carried, sampler, usage, raced, firewall, misses>>
      /\ canonical' = [revision |-> canonical.revision + 1, enabled |-> candidate.enabled]
      /\ candidate' = NoCandidate /\ candidate.live
  BY DEF CommitCandidate
<1>2. TrafficTyped'
  BY SMT, <1>1, TrafficNumbers, EmptyTyped DEF TrafficInv, TrafficTyped
<1>3. RevisionsHadTables'
  BY SMT, <1>1, TrafficNumbers DEF TrafficInv, RevisionsHadTables, NoCandidate
<1>4. Ledger' /\ HistoryMarked' /\ MinutesCovered'
  BY <1>1 DEF TrafficInv, Ledger, Unrecorded, HistoryMarked, ClearedIsEmpty, MinutesCovered
<1> QED
  BY <1>2, <1>3, <1>4 DEF TrafficInv

LEMMA ReadSettingsKeeps ==
  ASSUME TrafficInv, ReadSettings
  PROVE  TrafficInv'
<1>1. UNCHANGED <<tableNow, carried, canonical, candidate, raced, firewall, misses>> /\ sampler.at = "idle"
  BY DEF ReadSettings
<1>2. RevisionsHadTables' /\ MinutesCovered'
  BY <1>1 DEF TrafficInv, RevisionsHadTables, MinutesCovered
<1>3. CASE canonical.enabled
  <2>1. /\ sampler' = [NoRound EXCEPT !.at = "read", !.generation = canonical.revision]
        /\ usage' = [usage EXCEPT !.cleared = FALSE]
    BY <1>3 DEF ReadSettings
  <2>2. /\ usage'.month = usage.month /\ usage'.recent = usage.recent /\ usage'.cursor = usage.cursor
        /\ usage'.cleared = FALSE /\ usage' \in Usages
    BY <2>1 DEF TrafficInv, TrafficTyped, Usages
  <2>3. sampler' \in Rounds /\ sampler'.at = "read"
    <3>1. canonical.revision \in Nat
      BY TrafficNumbers DEF TrafficInv
    <3> QED
      BY <2>1, <3>1, EmptyTyped DEF Rounds
  <2>4. TrafficTyped'
    BY <1>1, <2>2, <2>3 DEF TrafficInv, TrafficTyped
  <2>5. Ledger'
    <3>1. Unrecorded(tableNow.bytes, tableNow.revision)' = Unrecorded(tableNow.bytes, tableNow.revision)
      BY <1>1, <2>2 DEF Unrecorded
    <3> QED
      BY <1>1, <2>2, <2>3, <3>1 DEF TrafficInv, Ledger
  <2>6. HistoryMarked'
    BY <2>2 DEF TrafficInv, HistoryMarked, ClearedIsEmpty
  <2> QED
    BY <1>2, <2>4, <2>5, <2>6 DEF TrafficInv
<1>4. CASE ~canonical.enabled
  <2>1. sampler' = sampler /\ usage' = clear_history
    BY <1>4 DEF ReadSettings
  <2>2. TrafficTyped'
    BY <1>1, <2>1, EmptyTyped DEF TrafficInv, TrafficTyped
  <2>3. Ledger'
    <3>1. Unrecorded(tableNow.bytes, tableNow.revision)' = tableNow.bytes /\ usage'.month = 0
      BY <1>1, <2>1 DEF Unrecorded, clear_history, NoCursor
    <3>2. tableNow.bytes \in Nat
      BY SMTT(30), TrafficNumbers, TrafficAssumption DEF TrafficInv
    <3> QED
      BY SMT, <1>1, <2>1, <3>1, <3>2 DEF TrafficInv, Ledger
  <2>4. HistoryMarked'
    BY SMT, <1>1, <2>1 DEF HistoryMarked, ClearedIsEmpty, clear_history, NoCursor
  <2> QED
    BY <1>2, <2>2, <2>3, <2>4 DEF TrafficInv
<1> QED
  BY <1>3, <1>4

\* A round ends without effect.
LEMMA RoundDropped ==
  ASSUME TrafficInv, sampler' = NoRound, misses' \in 0 .. MaxMisses,
         UNCHANGED <<tableNow, carried, canonical, candidate, usage, raced, firewall>>
  PROVE  TrafficInv'
<1>1. TrafficTyped'
  BY EmptyTyped DEF TrafficInv, TrafficTyped
<1>2. RevisionsHadTables' /\ MinutesCovered'
  BY DEF TrafficInv, RevisionsHadTables, MinutesCovered
<1>3. Ledger'
  BY DEF TrafficInv, Ledger, Unrecorded, NoRound
<1>4. HistoryMarked'
  BY DEF TrafficInv, HistoryMarked, ClearedIsEmpty, NoRound
<1> QED
  BY <1>1, <1>2, <1>3, <1>4 DEF TrafficInv

LEMMA MissKeeps ==
  ASSUME TrafficInv, StoreFails \/ TrafficDaemonRestarts
  PROVE  TrafficInv'
<1>1. misses' \in 0 .. MaxMisses
  BY SMT, TrafficAssumption DEF TrafficInv, TrafficTyped, StoreFails, TrafficDaemonRestarts, Missed
<1> QED
  BY <1>1, RoundDropped DEF StoreFails, TrafficDaemonRestarts

LEMMA ReadCountersKeeps ==
  ASSUME TrafficInv, read_counters
  PROVE  TrafficInv'
<1>1. UNCHANGED <<tableNow, carried, canonical, candidate, usage, raced, firewall, misses>> /\ sampler.at = "read"
  BY DEF read_counters
<1>2. CASE tableNow.counting
  <2>1. sampler' = [sampler EXCEPT !.at = "record", !.raw = tableNow.bytes,
                                   !.matched = (tableNow.revision = sampler.generation)]
    BY <1>2 DEF read_counters, parse_counters
  <2>2. tableNow.bytes \in Nat /\ tableNow.revision \in Nat /\ usage.month \in Nat
    BY SMT, TrafficNumbers, TrafficAssumption DEF TrafficInv
  <2>3. /\ sampler' \in Rounds /\ sampler'.raw = tableNow.bytes /\ sampler'.generation = sampler.generation
        /\ sampler'.matched => tableNow.revision = sampler.generation
    BY <2>1, <2>2 DEF TrafficInv, TrafficTyped, Rounds
  <2>4. TrafficTyped'
    BY <1>1, <2>3 DEF TrafficInv, TrafficTyped
  <2>5. RevisionsHadTables' /\ MinutesCovered'
    BY <1>1 DEF TrafficInv, RevisionsHadTables, MinutesCovered
  <2>6. Ledger'
    <3>1. Unrecorded(tableNow.bytes, tableNow.revision)' = Unrecorded(tableNow.bytes, tableNow.revision)
      BY <1>1 DEF Unrecorded
    <3>2. sampler'.matched => Unrecorded(sampler.raw, sampler.generation)' = Unrecorded(tableNow.bytes, tableNow.revision)
      BY <1>1, <2>3 DEF Unrecorded
    <3>3. Unrecorded(tableNow.bytes, tableNow.revision) \in Nat
      BY <2>2, UnrecordedBounds
    <3> QED
      BY SMT, <1>1, <2>2, <2>3, <3>1, <3>2, <3>3 DEF TrafficInv, Ledger
  <2>7. HistoryMarked'
    BY <1>1 DEF TrafficInv, HistoryMarked, ClearedIsEmpty
  <2> QED
    BY <2>4, <2>5, <2>6, <2>7 DEF TrafficInv
<1>3. CASE ~tableNow.counting
  <2>1. misses' \in 0 .. MaxMisses
    BY <1>1 DEF TrafficInv, TrafficTyped
  <2> QED
    BY <1>3, <2>1, RoundDropped DEF read_counters
<1> QED
  BY <1>2, <1>3

LEMMA RecordKeeps ==
  ASSUME TrafficInv, record
  PROVE  TrafficInv'
<1> DEFINE added == Unrecorded(sampler.raw, sampler.generation)
<1>1. UNCHANGED <<tableNow, carried, canonical, candidate, firewall, misses>> /\ sampler' = NoRound
      /\ sampler.at = "record" /\ raced' = (raced \/ ~sampler.matched)
  BY DEF record
<1>2. added \in Nat /\ added <= sampler.raw /\ sampler.raw \in Nat /\ sampler.generation \in Nat
      /\ usage.month \in Nat /\ usage.recent \in Nat /\ tableNow.bytes \in Nat /\ tableNow.revision \in Nat
      /\ usage.cleared \in BOOLEAN /\ carried \in Nat
  BY UnrecordedNow, TrafficNumbers DEF TrafficInv
<1>3. added = LET previous == IF usage.cursor.known THEN usage.cursor
                              ELSE [raw |-> 0, generation |-> sampler.generation, known |-> TRUE]
              IN  delta_across_generations(previous.generation, sampler.generation, previous.raw, sampler.raw)
  BY SMT, <1>2 DEF Unrecorded, delta_across_generations, delta
<1>4. PICK recently \in BOOLEAN :
        usage' = [month |-> usage.month + added,
                  recent |-> record_insights(added, recently),
                  cursor |-> IF usage.month + added = 0 THEN NoCursor
                             ELSE [raw |-> sampler.raw, generation |-> sampler.generation, known |-> TRUE],
                  cleared |-> usage.cleared]
  <2> HIDE DEF added
  <2> QED
    BY <1>3, Zenon DEF record
<1> HIDE DEF added
<1>5. /\ usage'.month = usage.month + added /\ usage'.cleared = usage.cleared
      /\ usage'.recent = usage.recent \/ usage'.recent = usage.recent + added
      /\ usage'.cursor = IF usage.month + added = 0 THEN NoCursor
                         ELSE [raw |-> sampler.raw, generation |-> sampler.generation, known |-> TRUE]
  BY <1>4 DEF record_insights
<1>6. TrafficTyped'
  <2>1. usage.month + added \in Nat /\ record_insights(added, recently) \in Nat
    BY SMT, <1>2 DEF record_insights
  <2>2. [raw |-> sampler.raw, generation |-> sampler.generation, known |-> TRUE] \in Cursors
    BY <1>2 DEF Cursors
  <2>3. usage' \in Usages
    BY <1>2, <1>4, <2>1, <2>2, EmptyTyped DEF Usages
  <2>4. raced' \in BOOLEAN
    BY <1>1
  <2> QED
    BY <1>1, <2>3, <2>4, EmptyTyped DEF TrafficInv, TrafficTyped
<1>7. RevisionsHadTables' /\ MinutesCovered'
  BY <1>1 DEF TrafficInv, RevisionsHadTables, MinutesCovered
<1>8. HistoryMarked'
  <2>1. ~usage.cleared /\ usage.recent <= usage.month
    BY <1>1 DEF TrafficInv, HistoryMarked, ClearedIsEmpty
  <2> QED
    <3>1. usage'.recent <= usage'.month
      <4>1. usage'.month = usage.month + added
            /\ (usage'.recent = usage.recent \/ usage'.recent = usage.recent + added)
        BY <1>5
      <4>2. added \in Nat /\ usage.month \in Nat /\ usage.recent \in Nat
        BY <1>2
      <4> QED
        BY SMT, <2>1, <4>1, <4>2
    <3>2. ~usage'.cleared
      BY <1>5, <2>1
    <3> QED
      BY <1>1, <3>1, <3>2 DEF HistoryMarked, ClearedIsEmpty, NoRound
<1>9. Ledger'
  <2> SUFFICES ASSUME ~raced'
               PROVE  usage'.month + Unrecorded(tableNow.bytes, tableNow.revision)' <= carried
    BY <1>1 DEF TrafficInv, Ledger, NoRound
  <2>1. ~raced /\ sampler.matched
    BY <1>1, TrafficNumbers DEF TrafficInv, TrafficTyped
  <2>2. \/ /\ tableNow.revision = sampler.generation /\ sampler.raw <= tableNow.bytes
           /\ usage.month + added + (tableNow.bytes - sampler.raw) <= carried
        \/ usage.month + added + tableNow.bytes <= carried
    BY <1>1, <2>1 DEF TrafficInv, Ledger, added
  <2>3. CASE usage.month + added = 0
    <3>1. Unrecorded(tableNow.bytes, tableNow.revision)' = tableNow.bytes
      BY SMT, <1>1, <1>5, <2>3 DEF Unrecorded, NoCursor
    <3>2. tableNow.bytes <= carried
      BY DEF TrafficInv, Ledger
    <3>3. usage'.month = 0
      BY <1>2, <1>5, <2>3
    <3> QED
      BY SMTT(30), <1>1, <1>2, <3>1, <3>2, <3>3
  <2>4. CASE usage.month + added # 0
    <3>1. Unrecorded(tableNow.bytes, tableNow.revision)'
            = IF sampler.generation # tableNow.revision THEN tableNow.bytes
              ELSE IF tableNow.bytes >= sampler.raw THEN tableNow.bytes - sampler.raw ELSE tableNow.bytes
      BY SMT, <1>1, <1>5, <2>4 DEF Unrecorded, delta_across_generations, delta
    <3> QED
      BY SMTT(30), <1>2, <1>5, <2>2, <3>1
  <2> QED
    BY <2>3, <2>4
<1> QED
  BY <1>6, <1>7, <1>8, <1>9 DEF TrafficInv

LEMMA RecordFirewallKeeps ==
  ASSUME TrafficInv, record_firewall
  PROVE  TrafficInv'
<1>1. UNCHANGED <<tableNow, carried, canonical, candidate, sampler, usage, raced, misses>>
  BY DEF record_firewall
<1>2. PICK gap \in BOOLEAN :
        firewall' = [born |-> tableNow.born, seen |-> tableNow.bytes,
                     stored |-> IF tableNow.born = firewall.born /\ ~gap /\ tableNow.bytes >= firewall.seen
                                THEN firewall.stored + tableNow.bytes - firewall.seen ELSE firewall.stored]
  BY DEF record_firewall
<1>3. /\ firewall'.born = tableNow.born /\ firewall'.seen = tableNow.bytes
      /\ \/ firewall'.stored = firewall.stored
         \/ /\ tableNow.born = firewall.born /\ tableNow.bytes >= firewall.seen
            /\ firewall'.stored = firewall.stored + tableNow.bytes - firewall.seen
  BY <1>2
<1>4. firewall'.stored \in Nat /\ tableNow.born \in 0 .. MaxTables
  BY SMT, <1>3, TrafficNumbers, TrafficAssumption DEF TrafficInv
<1>5. TrafficTyped'
  <2>1. firewall' \in Minutes
    BY <1>2, <1>4, TrafficNumbers DEF TrafficInv, Minutes
  <2> QED
    BY <1>1, <2>1 DEF TrafficInv, TrafficTyped
<1>6. RevisionsHadTables' /\ Ledger' /\ HistoryMarked'
  BY <1>1 DEF TrafficInv, RevisionsHadTables, Ledger, Unrecorded, HistoryMarked, ClearedIsEmpty
<1>7. MinutesCovered'
  BY SMT, <1>1, <1>3, TrafficNumbers, TrafficAssumption DEF TrafficInv, TrafficTyped, MinutesCovered
<1> QED
  BY <1>5, <1>6, <1>7 DEF TrafficInv

LEMMA TrafficStep == TrafficInv /\ [TrafficNext]_trafficVars => TrafficInv'
<1> SUFFICES ASSUME TrafficInv, [TrafficNext]_trafficVars
             PROVE  TrafficInv'
  OBVIOUS
<1>1. CASE DeviceTraffic
  BY <1>1, TrafficFlows
<1>2. CASE (\E enabled \in BOOLEAN : ApplyCandidate(enabled)) \/ ReloadCanonical
  BY <1>2, TablesKeep
<1>3. CASE CommitCandidate
  BY <1>3, CommitKeeps
<1>4. CASE SamplerStep
  BY ZenonT(30), <1>4, ReadSettingsKeeps, ReadCountersKeeps, RecordKeeps DEF SamplerStep
<1>5. CASE StoreFails \/ TrafficDaemonRestarts
  BY <1>5, MissKeeps
<1>6. CASE record_firewall
  BY <1>6, RecordFirewallKeeps
<1>7. CASE UNCHANGED trafficVars
  BY SMT, <1>7 DEF trafficVars, TrafficInv, TrafficTyped, RevisionsHadTables, Ledger, Unrecorded, HistoryMarked,
     ClearedIsEmpty, MinutesCovered
<1> QED
  BY <1>1, <1>2, <1>3, <1>4, <1>5, <1>6, <1>7 DEF TrafficNext

\* However often the counters are recreated, a write fails or routerd restarts,
\* the stored usage and the firewall's minutes are covered by what was carried,
\* and a history marked as deleted is empty.
THEOREM TrafficIsSound == TrafficSpec => []TrafficSound
<1>1. TrafficInv => TrafficSound
  <2> SUFFICES ASSUME TrafficInv PROVE TrafficSound
    OBVIOUS
  <2> USE TrafficAssumption
  <2>1. UsageHonest
    <3>1. Unrecorded(tableNow.bytes, tableNow.revision) \in Nat
      BY UnrecordedNow
    <3> QED
      BY SMT, <3>1, TrafficNumbers DEF TrafficInv, TrafficTyped, Ledger, UsageHonest
  <2>2. ClearedIsEmpty /\ FirewallCountedOnce
    BY DEF TrafficInv, HistoryMarked, MinutesCovered, FirewallCountedOnce
  <2>3. TrafficTypeOK
    <3>1. tableNow.revision \in 1 .. MaxTables + 1 /\ canonical.revision \in 1 .. MaxTables + 1
          /\ firewall.stored \in 0 .. MaxBytes
      BY SMT, TrafficNumbers DEF TrafficInv, TrafficTyped, RevisionsHadTables, MinutesCovered
    <3>2. tableNow \in [born : 1..MaxTables, revision : 1..MaxTables + 1, counting : BOOLEAN, bytes : 0..MaxBytes]
      BY <3>1, Zenon DEF TrafficInv, TrafficTyped, LiveTables
    <3>3. canonical \in [revision : 1..MaxTables + 1, enabled : BOOLEAN]
      BY <3>1 DEF TrafficInv, TrafficTyped
    <3>4. firewall \in [born : 0..MaxTables, seen : 0..MaxBytes, stored : 0..MaxBytes]
      BY <3>1 DEF TrafficInv, TrafficTyped, Minutes
    <3> QED
      BY <3>2, <3>3, <3>4 DEF TrafficInv, TrafficTyped, TrafficTypeOK, Rounds, Usages
  <2> QED
    BY <2>1, <2>2, <2>3 DEF TrafficSound
<1> QED
  BY <1>1, TrafficStarts, TrafficStep, PTL DEF TrafficSpec
=============================================================================
