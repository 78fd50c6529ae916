-------------------------- MODULE PrivilegedHelper --------------------------
(***************************************************************************)
(* router-applyd (mr-applyd): one privileged transaction at a time, under  *)
(* the apply lock, guarded by an intent/outcome journal; a last-good       *)
(* record; the marker of a provisional configuration; the artifacts on     *)
(* disk and what the kernel and the services run.                          *)
(*                                                                         *)
(* Each durable write succeeds, reports an error after taking effect, or   *)
(* reports an error without effect.  The process may stop at any step; it  *)
(* then reconciles from last-good before it serves again.                  *)
(***************************************************************************)
EXTENDS ApplyProtocol

VARIABLES
  lastGood,             \* last-good.json
  pendingConfirmation,  \* pending.json
  journal,              \* last-transaction.json
  memory,               \* Guarded.last_transaction (volatile)
  files,                \* installed artifacts, by section
  runtime,              \* values each section runs; {} when it is down
  helper                \* the request in execution (volatile)

helperVars == <<lastGood, pendingConfirmation, journal, memory, files, runtime, helper>>

TransactionRecord == [req : ApplyRequest \cup {NoRequest},
                      outcome : Outcomes \cup {"incomplete"}]
NoRecord == [req |-> NoRequest, outcome |-> "success"]

Runtime == [Sections -> SUBSET Values]

HelperPCs == {"down", "idle", "execute", "persist", "rollback", "outcome"}

Idle == [pc |-> "idle", req |-> NoRequest, previous |-> NoConfig,
         captured |-> DefaultBody, outcome |-> "success"]

Executions == [pc : HelperPCs, req : ApplyRequest \cup {NoRequest}, previous : OptConfig,
               captured : Body, outcome : Outcomes]

\* Some sections already took the new value, the others not yet.
Mixtures(old, new) ==
  {[s \in Sections |-> IF s \in S THEN new[s] ELSE old[s]] : S \in SUBSET Sections}
-----------------------------------------------------------------------------
(* Admission: the journal answers a request or lets it run.                *)

\* Mutant: nothing supersedes an unresolved journal.
replay_blocks_reconcile(req, record) ==
  CASE record.req.id # req.id ->
         IF record.outcome \in {"incomplete", "recovery_required"}
         THEN "recovery_required" ELSE "run"
    [] record.req.id = req.id /\ record.req # req -> "failed"
    [] record.req = req -> IF record.outcome = "incomplete"
                           THEN "recovery_required" ELSE record.outcome

replay_transaction_response(req, record) ==
  CASE record.req.id # req.id ->
         IF record.outcome \in {"incomplete", "recovery_required"} /\ req.op # "RECONCILE"
         THEN "recovery_required" ELSE "run"
    [] record.req.id = req.id /\ record.req # req -> "failed"
    [] record.req = req -> IF record.outcome = "incomplete"
                           THEN "recovery_required" ELSE record.outcome

\* The answer of the journal: memory first, then disk.  Only RECONCILE passes
\* a journal that cannot be read.
journalled_reply(req, unreadable) ==
  IF replay_transaction_response(req, memory) # "run"
  THEN replay_transaction_response(req, memory)
  ELSE IF ~unreadable THEN replay_transaction_response(req, journal)
  ELSE IF req.op = "RECONCILE" THEN "run" ELSE "recovery_required"

\* A request is answered by the journal, or its intent is recorded and it runs,
\* or the intent cannot be recorded.  The memory follows only a write that
\* reported success.
admit(m, unreadable) ==
  LET reply == journalled_reply(m.req, unreadable)
      intent == [req |-> m.req, outcome |-> "incomplete"]
      read == IF unreadable THEN Fault ELSE NoFault
  IN
  \/ /\ reply # "run" /\ respond(m.live, reply) /\ read
     /\ UNCHANGED <<journal, memory, helper, serving>>
  \/ /\ reply = "run" /\ journal' = intent /\ memory' = intent
     /\ helper' = [Idle EXCEPT !.pc = "execute", !.req = m.req]
     /\ serving' = m.live /\ UNCHANGED answer /\ read
  \/ /\ reply = "run" /\ journal' \in {journal, intent}
     /\ respond(m.live, "failed") /\ Fault
     /\ UNCHANGED <<memory, helper, serving>>

\* Takes the lock for any waiting request: the mutex is not a queue.
process_request ==
  /\ helper.pc = "idle"
  /\ \E i \in 1..Len(inbox), unreadable \in BOOLEAN :
       /\ inbox' = SubSeq(inbox, 1, i - 1) \o SubSeq(inbox, i + 1, Len(inbox))
       /\ admit(inbox[i], unreadable)
  /\ UNCHANGED <<lastGood, pendingConfirmation, files, runtime>>

\* The request has an outcome, still to be journalled.
Concludes(outcome) == helper' = [helper EXCEPT !.pc = "outcome", !.outcome = outcome]

persist_transaction_outcome ==
  LET done(o) == [req |-> helper.req, outcome |-> o] IN
  /\ helper.pc = "outcome"
  /\ \/ /\ journal' = done(helper.outcome) /\ memory' = done(helper.outcome)
        /\ respond(serving, helper.outcome) /\ NoFault
     \/ /\ journal' \in {journal, done(helper.outcome)}
        /\ memory' = done("recovery_required")
        /\ respond(serving, "recovery_required") /\ Fault
  /\ helper' = Idle /\ serving' = FALSE
  /\ UNCHANGED <<inbox, lastGood, pendingConfirmation, files, runtime>>
-----------------------------------------------------------------------------
(* APPLY_ALL and RECONCILE.                                                *)

\* Mutant: a disruptive change is accepted without the confirmation flag.
validate_flag_only(req, previous) ==
  req.require_confirmation =>
    /\ req.op = "APPLY_ALL" /\ ~req.defer_last_good
    /\ previous # NoConfig /\ requires_confirmation(previous, req.config)

validate_confirmation_request(req, previous) ==
  IF req.require_confirmation
  THEN /\ req.op = "APPLY_ALL" /\ ~req.defer_last_good
       /\ previous # NoConfig /\ requires_confirmation(previous, req.config)
  ELSE req.op = "APPLY_ALL" /\ previous # NoConfig =>
         ~requires_confirmation(previous, req.config)

\* Mutant: a provisional apply drops the previous management address.
Activated_at_once(config, previous, provisional) ==
  [s \in Sections |->
     IF s \in Always \/ previous = NoConfig \/ previous.body[s] # config.body[s]
     THEN {config.body[s]}
     ELSE runtime[s]]

\* install_and_activate: only what changed against last-good is activated,
\* and a provisional apply keeps the previous management address as well.
Activated(config, previous, provisional) ==
  [s \in Sections |->
     IF s = Lan /\ provisional THEN {previous.body[s], config.body[s]}
     ELSE IF s \in Always \/ previous = NoConfig \/ previous.body[s] # config.body[s]
     THEN {config.body[s]}
     ELSE runtime[s]]

\* Nothing is touched: last-good is unreadable, or the candidate is refused by
\* validation, the confirmation rule, generation or preflight.
refuse ==
  /\ helper.pc = "execute" /\ helper.req.op \in {"APPLY_ALL", "RECONCILE"}
  /\ \/ ~validate_confirmation_request(helper.req, lastGood) /\ Concludes("failed") /\ NoFault
     \/ (Concludes("failed") \/ Concludes("recovery_required")) /\ Fault
  /\ UNCHANGED <<channelVars, lastGood, pendingConfirmation, journal, memory, files, runtime>>

\* Artifacts are installed before anything is activated; verification, the DNS
\* and the dynamic DNS probes may still fail after everything is.
install_and_activate ==
  LET req == helper.req
      new == Activated(req.config, lastGood, req.require_confirmation)
      goto(pc) == helper' = [helper EXCEPT !.pc = pc, !.previous = lastGood, !.captured = files]
  IN
  /\ helper.pc = "execute" /\ req.op \in {"APPLY_ALL", "RECONCILE"}
  /\ validate_confirmation_request(req, lastGood)
  /\ \/ files' = req.config.body /\ runtime' = new /\ goto("persist") /\ NoFault
     \/ /\ \/ files' = req.config.body /\ runtime' \in Mixtures(runtime, new)
           \/ files' \in Mixtures(files, req.config.body) /\ UNCHANGED runtime
        /\ goto("rollback") /\ Fault
  /\ UNCHANGED <<channelVars, lastGood, pendingConfirmation, journal, memory>>

\* Mutant: a deferred apply is recorded as last-good at once.
Provisional_undeferred(req) == req.op # "COMMIT_CONFIRMED" /\ req.require_confirmation

Provisional(req) ==
  req.op # "COMMIT_CONFIRMED" /\ (req.require_confirmation \/ req.defer_last_good)

save_pending_confirmation ==
  /\ helper.pc = "persist" /\ Provisional(helper.req)
  /\ \/ pendingConfirmation' = helper.req.config /\ Concludes("success") /\ NoFault
     \/ /\ pendingConfirmation' \in {pendingConfirmation, helper.req.config}
        /\ helper' = [helper EXCEPT !.pc = "rollback"] /\ Fault
  /\ UNCHANGED <<channelVars, lastGood, journal, memory, files, runtime>>

\* A last-good that cannot be recorded: a commit needs recovery, an apply is
\* rolled back.  Once it is recorded the pending marker is cleared.
save_last_good ==
  /\ helper.pc = "persist" /\ ~Provisional(helper.req)
  /\ \/ /\ lastGood' = helper.req.config
        /\ \/ pendingConfirmation' = NoConfig /\ Concludes("success") /\ NoFault
           \/ /\ pendingConfirmation' \in {pendingConfirmation, NoConfig}
              /\ Concludes("recovery_required") /\ Fault
     \/ /\ lastGood' \in {lastGood, helper.req.config} /\ UNCHANGED pendingConfirmation /\ Fault
        /\ IF helper.req.op = "COMMIT_CONFIRMED"
           THEN Concludes("recovery_required")
           ELSE helper' = [helper EXCEPT !.pc = "rollback"]
  /\ UNCHANGED <<channelVars, journal, memory, files, runtime>>

\* What the first-run runtime runs: the default core, everything else stopped.
FirstRunRuntime == [s \in Sections |-> IF s \in Optional THEN {} ELSE {DefaultBody[s]}]
FirstRunFiles(old) == [s \in Sections |-> IF s \in Optional THEN old[s] ELSE DefaultBody[s]]

\* An optional section that does not come back is down, and only logged.
BestEffort(full) ==
  {r \in Runtime : \A s \in Sections : r[s] = full[s] \/ (s \in Optional /\ r[s] = {})}

\* rollback(): the captured files are put back and every service restarted,
\* the LAN and the tunnels configured from the previous configuration.
RolledBackRuntime ==
  IF helper.previous = NoConfig THEN FirstRunRuntime
  ELSE [s \in Sections |-> IF s \in FileDriven THEN {helper.captured[s]}
                           ELSE {helper.previous.body[s]}]

RolledBackFiles ==
  IF helper.previous = NoConfig THEN FirstRunFiles(helper.captured) ELSE helper.captured

\* Mutant: a rollback leaves the pending marker behind.
rollback_keeps_pending ==
  /\ helper.pc = "rollback"
  /\ files' = RolledBackFiles /\ runtime' \in BestEffort(RolledBackRuntime)
  /\ Concludes("rolled_back") /\ NoFault
  /\ UNCHANGED <<channelVars, lastGood, pendingConfirmation, journal, memory>>

rollback ==
  /\ helper.pc = "rollback"
  /\ \/ /\ files' = RolledBackFiles /\ runtime' \in BestEffort(RolledBackRuntime)
        /\ \/ pendingConfirmation' = NoConfig /\ Concludes("rolled_back") /\ NoFault
           \/ /\ pendingConfirmation' \in {pendingConfirmation, NoConfig}
              /\ Concludes("recovery_required") /\ Fault
     \/ /\ files' \in Mixtures(files, RolledBackFiles)
        /\ runtime' \in Mixtures(runtime, RolledBackRuntime)
        /\ UNCHANGED pendingConfirmation /\ Concludes("recovery_required") /\ Fault
  /\ UNCHANGED <<channelVars, lastGood, journal, memory>>

\* fail_closed_startup: forwarding off, emergency firewall, services and
\* tunnels stopped; the LAN keeps whatever address it has.
FailClosed(lan) == [s \in Sections |-> IF s = Lan THEN lan ELSE {}]

\* The first-run rollback arms the same guard (and routerd is stopped).
rollback_fails_closed ==
  /\ helper.pc = "rollback" /\ helper.previous = NoConfig
  /\ files' \in Mixtures(files, RolledBackFiles)
  /\ runtime' \in {FailClosed(runtime[Lan]), FailClosed(FirstRunRuntime[Lan])}
  /\ Concludes("recovery_required") /\ Fault
  /\ UNCHANGED <<lastGood, pendingConfirmation, journal, memory>>
-----------------------------------------------------------------------------
(* CONFIRM and COMMIT_CONFIRMED.                                           *)

\* verify_active under the reconcile plan: the LAN address must be there, the
\* core services answer; what an optional section runs is not looked at.
Verifiable(config) == config.body[Lan] \in runtime[Lan]

Matches(req) == pendingConfirmation = req.config

confirm_apply ==
  LET finalLan == [runtime EXCEPT ![Lan] = {helper.req.config.body[Lan]}] IN
  /\ helper.pc = "execute" /\ helper.req.op = "CONFIRM"
  /\ \/ ~Matches(helper.req) /\ Concludes("failed") /\ UNCHANGED runtime /\ NoFault
     \/ Matches(helper.req) /\ runtime' = finalLan /\ Concludes("success") /\ NoFault
     \/ /\ runtime' \in {runtime} \cup (IF Matches(helper.req) THEN {finalLan} ELSE {})
        /\ Concludes("recovery_required") /\ Fault
  /\ UNCHANGED <<channelVars, lastGood, pendingConfirmation, journal, memory, files>>

commit_confirmed_apply ==
  /\ helper.pc = "execute" /\ helper.req.op = "COMMIT_CONFIRMED"
  /\ \/ ~Matches(helper.req) /\ Concludes("failed") /\ NoFault
     \/ Concludes("recovery_required") /\ Fault
     \/ /\ Matches(helper.req) /\ NoFault
        /\ IF Verifiable(helper.req.config)
           THEN helper' = [helper EXCEPT !.pc = "persist"]
           ELSE Concludes("recovery_required")
  /\ UNCHANGED <<channelVars, lastGood, pendingConfirmation, journal, memory, files, runtime>>
-----------------------------------------------------------------------------
(* Stop and start.                                                         *)

HelperCrash ==
  /\ helper.pc # "down"
  /\ helper' = [Idle EXCEPT !.pc = "down"] /\ memory' = NoRecord
  /\ inbox' = <<>> /\ serving' = FALSE
  /\ respond(serving \/ \E i \in 1..Len(inbox) : inbox[i].live, "lost")
  /\ Fault
  /\ UNCHANGED <<lastGood, pendingConfirmation, journal, files, runtime>>

\* reconcile_startup: everything is activated again from last-good, or the
\* first-run runtime restored, before the socket exists.
reconcile_startup ==
  /\ helper.pc = "down"
  /\ IF lastGood = NoConfig
     THEN files' = FirstRunFiles(files) /\ runtime' = FirstRunRuntime
     ELSE /\ files' = lastGood.body
          /\ runtime' \in BestEffort([s \in Sections |-> {lastGood.body[s]}])
  /\ pendingConfirmation' = NoConfig
  /\ helper' = Idle /\ NoFault
  /\ UNCHANGED <<channelVars, lastGood, journal, memory>>

\* A core failure ends the process fail-closed (and stops routerd).
startup_fails ==
  /\ helper.pc = "down"
  /\ files' \in Mixtures(files, IF lastGood = NoConfig THEN FirstRunFiles(files) ELSE lastGood.body)
  /\ runtime' \in {FailClosed(runtime[Lan]), FailClosed({lastGood.body[Lan]})}
  /\ pendingConfirmation' \in {pendingConfirmation, NoConfig}
  /\ Fault
  /\ UNCHANGED <<lastGood, journal, memory, helper>>
-----------------------------------------------------------------------------
HelperInit ==
  /\ lastGood = NoConfig /\ pendingConfirmation = NoConfig
  /\ journal = NoRecord /\ memory = NoRecord
  /\ files = DefaultBody /\ runtime = FailClosed({})
  /\ helper = [Idle EXCEPT !.pc = "down"]

HelperStep ==
  \/ process_request \/ refuse \/ install_and_activate
  \/ save_pending_confirmation \/ save_last_good
  \/ rollback \/ confirm_apply \/ commit_confirmed_apply
  \/ persist_transaction_outcome

HelperTypeOK ==
  /\ lastGood \in OptConfig /\ pendingConfirmation \in OptConfig
  /\ journal \in TransactionRecord /\ memory \in TransactionRecord
  /\ files \in Body /\ runtime \in Runtime
  /\ helper \in Executions
=============================================================================
