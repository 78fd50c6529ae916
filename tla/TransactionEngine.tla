-------------------------- MODULE TransactionEngine --------------------------
(***************************************************************************)
(* The transaction engine of routerd (mr-services apply/engine.rs) over    *)
(* the canonical SQLite store: apply, commit-confirm with a timer,         *)
(* automatic rollback, reconciliation and boot.                            *)
(*                                                                         *)
(* The operation lock admits one handler at a time.  A handler is cut at   *)
(* its privileged calls; the part up to the call, the transport and the    *)
(* part after the answer are steps.                                        *)
(***************************************************************************)
EXTENDS ApplyProtocol

CONSTANTS
  MaxRollbackAttempts,  \* MAXIMUM_ROLLBACK_ATTEMPTS
  Images                \* how the appliance was installed

ASSUME EngineAssumption ==
  /\ MaxRollbackAttempts \in Nat /\ Images \subseteq {"factory", "provisioned"}
  /\ "provisioned" \in Images => MaxRevision > 1

VARIABLES
  stored,   \* the latest revision in config_revisions
  admin,    \* does the administrator credential exist?
  engine,   \* EngineState, and the handler that holds the operation lock
  pending,  \* PendingChange
  firing,   \* timers past their cancellation test that wait for the lock
  call,     \* the privileged call of the handler
  marker    \* startup-verified.sha256: the configuration applyd just restored

engineVars == <<stored, admin, engine, pending, firing, call, marker>>

\* The handlers, named for the privileged call they wait for.
EnginePCs == {"down", "idle", "apply", "commit", "undo", "ack", "confirm",
              "finalize", "expire", "reconcile", "boot"}

TxStates == {"none", "Rejected", "RolledBack", "RecoveryRequired",
             "AwaitingConfirmation", "Committed"}

Engine == [pc : EnginePCs, current : Config, candidate : OptConfig,
           recovery_required : BOOLEAN, tx : TxStates]

OptIds == Ids \cup {0}

PendingChange == [candidate : OptConfig, previous : OptConfig, timer : BOOLEAN,
                  rollback_attempts : 0..MaxRollbackAttempts, canonical_committed : BOOLEAN,
                  finalize : OptIds]
NoPending == [candidate |-> NoConfig, previous |-> NoConfig, timer |-> FALSE,
              rollback_attempts |-> 0, canonical_committed |-> FALSE, finalize |-> 0]

Calls == [status : {"none", "unsent", "sent"}, req : ApplyRequest \cup {NoRequest}, tries : 0..2]
NoCall == [status |-> "none", req |-> NoRequest, tries |-> 0]

default_config == [revision |-> 1, body |-> DefaultBody, stamped |-> FALSE]
-----------------------------------------------------------------------------
(* Privileged calls.                                                       *)

\* Start of apply_privileged by the handler pc.
Privileged(req) ==
  /\ call' = [status |-> "unsent", req |-> req, tries |-> 0]
  /\ answer' = "none"

\* UnixClient::apply connects, sends and waits.
Send ==
  /\ call.status = "unsent" /\ answer = "none" /\ Len(inbox) < MaxQueue
  /\ inbox' = Append(inbox, [req |-> call.req, live |-> TRUE])
  /\ call' = [call EXCEPT !.status = "sent", !.tries = @ + 1]
  /\ NoFault
  /\ UNCHANGED <<serving, answer, stored, admin, engine, pending, firing, marker>>

\* An attempt failed: PRIVILEGED_APPLY_ATTEMPTS is 2, within one deadline.
Retry(tries, deadlinePassed) ==
  IF tries < 2 /\ ~deadlinePassed
  THEN call' = [call EXCEPT !.status = "unsent", !.tries = tries] /\ answer' = "none"
  ELSE call' = [call EXCEPT !.status = "sent", !.tries = tries] /\ answer' = "error"

ConnectFails ==
  /\ call.status = "unsent" /\ answer = "none"
  /\ Retry(call.tries + 1, FALSE)
  /\ NoFault
  /\ UNCHANGED <<inbox, serving, stored, admin, engine, pending, firing, marker>>

ConnectionLost ==
  /\ call.status = "sent" /\ answer = "lost"
  /\ \E deadlinePassed \in BOOLEAN : Retry(call.tries, deadlinePassed)
  /\ NoFault
  /\ UNCHANGED <<inbox, serving, stored, admin, engine, pending, firing, marker>>

\* The read times out and the helper goes on without a client.  Only the
\* budget of reconcile leaves room for a second attempt.
Abandon == serving' = FALSE /\ inbox' = [i \in 1..Len(inbox) |-> [inbox[i] EXCEPT !.live = FALSE]]

DeadlinePasses ==
  /\ call.status = "sent" /\ answer = "none"
  /\ Abandon /\ Fault
  /\ Retry(call.tries, engine.pc \notin {"reconcile", "boot"})
  /\ UNCHANGED <<stored, admin, engine, pending, firing, marker>>

Answered(pc) == engine.pc = pc /\ answer \in Outcomes \cup {"error"}
Succeeded == answer = "success"

\* The handler returns.
Return(e) == engine' = [e EXCEPT !.pc = "idle", !.candidate = NoConfig]
             /\ call' = NoCall /\ answer' = "none"

\* The pending change is gone; a timer that already fired is too late.
Settle == /\ pending' = NoPending
          /\ firing' = IF "current" \in firing THEN {"outdated"} ELSE firing

RequireRecovery == [engine EXCEPT !.recovery_required = TRUE, !.tx = "RecoveryRequired"]
Resolved(tx) == [engine EXCEPT !.recovery_required = FALSE, !.tx = tx]
-----------------------------------------------------------------------------
(* process_transaction and process_initial_setup.                          *)

\* Refused before anything is sent: recovery is required, another change is
\* pending, the revision is stale, validation or the snapshot failed.
Reject ==
  /\ engine.pc = "idle"
  /\ engine' = [engine EXCEPT !.tx = IF engine.recovery_required
                                     THEN "RecoveryRequired" ELSE "Rejected"]
  /\ NoFault
  /\ UNCHANGED <<channelVars, stored, admin, pending, firing, call, marker>>

\* First-run setup keeps the default management path.
process_locked(body, id) ==
  LET candidate == [revision |-> engine.current.revision + 1, body |-> body, stamped |-> FALSE]
      confirm == admin /\ requires_confirmation(engine.current, candidate)
      req == [build_apply_request(id, candidate) EXCEPT
                !.require_confirmation = confirm, !.defer_last_good = ~confirm]
  IN
  /\ engine.pc = "idle" /\ ~engine.recovery_required /\ pending = NoPending
  /\ engine.current.revision < MaxRevision
  /\ admin \/ ~requires_confirmation(engine.current, candidate)
  /\ engine' = [engine EXCEPT !.pc = "apply", !.candidate = candidate, !.tx = "none"]
  /\ Privileged(req)
  /\ NoFault
  /\ UNCHANGED <<inbox, serving, stored, admin, pending, firing, marker>>

apply_answered ==
  /\ Answered("apply")
  /\ CASE Succeeded /\ call.req.require_confirmation ->
            /\ pending' = [NoPending EXCEPT !.timer = TRUE, !.candidate = engine.candidate,
                                        !.previous = engine.current]
            /\ Return([engine EXCEPT !.tx = "AwaitingConfirmation"])
       [] Succeeded /\ ~call.req.require_confirmation ->
            /\ engine' = [engine EXCEPT !.pc = "commit"]
            /\ UNCHANGED <<pending, call, answer>>
       [] answer = "rolled_back" -> Return([engine EXCEPT !.tx = "RolledBack"]) /\ UNCHANGED pending
       [] answer = "failed" -> Return([engine EXCEPT !.tx = "Rejected"]) /\ UNCHANGED pending
       [] OTHER -> Return(RequireRecovery) /\ UNCHANGED pending
  /\ NoFault
  /\ UNCHANGED <<inbox, serving, stored, admin, firing, marker>>

\* save_config advances the revision exactly once, atomically.
Advances(config) == config.revision = stored.revision + 1

\* The canonical commit of a routine change, then the helper's last-good; a
\* commit that fails undoes the change in the runtime.
commit_config(id) ==
  LET ack == [build_apply_request(id, engine.candidate) EXCEPT !.op = "COMMIT_CONFIRMED"] IN
  /\ engine.pc = "commit"
  /\ \/ /\ Advances(engine.candidate)
        /\ stored' = [engine.candidate EXCEPT !.stamped = ~admin]
        /\ admin' = TRUE
        /\ engine' = [engine EXCEPT !.pc = "ack", !.current = engine.candidate]
        /\ Privileged(ack) /\ NoFault
     \/ /\ UNCHANGED <<stored, admin>>
        /\ engine' = [engine EXCEPT !.pc = "undo"]
        /\ Privileged(build_apply_request(id, engine.current))
        /\ IF Advances(engine.candidate) THEN Fault ELSE NoFault
  /\ UNCHANGED <<inbox, serving, pending, firing, marker>>

undo_answered ==
  /\ Answered("undo")
  /\ Return(IF Succeeded THEN [engine EXCEPT !.tx = "RolledBack"] ELSE RequireRecovery)
  /\ NoFault
  /\ UNCHANGED <<inbox, serving, stored, admin, pending, firing, marker>>

\* Mutant: a last-good acknowledgement that fails is not noticed.
ack_ignored ==
  /\ Answered("ack")
  /\ Return([engine EXCEPT !.tx = "Committed"])
  /\ NoFault
  /\ UNCHANGED <<inbox, serving, stored, admin, pending, firing, marker>>

ack_answered ==
  /\ Answered("ack")
  /\ Return(IF Succeeded THEN [engine EXCEPT !.tx = "Committed"] ELSE RequireRecovery)
  /\ NoFault
  /\ UNCHANGED <<inbox, serving, stored, admin, pending, firing, marker>>
-----------------------------------------------------------------------------
(* confirm_transaction.                                                    *)

CommitConfirmed(id) ==
  [build_apply_request(id, pending.candidate) EXCEPT !.op = "COMMIT_CONFIRMED"]

\* Mutant: the engine keeps working from the previous configuration.
confirm_keeps_current(id) ==
  /\ engine.pc = "idle" /\ pending # NoPending
  /\ ~pending.canonical_committed /\ Advances(pending.candidate)
  /\ stored' = pending.candidate
  /\ pending' = [pending EXCEPT !.canonical_committed = TRUE, !.timer = FALSE]
  /\ engine' = [engine EXCEPT !.pc = "confirm"]
  /\ Privileged(CommitConfirmed(id)) /\ NoFault
  /\ UNCHANGED <<inbox, serving, admin, firing, marker>>

\* The timer is stopped only once the candidate is canonical.
confirm_locked(id) ==
  /\ engine.pc = "idle" /\ pending # NoPending
  /\ \/ /\ ~pending.canonical_committed /\ Advances(pending.candidate)
        /\ stored' = pending.candidate
        /\ pending' = [pending EXCEPT !.canonical_committed = TRUE, !.timer = FALSE]
        /\ engine' = [engine EXCEPT !.pc = "confirm", !.current = pending.candidate]
        /\ Privileged(CommitConfirmed(id)) /\ NoFault
     \/ /\ ~pending.canonical_committed
        /\ engine' = [engine EXCEPT !.tx = "RecoveryRequired"]
        /\ IF Advances(pending.candidate) THEN Fault ELSE NoFault
        /\ UNCHANGED <<stored, pending, call, answer>>
     \/ /\ pending.canonical_committed
        /\ engine' = [engine EXCEPT !.pc = "confirm"]
        /\ Privileged(CommitConfirmed(id)) /\ NoFault
        /\ UNCHANGED <<stored, pending>>
  /\ UNCHANGED <<inbox, serving, admin, firing, marker>>

LanChanged == pending.previous.body[Lan] # pending.candidate.body[Lan]

\* "<tx>-finalize-lan" has one ID for every confirmation of the transaction.
confirm_answered(id) ==
  LET finalize == IF pending.finalize = 0 THEN id ELSE pending.finalize IN
  /\ Answered("confirm")
  /\ \/ /\ Succeeded /\ LanChanged
        /\ pending' = [pending EXCEPT !.finalize = finalize] /\ UNCHANGED firing
        /\ engine' = [engine EXCEPT !.pc = "finalize"]
        /\ Privileged([build_apply_request(finalize, pending.candidate) EXCEPT !.op = "RECONCILE"])
     \/ /\ Succeeded /\ ~LanChanged
        /\ Settle /\ Return(Resolved("Committed"))
     \/ /\ ~Succeeded
        /\ Return(RequireRecovery) /\ UNCHANGED <<pending, firing>>
  /\ NoFault
  /\ UNCHANGED <<inbox, serving, stored, admin, marker>>

finalize_answered ==
  /\ Answered("finalize")
  /\ \/ Succeeded /\ Settle /\ Return(Resolved("Committed"))
     \/ ~Succeeded /\ Return(RequireRecovery) /\ UNCHANGED <<pending, firing>>
  /\ NoFault
  /\ UNCHANGED <<inbox, serving, stored, admin, marker>>
-----------------------------------------------------------------------------
(* The confirmation timer.                                                 *)

\* The timer thread finds itself not cancelled and asks for the lock.
TimerFires ==
  /\ engine.pc # "down" /\ pending.timer
  /\ firing' = firing \cup {"current"}
  /\ pending' = [pending EXCEPT !.timer = FALSE]
  /\ NoFault
  /\ UNCHANGED <<channelVars, stored, admin, engine, call, marker>>

\* Mutant: retries without a limit.
rollback_unbounded(timer, id) ==
  /\ engine.pc = "idle" /\ timer \in firing
  /\ firing' = firing \ {timer}
  /\ IF timer = "outdated" \/ pending.canonical_committed
     THEN UNCHANGED <<engine, pending, call, answer>>
     ELSE /\ engine' = [engine EXCEPT !.pc = "expire"]
          /\ pending' = [pending EXCEPT !.rollback_attempts = @ + 1]
          /\ Privileged(build_apply_request(id, pending.previous))
  /\ NoFault
  /\ UNCHANGED <<inbox, serving, stored, admin, marker>>

\* By the time it has the lock the change may be gone or canonical.
rollback_expired(timer, id) ==
  /\ engine.pc = "idle" /\ timer \in firing
  /\ firing' = firing \ {timer}
  /\ IF timer = "outdated" \/ pending.canonical_committed
     THEN UNCHANGED <<engine, pending, call, answer>>
     ELSE IF pending.rollback_attempts = MaxRollbackAttempts
     THEN /\ engine' = RequireRecovery /\ pending' = NoPending
          /\ UNCHANGED <<call, answer>>
     ELSE /\ engine' = [engine EXCEPT !.pc = "expire"]
          /\ pending' = [pending EXCEPT !.rollback_attempts = @ + 1]
          /\ Privileged(build_apply_request(id, pending.previous))
  /\ NoFault
  /\ UNCHANGED <<inbox, serving, stored, admin, marker>>

\* Mutant: a failed rollback is not scheduled again.
expire_gives_up ==
  /\ Answered("expire")
  /\ \/ Succeeded /\ Settle /\ Return(Resolved("RolledBack"))
     \/ /\ ~Succeeded /\ UNCHANGED <<pending, firing>>
        /\ Return([engine EXCEPT !.tx = "RecoveryRequired"])
  /\ NoFault
  /\ UNCHANGED <<inbox, serving, stored, admin, marker>>

\* Anything but a verified success schedules another attempt.
expire_answered ==
  /\ Answered("expire")
  /\ \/ Succeeded /\ Settle /\ Return(Resolved("RolledBack"))
     \/ /\ ~Succeeded /\ pending' = [pending EXCEPT !.timer = TRUE] /\ UNCHANGED firing
        /\ Return([engine EXCEPT !.tx = "RecoveryRequired"])
  /\ NoFault
  /\ UNCHANGED <<inbox, serving, stored, admin, marker>>
-----------------------------------------------------------------------------
(* Reconciliation and boot.                                                *)

reconcile(id) ==
  /\ engine.pc = "idle" /\ admin
  /\ engine' = [engine EXCEPT !.pc = "reconcile"]
  /\ Privileged([build_apply_request(id, engine.current) EXCEPT !.op = "RECONCILE"])
  /\ NoFault
  /\ UNCHANGED <<inbox, serving, stored, admin, pending, firing, marker>>

reconcile_answered ==
  /\ Answered("reconcile")
  /\ \/ /\ Succeeded /\ Settle
        /\ Return(Resolved(IF pending = NoPending THEN engine.tx
                           ELSE IF pending.canonical_committed THEN "Committed"
                           ELSE "RolledBack"))
     \/ /\ ~Succeeded /\ UNCHANGED <<pending, firing>>
        /\ Return([engine EXCEPT !.recovery_required = TRUE])
  /\ NoFault
  /\ UNCHANGED <<inbox, serving, stored, admin, marker>>

Fresh(e) == [e EXCEPT !.current = stored, !.candidate = NoConfig,
                      !.recovery_required = FALSE, !.tx = "none"]

\* routerd starts: before setup it just serves; a fresh marker of exactly the
\* stored configuration stands for the reconciliation; otherwise reconcile.
boot(id) ==
  /\ engine.pc = "down"
  /\ \/ /\ ~admin \/ marker = stored
        /\ engine' = [Fresh(engine) EXCEPT !.pc = "idle"]
        /\ UNCHANGED <<call, answer>>
     \/ /\ admin
        /\ engine' = [Fresh(engine) EXCEPT !.pc = "boot"]
        /\ Privileged([build_apply_request(id, stored) EXCEPT !.op = "RECONCILE"])
  /\ marker' = NoConfig
  /\ NoFault
  /\ UNCHANGED <<inbox, serving, stored, admin, pending, firing>>

\* A failed boot reconciliation ends the process; the supervisor tries again.
boot_answered ==
  /\ Answered("boot")
  /\ engine' = [engine EXCEPT !.pc = IF Succeeded THEN "idle" ELSE "down"]
  /\ call' = NoCall /\ answer' = "none"
  /\ NoFault
  /\ UNCHANGED <<inbox, serving, stored, admin, pending, firing, marker>>

\* The process ends: everything volatile is gone, its requests run on.
Halt ==
  /\ engine' = [Fresh(engine) EXCEPT !.pc = "down"]
  /\ pending' = NoPending /\ firing' = {} /\ call' = NoCall /\ answer' = "none"

EngineCrash ==
  /\ engine.pc # "down"
  /\ Halt /\ Abandon /\ Fault
  /\ UNCHANGED <<stored, admin, marker>>
-----------------------------------------------------------------------------
\* A factory image, or one provisioned offline by the installer: the stored
\* revision is waiting for the first boot to reconcile it.
EngineInit ==
  /\ \/ "factory" \in Images /\ stored = default_config /\ admin = FALSE
     \/ /\ "provisioned" \in Images
        /\ stored = [default_config EXCEPT !.revision = 2, !.stamped = TRUE]
        /\ admin = TRUE
  /\ engine = [pc |-> "down", current |-> default_config, candidate |-> NoConfig,
               recovery_required |-> FALSE, tx |-> "none"]
  /\ pending = NoPending /\ firing = {} /\ call = NoCall /\ marker = NoConfig

\* Steps whose turn the scheduler owes: transport and continuations.
EngineContinues(id) ==
  \/ apply_answered \/ commit_config(id) \/ undo_answered \/ ack_answered
  \/ confirm_answered(id) \/ finalize_answered \/ expire_answered
  \/ reconcile_answered \/ boot_answered

EngineStep(id) ==
  \/ Reject \/ \E body \in Body : process_locked(body, id)
  \/ confirm_locked(id) \/ reconcile(id)
  \/ TimerFires \/ \E timer \in firing : rollback_expired(timer, id)
  \/ EngineContinues(id)

EngineTypeOK ==
  /\ stored \in Config /\ admin \in BOOLEAN
  /\ engine \in Engine /\ pending \in PendingChange
  /\ firing \subseteq {"current", "outdated"} /\ call \in Calls /\ marker \in OptConfig
=============================================================================
