-------------------------- MODULE RestoreOperation --------------------------
(***************************************************************************)
(* Restoring a backup, a pfSense import or a snapshot from the web          *)
(* interface: previews held per session, the durable restore operation      *)
(* record, the engine transaction it submits, and the DNS continuation the  *)
(* operator starts afterwards, while other operators change the network     *)
(* and the DNS policy and routerd may restart at any point.                 *)
(*                                                                         *)
(* A configuration is known by its fingerprint, a member of Prints; a DNS   *)
(* policy is a member of DnsPolicies; what a preview holds is chosen when    *)
(* it is applied.  The transaction engine and the DNS filter appear by      *)
(* what this code reads of them; TransactionEngine and DnsFilter model      *)
(* them.                                                                   *)
(***************************************************************************)
EXTENDS Integers, FiniteSets

CONSTANTS
    Operators,      \* authenticated sessions
    Prints,         \* configuration fingerprints
    FirstPrint,
    DnsPolicies,
    FirstPolicy,
    MAX_PREVIEWS,   \* previews held at a time
    MaxCanon,       \* bound: canonical revisions
    MaxPolicy,      \* bound: DNS policy revisions
    MaxRestores,    \* bound: restore operations
    MaxUpsets       \* bound: failed saves, unknown outcomes and restarts

ASSUME RestoreAssumption ==
    /\ FirstPrint \in Prints /\ FirstPolicy \in DnsPolicies
    /\ {MAX_PREVIEWS, MaxCanon, MaxPolicy, MaxRestores, MaxUpsets} \subseteq Nat /\ MaxCanon # 0

VARIABLES
    engine,     \* [rev, print, pending, undone, recovery]
    dns,        \* [rev, policy, healthy, updating, serving]
    restoreOp,         \* the stored RecoveryOperation
    previews,   \* pending_imports by session: the revision each was made on
    handler,    \* the request holding recovery_mu: [at, op]
    reached,    \* history of the operation: [net, dns] targets became true
    upsets

restoreVars == <<engine, dns, restoreOp, previews, handler, reached, upsets>>

NoPolicy == "no policy"

Wanted == DnsPolicies \union {NoPolicy}

NoRestore == [id |-> 0, state |-> "none", rev |-> 0, print |-> FirstPrint,
                dns |-> NoPolicy, base |-> 0]

operation_finished(state) ==
    state \in {"none", "completed", "failed", "rolled_back", "needs_review", "dismissed"}

OperationStates ==
    {"none", "applying", "awaiting_confirmation", "dns_pending", "dns_running",
     "dns_failed", "completed", "failed", "rolled_back", "needs_review", "dismissed"}

Unheld == [at |-> "idle", op |-> NoRestore]

Calm == UNCHANGED upsets

Upset == upsets < MaxUpsets /\ upsets' = upsets + 1

RestoreInit ==
    /\ engine = [rev |-> 1, print |-> FirstPrint, pending |-> 0, undone |-> 0,
                 recovery |-> FALSE]
    /\ dns = [rev |-> 0, policy |-> FirstPolicy, healthy |-> TRUE, updating |-> NoPolicy,
              serving |-> TRUE]
    /\ restoreOp = NoRestore
    /\ previews = [s \in Operators |-> 0]
    /\ handler = Unheld
    /\ reached = [net |-> FALSE, dns |-> FALSE]
    /\ upsets = 0

-----------------------------------------------------------------------------
(* What the targets of an operation are. *)

TargetActive(o, e) == e.rev = o.rev /\ e.print = o.print

PolicyInstalled(o, d) == d.healthy /\ d.rev > o.base /\ d.policy = o.dns

(* The history follows every change of the engine and of the filter. *)
Observe(o, e, d) ==
    [net |-> reached.net \/ (o.id # 0 /\ TargetActive(o, e)),
     dns |-> reached.dns \/ (o.state = "dns_running" /\ PolicyInstalled(o, d))]

(* Mutant: any revision from the target on is taken for the target. *)
ReconcileByRevision(o) ==
    IF engine.pending = 0 /\ engine.rev >= o.rev /\ o.dns = NoPolicy
    THEN [o EXCEPT !.state = "completed"] ELSE o

(* reconcile_operation: the record against the authoritative state. *)
reconcile_restore_operation(o) ==
    IF o.id # 0 /\ engine.pending = o.id
    THEN [o EXCEPT !.state = "awaiting_confirmation"]
    ELSE IF ~TargetActive(o, engine)
    THEN [o EXCEPT !.state = IF o.id # 0 /\ engine.undone = o.id
                             THEN "rolled_back" ELSE "needs_review"]
    ELSE IF o.dns = NoPolicy
    THEN [o EXCEPT !.state = "completed"]
    ELSE IF o.state # "dns_running"
    THEN [o EXCEPT !.state = IF o.state = "dns_failed" THEN o.state ELSE "dns_pending"]
    ELSE IF ~dns.serving
    THEN [o EXCEPT !.state = "dns_failed"]
    ELSE IF dns.updating # NoPolicy
    THEN o
    ELSE [o EXCEPT !.state = IF PolicyInstalled(o, dns) THEN "completed" ELSE "dns_failed"]

(* recovery_operation: a finished record is returned as stored. *)
recovery_operation(o) ==
    IF operation_finished(o.state) THEN o ELSE reconcile_restore_operation(o)

(* ... and is stored again only when it became final or its DNS part failed. *)
Retained(o) ==
    LET now == recovery_operation(o)
    IN  IF now.state # o.state /\ (operation_finished(now.state) \/ now.state = "dns_failed")
        THEN now ELSE o

-----------------------------------------------------------------------------
(* Previews and the requests that apply them. *)

(* recovery_preview: bound to the revision it was made on, replaces the
   session's earlier preview, drops expired ones (all but `kept`) and is
   refused when too many stay active. *)
recovery_preview(s) ==
    \E kept \in SUBSET {t \in Operators \ {s} : previews[t] # 0} :
        /\ previews' = [t \in Operators |->
                          IF t \in kept THEN previews[t]
                          ELSE IF t = s /\ Cardinality(kept) < MAX_PREVIEWS
                          THEN engine.rev ELSE 0]
        /\ UNCHANGED <<engine, dns, restoreOp, handler, reached, upsets>>

(* assess_recovery: what blocks a restore besides the candidate itself. *)
assess_recovery == engine.pending = 0 /\ ~engine.recovery

(* perform_recovery up to the engine call, under recovery_mu: the previous
   operation must be finished, and the new one is stored before the engine
   is asked.  A store that fails refuses the restore.  The mutant misses the
   revision the engine will give it. *)
Submission(base, p, want) ==
    [NoRestore EXCEPT !.id = restoreOp.id + 1, !.state = "applying",
                        !.rev = base + 1, !.print = p, !.dns = want]

BeginRecovery(base, policies) ==
    \/ Upset /\ UNCHANGED <<restoreOp, handler, reached>>
    \/ /\ Calm
       /\ IF operation_finished(recovery_operation(restoreOp).state) /\ restoreOp.id < MaxRestores
          THEN \E p \in Prints, want \in policies :
                  LET o == Submission(base, p, want)
                  IN  /\ restoreOp' = o
                      /\ handler' = [at |-> "processing", op |-> o]
                      /\ reached' = [net |-> TargetActive(o, engine), dns |-> FALSE]
          ELSE restoreOp' = Retained(restoreOp) /\ UNCHANGED <<handler, reached>>

(* apply_recovery_preview: the preview is consumed whether or not it still
   fits the current revision. *)
apply_recovery_preview(s) ==
    /\ previews[s] # 0 /\ handler.at = "idle"
    /\ previews' = [previews EXCEPT ![s] = 0]
    /\ IF previews[s] = engine.rev /\ assess_recovery
       THEN BeginRecovery(previews[s], Wanted)
       ELSE Calm /\ UNCHANGED <<restoreOp, handler, reached>>
    /\ UNCHANGED <<engine, dns>>

(* handle_restore_snapshot: no stored preview, the revision the operator saw
   is sent along and must be the current one. *)
handle_restore_snapshot ==
    /\ handler.at = "idle" /\ assess_recovery
    /\ BeginRecovery(engine.rev, {NoPolicy})
    /\ UNCHANGED <<engine, dns, previews>>

-----------------------------------------------------------------------------
(* The rest of perform_recovery. *)

(* process_transaction: committed at once, applied and awaiting confirmation,
   refused or undone, or failed with an unknown outcome, which includes a
   canonical commit whose acknowledgement was lost. *)
Committed(e, print, doubt) ==
    [e EXCEPT !.rev = @ + 1, !.print = print, !.pending = 0, !.recovery = doubt,
              !.undone = 0]

process_transaction ==
    LET o == handler.op
        accepted == engine.pending = 0 /\ ~engine.recovery /\ engine.rev + 1 = o.rev
        Done(e, state) ==
            /\ engine' = e
            /\ handler' = [at |-> "saving", op |-> [o EXCEPT !.state = state]]
            /\ reached' = Observe(o, e, dns)
    IN  /\ handler.at = "processing"
        /\ \/ Calm /\ Done(engine, "failed")
           \/ Calm /\ accepted /\ Done([engine EXCEPT !.undone = o.id], "failed")
           \/ /\ Calm /\ accepted /\ engine.rev < MaxCanon
              /\ Done(Committed(engine, o.print, FALSE),
                      IF o.dns = NoPolicy THEN "completed" ELSE "dns_pending")
           \/ /\ Calm /\ accepted /\ engine.rev < MaxCanon
              /\ Done([engine EXCEPT !.pending = o.id, !.undone = 0], "awaiting_confirmation")
           \/ /\ Upset /\ accepted
              /\ Done([engine EXCEPT !.recovery = TRUE, !.undone = 0], "failed")
           \/ /\ Upset /\ accepted /\ engine.rev < MaxCanon
              /\ Done(Committed(engine, o.print, TRUE), "failed")
        /\ UNCHANGED <<dns, restoreOp, previews>>

(* The last statement of perform_recovery and of a failed DNS start: the
   outcome is stored, or stays as it was stored before. *)
SaveOutcome ==
    /\ handler.at = "saving"
    /\ \/ Calm /\ restoreOp' = handler.op
       \/ Upset /\ UNCHANGED restoreOp
    /\ handler' = Unheld
    /\ UNCHANGED <<engine, dns, previews, reached>>

-----------------------------------------------------------------------------
(* handle_recovery_status, handle_recovery_dns, handle_recovery_dismiss. *)

handle_recovery_status ==
    /\ handler.at = "idle"
    /\ restoreOp' = Retained(restoreOp) /\ restoreOp' # restoreOp
    /\ UNCHANGED <<engine, dns, previews, handler, reached, upsets>>

(* handle_recovery_dns reads the engine, then asks the filter's helper for
   its status, which takes time, then stores the intent and starts the DNS
   operation with the revision it read; the worker gives up on a revision
   that is no longer the installed one.  The mutant forgets the pending
   confirmation. *)
DnsAllowed ==
    /\ engine.pending = 0 /\ ~engine.recovery
    /\ recovery_operation(restoreOp).state \in {"dns_pending", "dns_failed"}

CheckDns ==
    /\ handler.at = "idle" /\ restoreOp.id # 0 /\ ~operation_finished(restoreOp.state)
    /\ restoreOp' = Retained(restoreOp)
    /\ handler' = IF DnsAllowed /\ dns.serving
                  THEN [at |-> "dns allowed", op |-> recovery_operation(restoreOp)] ELSE Unheld
    /\ UNCHANGED <<engine, dns, previews, reached, upsets>>

RecordDns ==
    /\ handler.at = "dns allowed"
    /\ LET running == [handler.op EXCEPT !.state = "dns_running", !.base = dns.rev]
       IN  \/ /\ Calm /\ dns.updating = NoPolicy
              /\ restoreOp' = running
              /\ handler' = [at |-> "dns start", op |-> running]
           \/ /\ IF dns.updating = NoPolicy THEN Upset ELSE Calm
              /\ handler' = Unheld /\ UNCHANGED restoreOp
    /\ UNCHANGED <<engine, dns, previews, reached>>

StartDns ==
    /\ handler.at = "dns start"
    /\ \/ /\ Calm /\ dns.updating = NoPolicy
          /\ dns' = [dns EXCEPT !.updating = IF restoreOp.base = dns.rev THEN restoreOp.dns ELSE "stale"]
          /\ handler' = Unheld
       \/ /\ IF dns.updating = NoPolicy THEN Upset ELSE Calm
          /\ handler' = [at |-> "saving", op |-> [restoreOp EXCEPT !.state = "dns_failed"]]
          /\ UNCHANGED dns
    /\ UNCHANGED <<engine, restoreOp, previews, reached>>

handle_recovery_dismiss ==
    /\ handler.at = "idle" /\ restoreOp.id # 0 /\ restoreOp.state # "dismissed"
    /\ LET now == recovery_operation(restoreOp)
       IN  restoreOp' = IF engine.pending # 0 \/ now.state \in {"dns_running", "applying"}
                 THEN Retained(restoreOp)
                 ELSE [now EXCEPT !.state = "dismissed", !.dns = NoPolicy]
    /\ UNCHANGED <<engine, dns, previews, handler, reached, upsets>>

-----------------------------------------------------------------------------
(* The engine and the filter, moved by other requests, timers and workers. *)

EngineTo(e) ==
    /\ engine' = e
    /\ reached' = Observe(restoreOp, e, dns)
    /\ UNCHANGED <<dns, restoreOp, previews, handler>>

EngineFree == engine.pending = 0 /\ ~engine.recovery /\ handler.at # "processing"

(* Another operator's network change; 0 names its transaction. *)
OtherChange ==
    /\ EngineFree /\ engine.rev < MaxCanon /\ Calm
    /\ \E p \in Prints : EngineTo(Committed(engine, p, FALSE))

confirm ==
    /\ engine.pending # 0
    /\ \/ Calm /\ EngineTo(Committed(engine, restoreOp.print, FALSE))
       \/ Upset /\ EngineTo(Committed(engine, restoreOp.print, TRUE))

(* A rollback by the operator or at the confirmation deadline. *)
rollback_restored ==
    /\ engine.pending # 0 /\ handler.at # "processing" /\ Calm
    /\ EngineTo([engine EXCEPT !.pending = 0, !.undone = engine.pending])

reconcile ==
    /\ engine.recovery /\ Calm
    /\ EngineTo([engine EXCEPT !.recovery = FALSE])

DnsTo(d) ==
    /\ dns' = d
    /\ reached' = Observe(restoreOp, engine, d)
    /\ UNCHANGED <<engine, restoreOp, previews, handler, upsets>>

OtherDnsChange ==
    /\ dns.serving /\ dns.updating = NoPolicy
    /\ \E p \in DnsPolicies : DnsTo([dns EXCEPT !.updating = p])

Installed == [dns EXCEPT !.rev = @ + 1, !.policy = dns.updating, !.healthy = TRUE,
                         !.updating = NoPolicy]

(* A DNS operation ends: installed, failed with the old policy kept, or with
   the resolver unhealthy. *)
DnsEnds ==
    /\ dns.updating # NoPolicy
    /\ \/ dns.updating \in DnsPolicies /\ dns.rev < MaxPolicy /\ DnsTo(Installed)
       \/ \E h \in {FALSE, dns.healthy} :
              DnsTo([dns EXCEPT !.healthy = h, !.updating = NoPolicy])

(* routerd restarts: previews, requests in flight and the engine's memory of
   its last transaction are lost, the helper undoes an unconfirmed change
   and the start-up reconciliation settles the runtime.  The DNS service may
   fail to open, and its helper may still have finished the activation. *)
RestoreDaemonRestarts ==
    /\ Upset
    /\ engine' = [engine EXCEPT !.pending = 0, !.undone = 0, !.recovery = FALSE]
    /\ \E serving \in BOOLEAN,
          d \in {dns} \union
               (IF dns.updating \in DnsPolicies /\ dns.rev < MaxPolicy THEN {Installed} ELSE {}) :
          /\ dns' = [d EXCEPT !.updating = NoPolicy, !.serving = serving]
          /\ reached' = Observe(restoreOp, engine, d)
    /\ previews' = [s \in Operators |-> 0]
    /\ handler' = Unheld
    /\ UNCHANGED restoreOp

RestoreNext ==
    \/ \E s \in Operators : recovery_preview(s) \/ apply_recovery_preview(s)
    \/ handle_restore_snapshot
    \/ process_transaction \/ SaveOutcome
    \/ handle_recovery_status \/ CheckDns \/ RecordDns \/ StartDns
    \/ handle_recovery_dismiss
    \/ OtherChange \/ confirm \/ rollback_restored \/ reconcile
    \/ OtherDnsChange \/ DnsEnds \/ RestoreDaemonRestarts

RestoreSpec == RestoreInit /\ [][RestoreNext]_restoreVars

-----------------------------------------------------------------------------
(* Properties. *)

RestoreTypeOK ==
    /\ engine \in [rev : 1 .. MaxCanon, print : Prints, pending : 0 .. MaxRestores,
                   undone : 0 .. MaxRestores, recovery : BOOLEAN]
    /\ dns \in [rev : 0 .. MaxPolicy, policy : DnsPolicies, healthy : BOOLEAN,
                updating : Wanted \union {"stale"}, serving : BOOLEAN]
    /\ restoreOp \in [id : 0 .. MaxRestores, state : OperationStates, rev : 0 .. MaxCanon + 1,
               print : Prints, dns : Wanted, base : 0 .. MaxPolicy]
    /\ previews \in [Operators -> 0 .. MaxCanon]
    /\ reached \in [net : BOOLEAN, dns : BOOLEAN]

(* A restore recorded as completed had its target configuration active under
   its own target revision, and when it carried a DNS policy that policy was
   installed healthy after the operator started it, whatever restarts, lost
   saves and changes by other operators came between (perform_recovery,
   reconcile_operation). *)
CompletedWasReached ==
    restoreOp.state = "completed" => reached.net /\ (restoreOp.dns # NoPolicy => reached.dns)

(* The DNS continuation runs only for a restored network configuration that
   was really committed (handle_recovery_dns): not for one still awaiting
   confirmation and not for one rolled back before it was ever canonical. *)
DnsAfterNetwork ==
    restoreOp.state \in {"dns_running", "dns_failed"} => reached.net

(* A recorded final outcome is kept: it changes only to "dismissed", or makes
   room for a new operation ("Observed final outcomes are retained"); and an
   unfinished operation is never replaced by a new one. *)
OutcomesRetained ==
    [][ /\ operation_finished(restoreOp.state) /\ restoreOp'.id = restoreOp.id =>
              restoreOp'.state \in {restoreOp.state, "dismissed"}
        /\ restoreOp'.id # restoreOp.id =>
              operation_finished(recovery_operation(restoreOp).state) ]_restoreVars

\* A restore is recorded as completed only when both parts were reached, and its DNS
\* part starts only once the network part was canonical, over restarts and time-outs.
RestoreSound ==
  /\ RestoreTypeOK /\ CompletedWasReached /\ DnsAfterNetwork
=============================================================================
