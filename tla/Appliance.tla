------------------------------ MODULE Appliance ------------------------------
(***************************************************************************)
(* routerd and router-applyd together: requests that outlive their client, *)
(* either process stopping at any step, and power loss.                    *)
(***************************************************************************)
EXTENDS PrivilegedHelper, TransactionEngine

vars == <<channelVars, faults, helperVars, engineVars>>

\* routerd numbers its requests with fresh IDs (unix_nano, counted suffixes).
UsedIds ==
  {helper.req.id, journal.req.id, memory.req.id, call.req.id, pending.finalize}
  \cup {inbox[i].req.id : i \in 1..Len(inbox)}

FreshId == CHOOSE n \in Ids : n \notin UsedIds

\* OpenRC: routerd needs router-applyd, which publishes the marker of what it
\* restored on a service start, not when the supervisor respawns it.
ServiceStart ==
  /\ engine.pc = "down" /\ reconcile_startup
  /\ marker' = lastGood
  /\ UNCHANGED <<stored, admin, engine, pending, firing, call>>

Respawn == reconcile_startup /\ UNCHANGED engineVars

\* fail_closed_startup stops routerd.
FailsClosed ==
  /\ startup_fails \/ rollback_fails_closed
  /\ Halt /\ Abandon
  /\ UNCHANGED <<stored, admin, marker>>

PowerLoss ==
  /\ Halt /\ UNCHANGED <<stored, admin>> /\ marker' = NoConfig
  /\ helper' = [Idle EXCEPT !.pc = "down"] /\ memory' = NoRecord
  /\ inbox' = <<>> /\ serving' = FALSE /\ Fault
  /\ runtime' = FailClosed({})
  /\ UNCHANGED <<lastGood, pendingConfirmation, journal, files>>

Init == ChannelInit /\ HelperInit /\ EngineInit

\* A connection attempt fails when nobody listens.
Transport ==
  \/ Send /\ helper.pc # "down"
  \/ ConnectFails /\ helper.pc = "down"
  \/ ConnectionLost

Next ==
  \/ (HelperStep \/ HelperCrash) /\ UNCHANGED engineVars
  \/ ServiceStart \/ Respawn \/ FailsClosed \/ PowerLoss
  \/ (Transport \/ DeadlinePasses \/ EngineStep(FreshId) \/ boot(FreshId) \/ EngineCrash)
     /\ UNCHANGED helperVars

Spec == Init /\ [][Next]_vars

\* A started handler runs on, timers fire, and an expired timer is not starved
\* of the operation lock.  Nothing is assumed of the administrator, nor of the
\* supervisor: it gives up after a burst of crashes (respawn_max), and a routerd
\* that fail_closed_startup stopped is not started again.
Fairness ==
  /\ WF_vars(HelperStep /\ UNCHANGED engineVars)
  /\ WF_vars((Transport \/ EngineContinues(FreshId)) /\ UNCHANGED helperVars)
  /\ WF_vars(TimerFires /\ UNCHANGED helperVars)
  /\ SF_vars(rollback_expired("current", FreshId) /\ UNCHANGED helperVars)

FairSpec == Spec /\ Fairness
-----------------------------------------------------------------------------
(* Properties.                                                             *)

TypeOK == ChannelTypeOK /\ HelperTypeOK /\ EngineTypeOK

\* No handler and no privileged transaction is under way.
AtRest == engine.pc = "idle" /\ helper.pc = "idle" /\ inbox = <<>>

\* The engine claims to know what the appliance runs.
Certain == ~engine.recovery_required /\ pending.rollback_attempts = 0

\* The engine works from what SQLite holds, in every handler: a confirmation
\* finds its revision free, a timeout restores what is canonical, and a
\* confirmed candidate stays canonical until the helper acknowledged it.
EngineTracksCanonical ==
  /\ engine.pc # "down" => SameConfig(engine.current, stored)
  /\ pending # NoPending =>
       IF pending.canonical_committed
       THEN SameConfig(pending.candidate, stored)
       ELSE Advances(pending.candidate) /\ SameConfig(pending.previous, stored)

\* At rest and with nothing pending, SQLite, the engine and the helper agree
\* on the configuration, and nothing is left half committed.
DurableAgreement ==
  AtRest /\ Certain /\ pending = NoPending /\ admin =>
    /\ SameConfig(engine.current, stored)
    /\ SameConfig(lastGood, stored)
    /\ pendingConfirmation = NoConfig

\* Canonical before last-good: the helper records a configuration as last-good
\* only when SQLite already holds it.
LastGoodFollowsCanonical ==
  [][lastGood' # lastGood => SameConfig(lastGood', stored)]_vars

\* The management address of the canonical configuration answers whenever the
\* engine is certain, a provisional change included.
ManagementPathKept ==
  AtRest /\ Certain /\ admin => stored.body[Lan] \in runtime[Lan]

\* ARCHITECTURE.md of RolledBack: "previous state is positively verified as
\* restored".  A section that is not activated differentially may still run the
\* candidate, because last-good never named it.
RolledBackIsRestored ==
  AtRest /\ Certain /\ engine.tx = "RolledBack" =>
    \A s \in Sections : runtime[s] \subseteq {stored.body[s]}

\* Whatever stops is started again: by the supervisor within its respawn limit,
\* by an administrator after a fail-closed stop.
StartedAgain ==
  /\ WF_vars(ServiceStart \/ Respawn)
  /\ WF_vars(boot(FreshId) /\ UNCHANGED helperVars)

\* Whatever fails, a handler gives the operation lock back or ends with its
\* process; and when whatever stopped is started again, no journal, marker or
\* half-committed configuration keeps the daemon from coming back.
HandlersReturn ==
  /\ engine.pc \notin {"idle", "down"} ~> engine.pc \in {"idle", "down"}
  /\ StartedAgain => (engine.pc # "idle" ~> engine.pc = "idle")

\* A provisional change is confirmed, rolled back or handed to recovery; it
\* never lingers.
ProvisionalResolved ==
  pending # NoPending /\ ~pending.canonical_committed
    ~> pending = NoPending \/ pending.canonical_committed
=============================================================================
