-------------------------- MODULE ApplianceProofs ---------------------------
(***************************************************************************)
(* Proofs about the durable state of the appliance and the migration that  *)
(* shares it: Appliance and OfflineRecovery. For every value of their      *)
(* constants. Each part starts with its inductive invariant.               *)
(***************************************************************************)
EXTENDS Appliance, OfflineRecovery, FiniteSetTheorems, SequenceTheorems,
        TLAPS

\* Most leaves are first-order reasoning; the others name their prover.
USE Zenon

-----------------------------------------------------------------------------
(***************************************************************************)
(* Appliance. The engine works from what SQLite holds:                     *)
(* EngineTracksCanonical, for every set of sections, values and IDs and    *)
(* every bound, whatever the helper answers and whenever either process    *)
(* stops.                                                                  *)
(***************************************************************************)

USE DEF engineVars

\* PendingChange whatever ID the finalization has.
PendingShape ==
  [candidate : OptConfig, previous : OptConfig, timer : BOOLEAN,
   rollback_attempts : 0..MaxRollbackAttempts, canonical_committed : BOOLEAN,
   finalize : {pending.finalize}]

\* A change is pending exactly when its candidate is a configuration.
Held == pending.candidate.revision # 0

\* What EngineTracksCanonical needs of the handlers in between: which of them
\* run with a change pending, which without, what an apply is about to leave
\* pending, and that a timer which fired still has its change.
Tracking ==
  /\ stored \in Config /\ admin \in BOOLEAN /\ engine \in Engine
  /\ pending \in PendingShape /\ firing \subseteq {"current", "outdated"}
  /\ engine.pc # "down" => SameConfig(engine.current, stored)
  /\ engine.pc \in {"apply", "commit", "boot", "down"} => ~Held
  /\ engine.pc \in {"confirm", "expire"} => Held
  /\ engine.pc = "apply" => Advances(engine.candidate)
  /\ ~Held => pending = NoPending
  /\ "current" \in firing => Held
  /\ Held => IF pending.canonical_committed
             THEN SameConfig(pending.candidate, stored)
             ELSE Advances(pending.candidate) /\ SameConfig(pending.previous, stored)

trackedVars == <<stored, admin, engine, pending, firing>>

LEMMA ConfigFacts ==
  /\ NoConfig \in OptConfig /\ Config \subseteq OptConfig
  /\ default_config \in Config /\ NoConfig.revision = 0
  /\ \A c \in Config : c.revision \in 1..MaxRevision /\ c.body \in Body
  /\ \A c \in OptConfig : c.revision \in Nat /\ (c.revision # 0 => c \in Config)
  /\ \A c \in Config, b \in BOOLEAN :
       /\ [c EXCEPT !.stamped = b] \in Config
       /\ [c EXCEPT !.stamped = b].revision = c.revision
       /\ [c EXCEPT !.stamped = b].body = c.body
BY SMT, ProtocolAssumption DEF NoConfig, OptConfig, Config, default_config

\* NoPending holds nothing and has no timer.
LEMMA NoPendingFacts ==
  /\ NoPending.candidate.revision = 0 /\ NoPending.timer = FALSE
  /\ NoPending = [candidate |-> NoConfig, previous |-> NoConfig, timer |-> FALSE,
                  rollback_attempts |-> 0, canonical_committed |-> FALSE, finalize |-> 0]
  /\ NoPending \in [candidate : OptConfig, previous : OptConfig, timer : BOOLEAN,
                     rollback_attempts : 0..MaxRollbackAttempts,
                     canonical_committed : BOOLEAN, finalize : {NoPending.finalize}]
BY SMT, ConfigFacts, EngineAssumption DEF NoPending, NoConfig

LEMMA TrackingInit == Init => Tracking
<1> SUFFICES ASSUME Init PROVE Tracking
  OBVIOUS
<1>1. stored \in Config /\ admin \in BOOLEAN
  <2>1. CASE stored = default_config /\ admin = FALSE
    BY <2>1, ConfigFacts
  <2>2. CASE "provisioned" \in Images /\ admin = TRUE
               /\ stored = [default_config EXCEPT !.revision = 2, !.stamped = TRUE]
    <3>1. stored = [revision |-> 2, body |-> DefaultBody, stamped |-> TRUE]
      BY <2>2 DEF default_config
    <3>2. 2 \in 1..MaxRevision
      BY SMT, <2>2, ProtocolAssumption, EngineAssumption
    <3>3. stored \in Config BY <3>1, <3>2, ProtocolAssumption DEF Config
    <3> QED BY <2>2, <3>3
  <2> QED BY <2>1, <2>2 DEF Init, EngineInit
<1>2. engine \in Engine /\ engine.pc = "down"
  BY ConfigFacts DEF Init, EngineInit, Engine, EnginePCs, TxStates
<1>3. pending = NoPending /\ firing = {} BY DEF Init, EngineInit
<1> QED BY <1>1, <1>2, <1>3, NoPendingFacts DEF Tracking, PendingShape, Held

LEMMA TrackingStutters == Tracking /\ UNCHANGED trackedVars => Tracking'
BY DEF Tracking, trackedVars, PendingShape, Held, Advances, SameConfig

LEMMA TrackingHalts == Tracking /\ Halt /\ UNCHANGED <<stored, admin>> => Tracking'
<1> SUFFICES ASSUME Tracking, Halt, UNCHANGED <<stored, admin>> PROVE Tracking'
  OBVIOUS
<1>1. engine' \in Engine /\ engine'.pc = "down"
  BY ConfigFacts DEF Halt, Fresh, Tracking, Engine, EnginePCs, TxStates
<1> QED BY <1>1, NoPendingFacts DEF Halt, Tracking, PendingShape, Held

\* What a handler may return with.
LEMMA Results ==
  ASSUME engine \in Engine
  PROVE  /\ \A tx \in TxStates : [engine EXCEPT !.tx = tx] \in Engine
                               /\ [engine EXCEPT !.tx = tx].current = engine.current
         /\ \A tx \in TxStates : Resolved(tx) \in Engine /\ Resolved(tx).current = engine.current
         /\ RequireRecovery \in Engine /\ RequireRecovery.current = engine.current
                                      /\ RequireRecovery.pc = engine.pc
         /\ LET e == [engine EXCEPT !.recovery_required = TRUE]
            IN  e \in Engine /\ e.current = engine.current
BY DEF Engine, TxStates, Resolved, RequireRecovery

\* A handler that returns leaves the pending change alone or settles it.
LEMMA TrackingReturns ==
  ASSUME Tracking, NEW e \in Engine, e.current = engine.current, Return(e),
         engine.pc # "down", UNCHANGED <<stored, admin>>,
         UNCHANGED <<pending, firing>> \/ Settle
  PROVE  Tracking'
<1>1. engine' \in Engine /\ engine'.pc = "idle" /\ engine'.current = engine.current
  BY ConfigFacts DEF Return, Engine, EnginePCs
<1>2. SameConfig(engine'.current, stored') BY <1>1 DEF Tracking
<1>3. CASE UNCHANGED <<pending, firing>>
  BY <1>1, <1>2, <1>3 DEF Tracking, PendingShape, Held, SameConfig, Advances
<1>4. CASE Settle
  <2>1. pending' = NoPending /\ firing' \subseteq {"current", "outdated"} /\ "current" \notin firing'
    BY <1>4 DEF Settle, Tracking
  <2> QED BY <1>1, <1>2, <2>1, NoPendingFacts DEF Tracking, PendingShape, Held
<1> QED BY <1>3, <1>4

\* A handler that goes on to its next privileged call.
LEMMA TrackingGoesOn ==
  ASSUME Tracking, NEW pc \in EnginePCs \ {"apply", "down"},
         engine' = [engine EXCEPT !.pc = pc], engine.pc # "down",
         pc \in {"commit", "boot"} => ~Held, pc \in {"confirm", "expire"} => Held,
         UNCHANGED <<stored, admin, pending, firing>>
  PROVE  Tracking'
<1>1. engine' \in Engine /\ engine'.pc = pc /\ engine'.current = engine.current
  BY DEF Tracking, Engine
<1> QED BY <1>1 DEF Tracking, PendingShape, Held, SameConfig, Advances

LEMMA TrackingApplies ==
  ASSUME Tracking, NEW body \in Body, NEW id, process_locked(body, id)
  PROVE  Tracking'
<1> DEFINE c == [revision |-> engine.current.revision + 1, body |-> body, stamped |-> FALSE]
<1>1. engine.pc = "idle" /\ engine.current \in Config /\ engine.current.revision < MaxRevision
  BY DEF process_locked, Tracking, Engine
<1>2. c \in Config
  BY SMT, <1>1, ConfigFacts, ProtocolAssumption DEF Config
<1>3. engine' = [engine EXCEPT !.pc = "apply", !.candidate = c, !.tx = "none"]
  BY DEF process_locked
<1>4. Advances(c) BY <1>1 DEF Tracking, SameConfig, Advances
<1> HIDE DEF c
<1>5. /\ engine' \in Engine /\ engine'.pc = "apply" /\ engine'.candidate = c
      /\ engine'.current = engine.current
  BY <1>2, <1>3, ConfigFacts DEF Tracking, Engine, EnginePCs, TxStates
<1>6. pending = NoPending /\ UNCHANGED <<stored, admin, pending, firing>>
  BY DEF process_locked
<1> QED BY <1>1, <1>4, <1>5, <1>6, NoPendingFacts
        DEF Tracking, PendingShape, Held, SameConfig, Advances

LEMMA TrackingApplied == Tracking /\ apply_answered => Tracking'
<1> SUFFICES ASSUME Tracking, apply_answered PROVE Tracking'
  OBVIOUS
<1>1. engine.pc = "apply" /\ engine \in Engine /\ UNCHANGED <<stored, admin, firing>>
  BY DEF apply_answered, Answered, Tracking
<1>2. CASE Succeeded /\ call.req.require_confirmation
  <2>1. /\ pending' = [NoPending EXCEPT !.timer = TRUE, !.candidate = engine.candidate,
                                       !.previous = engine.current]
        /\ Return([engine EXCEPT !.tx = "AwaitingConfirmation"])
    BY <1>2 DEF apply_answered, Succeeded
  <2>2. engine' \in Engine /\ engine'.pc = "idle" /\ engine'.current = engine.current
    BY <1>1, <2>1, ConfigFacts DEF Return, Engine, EnginePCs, TxStates
  <2>3. engine.candidate \in OptConfig /\ engine.current \in Config
    BY <1>1 DEF Engine
  <2>4. /\ pending' = [candidate |-> engine.candidate, previous |-> engine.current,
                       timer |-> TRUE, rollback_attempts |-> 0,
                       canonical_committed |-> FALSE, finalize |-> 0]
    BY <2>1 DEF NoPending
  <2>5. PendingShape' = [candidate : OptConfig, previous : OptConfig, timer : BOOLEAN,
                         rollback_attempts : 0..MaxRollbackAttempts,
                         canonical_committed : BOOLEAN, finalize : {pending'.finalize}]
    BY DEF PendingShape
  <2>6. pending' \in PendingShape'
    BY SMT, <2>3, <2>4, <2>5, ConfigFacts, EngineAssumption
  <2>7. Advances(engine.candidate) /\ SameConfig(engine.current, stored)
    BY <1>1 DEF Tracking
  <2>8. engine.candidate.revision # 0
    BY SMT, <2>7, ConfigFacts DEF Advances, Tracking
  <2>9. /\ Held' /\ ~pending'.canonical_committed
        /\ Advances(pending.candidate)' /\ SameConfig(pending.previous, stored)'
    BY <1>1, <2>4, <2>7, <2>8 DEF Held, Advances, SameConfig
  <2>10. SameConfig(engine.current, stored)'
    BY <1>1, <2>2, <2>7 DEF SameConfig
  <2> QED BY <1>1, <2>2, <2>6, <2>9, <2>10 DEF Tracking
<1>3. CASE Succeeded /\ ~call.req.require_confirmation
  <2>1. engine' = [engine EXCEPT !.pc = "commit"] /\ UNCHANGED pending
    BY <1>3 DEF apply_answered, Succeeded
  <2>2. ~Held BY <1>1 DEF Tracking
  <2> QED BY <1>1, <2>1, <2>2, TrackingGoesOn DEF EnginePCs
<1>4. CASE ~Succeeded
  <2>1. PICK e \in {[engine EXCEPT !.tx = "RolledBack"], [engine EXCEPT !.tx = "Rejected"],
                    RequireRecovery} : Return(e) /\ UNCHANGED pending
    BY <1>4 DEF apply_answered, Succeeded
  <2>2. e \in Engine /\ e.current = engine.current
    BY <1>1, <2>1, Results DEF TxStates
  <2> QED BY <1>1, <2>1, <2>2, TrackingReturns
<1> QED BY <1>2, <1>3, <1>4

LEMMA TrackingCommits ==
  ASSUME Tracking, NEW id, commit_config(id)
  PROVE  Tracking'
<1> DEFINE c == engine.candidate
<1>1. /\ engine.pc = "commit" /\ engine \in Engine /\ ~Held /\ pending = NoPending
      /\ UNCHANGED <<pending, firing>>
  BY DEF commit_config, Tracking
<1>2. CASE Advances(c) /\ stored' = [c EXCEPT !.stamped = ~admin] /\ admin' = TRUE
             /\ engine' = [engine EXCEPT !.pc = "ack", !.current = c]
  <2>1. c \in Config
    BY SMT, <1>1, <1>2, ConfigFacts DEF Tracking, Engine, Advances
  <2>2. (~admin) \in BOOLEAN OBVIOUS
  <2>3. stored' \in Config /\ SameConfig(c, stored')
    BY <1>2, <2>1, <2>2, ConfigFacts DEF SameConfig
  <2> HIDE DEF c
  <2>4. engine' \in Engine /\ engine'.pc = "ack" /\ engine'.current = c
    BY <1>1, <1>2, <2>1 DEF Engine, EnginePCs
  <2>5. admin' \in BOOLEAN BY <1>2
  <2>6. ~Held' /\ pending' = NoPending /\ pending' \in PendingShape'
    BY <1>1, NoPendingFacts DEF Held, PendingShape
  <2>7. firing' \subseteq {"current", "outdated"} /\ "current" \notin firing'
    BY <1>1 DEF Tracking
  <2> QED BY <2>3, <2>4, <2>5, <2>6, <2>7 DEF Tracking
<1>3. CASE UNCHANGED <<stored, admin>> /\ engine' = [engine EXCEPT !.pc = "undo"]
  BY <1>1, <1>3, TrackingGoesOn DEF EnginePCs
<1> QED BY <1>2, <1>3 DEF commit_config

\* The pending record p' keeps what is pending in p.
Keeps == /\ pending' \in PendingShape' /\ pending'.candidate = pending.candidate
         /\ pending'.previous = pending.previous
         /\ pending'.canonical_committed = pending.canonical_committed

\* A change in the pending record that keeps what is pending.
LEMMA TrackingKeepsPending ==
  ASSUME Tracking, Held, NEW pc \in EnginePCs \ {"apply", "commit", "boot", "down"},
         engine' \in Engine, engine'.pc = pc, engine'.current = engine.current,
         engine.pc # "down", UNCHANGED <<stored, admin>>,
         firing' \subseteq firing \cup {"current"}, Keeps
  PROVE  Tracking'
<1> USE DEF Keeps
<1>1. Held' BY DEF Held
<1>2. SameConfig(engine.current, stored)' BY DEF Tracking, SameConfig
<1>3. IF pending'.canonical_committed
      THEN SameConfig(pending.candidate, stored)'
      ELSE Advances(pending.candidate)' /\ SameConfig(pending.previous, stored)'
  BY DEF Tracking, SameConfig, Advances
<1>4. /\ stored' \in Config /\ admin' \in BOOLEAN
      /\ firing' \subseteq {"current", "outdated"}
  BY DEF Tracking
<1> QED BY <1>1, <1>2, <1>3, <1>4 DEF Tracking

\* The changes the handlers make to a pending record.
LEMMA PendingUpdates ==
  ASSUME pending \in PendingShape
  PROVE  /\ \A t \in BOOLEAN : pending' = [pending EXCEPT !.timer = t] => Keeps
         /\ \A f : pending' = [pending EXCEPT !.finalize = f] => Keeps
         /\ pending.rollback_attempts # MaxRollbackAttempts
            /\ pending' = [pending EXCEPT !.rollback_attempts = @ + 1] => Keeps
         /\ pending' = [pending EXCEPT !.canonical_committed = TRUE, !.timer = FALSE] =>
              /\ pending' \in PendingShape' /\ pending'.candidate = pending.candidate
              /\ pending'.canonical_committed
<1> USE DEF PendingShape, Keeps
<1>1. ASSUME NEW t \in BOOLEAN, pending' = [pending EXCEPT !.timer = t] PROVE Keeps
  BY <1>1
<1>2. ASSUME NEW f, pending' = [pending EXCEPT !.finalize = f] PROVE Keeps
  BY <1>2
<1>3. ASSUME pending.rollback_attempts # MaxRollbackAttempts,
             pending' = [pending EXCEPT !.rollback_attempts = @ + 1]
      PROVE  Keeps
  <2>1. pending.rollback_attempts + 1 \in 0..MaxRollbackAttempts
    BY SMT, <1>3, EngineAssumption
  <2> QED BY <1>3, <2>1
<1>4. ASSUME pending' = [pending EXCEPT !.canonical_committed = TRUE, !.timer = FALSE]
      PROVE  /\ pending' \in PendingShape' /\ pending'.candidate = pending.candidate
             /\ pending'.canonical_committed
  BY <1>4
<1> HIDE DEF PendingShape, Keeps
<1> QED BY <1>1, <1>2, <1>3, <1>4

LEMMA TrackingConfirms ==
  ASSUME Tracking, NEW id, confirm_locked(id)
  PROVE  Tracking'
<1> DEFINE c == pending.candidate
<1>1. /\ engine.pc = "idle" /\ engine \in Engine /\ Held /\ pending \in PendingShape
      /\ UNCHANGED <<admin, firing>>
  BY DEF confirm_locked, Tracking
<1>2. CASE Advances(c) /\ stored' = c
             /\ pending' = [pending EXCEPT !.canonical_committed = TRUE, !.timer = FALSE]
             /\ engine' = [engine EXCEPT !.pc = "confirm", !.current = c]
  <2>1. c \in Config
    BY <1>1, ConfigFacts DEF Held, PendingShape
  <2>2. /\ pending' \in PendingShape' /\ pending'.candidate = c /\ pending'.canonical_committed
    BY <1>1, <1>2, PendingUpdates
  <2> HIDE DEF c
  <2>3. engine' \in Engine /\ engine'.pc = "confirm" /\ engine'.current = c
    BY <1>1, <1>2, <2>1 DEF Engine, EnginePCs
  <2>4. Held' BY <1>1, <2>2 DEF Held, c
  <2>5. SameConfig(engine.current, stored)' /\ SameConfig(pending.candidate, stored)'
    BY <1>2, <2>2, <2>3 DEF SameConfig
  <2>6. /\ stored' \in Config /\ admin' \in BOOLEAN
        /\ firing' \subseteq {"current", "outdated"}
    BY <1>1, <1>2, <2>1 DEF Tracking
  <2> QED BY <2>2, <2>3, <2>4, <2>5, <2>6 DEF Tracking
<1>3. CASE UNCHANGED <<stored, pending>>
             /\ engine' = [engine EXCEPT !.tx = "RecoveryRequired"]
  <2>1. engine' \in Engine /\ engine'.pc = engine.pc /\ engine'.current = engine.current
    BY <1>1, <1>3 DEF Engine, TxStates
  <2> QED BY <1>1, <1>3, <2>1 DEF Tracking, PendingShape, Held, SameConfig, Advances
<1>4. CASE UNCHANGED <<stored, pending>> /\ engine' = [engine EXCEPT !.pc = "confirm"]
  BY <1>1, <1>4, TrackingGoesOn DEF EnginePCs
<1> QED BY <1>2, <1>3, <1>4 DEF confirm_locked

LEMMA TrackingConfirmed ==
  ASSUME Tracking, NEW id, confirm_answered(id)
  PROVE  Tracking'
<1>1. /\ engine.pc = "confirm" /\ engine \in Engine /\ Held /\ pending \in PendingShape
      /\ UNCHANGED <<stored, admin>>
  BY DEF confirm_answered, Answered, Tracking
<1>2. CASE LanChanged /\ Succeeded /\ engine' = [engine EXCEPT !.pc = "finalize"]
  <2>1. PICK f : pending' = [pending EXCEPT !.finalize = f] /\ UNCHANGED firing
    BY <1>2, <1>1, Results DEF confirm_answered, Return, Engine
  <2>2. engine' \in Engine /\ engine'.pc = "finalize" /\ engine'.current = engine.current
    BY <1>1, <1>2 DEF Engine, EnginePCs
  <2> QED BY <1>1, <2>1, <2>2, PendingUpdates, TrackingKeepsPending DEF EnginePCs
<1>3. CASE Settle /\ Return(Resolved("Committed"))
  BY <1>1, <1>3, Results, TrackingReturns DEF TxStates
<1>4. CASE Return(RequireRecovery) /\ UNCHANGED <<pending, firing>>
  BY <1>1, <1>4, Results, TrackingReturns
<1> QED BY <1>2, <1>3, <1>4 DEF confirm_answered

LEMMA TrackingTimer == Tracking /\ TimerFires => Tracking'
<1> SUFFICES ASSUME Tracking, TimerFires PROVE Tracking'
  OBVIOUS
<1>1. /\ engine \in Engine /\ engine.pc # "down" /\ pending \in PendingShape /\ pending.timer
      /\ UNCHANGED <<stored, admin, engine>> /\ firing' = firing \cup {"current"}
      /\ pending' = [pending EXCEPT !.timer = FALSE]
  BY DEF TimerFires, Tracking
<1>2. Held BY <1>1, NoPendingFacts DEF Tracking
<1>3. engine.pc \in EnginePCs \ {"apply", "commit", "boot", "down"}
  BY <1>1, <1>2 DEF Tracking, Engine
<1>4. Keeps BY <1>1, PendingUpdates
<1> QED BY <1>1, <1>2, <1>3, <1>4, TrackingKeepsPending

LEMMA TrackingExpires ==
  ASSUME Tracking, NEW timer \in firing, NEW id, rollback_expired(timer, id)
  PROVE  Tracking'
<1>1. /\ engine.pc = "idle" /\ engine \in Engine /\ pending \in PendingShape
      /\ UNCHANGED <<stored, admin>> /\ firing' = firing \ {timer}
      /\ firing \subseteq {"current", "outdated"}
  BY DEF rollback_expired, Tracking
<1>2. CASE UNCHANGED <<engine, pending>>
  BY <1>1, <1>2 DEF Tracking, PendingShape, Held, SameConfig, Advances
<1>3. CASE timer # "outdated" /\ engine' = RequireRecovery /\ pending' = NoPending
  <2>1. engine' \in Engine /\ engine'.pc = "idle" /\ engine'.current = engine.current
    BY <1>1, <1>3, Results
  <2>2. "current" \notin firing' /\ firing' \subseteq {"current", "outdated"}
    BY <1>1, <1>3
  <2> QED BY <1>1, <1>3, <2>1, <2>2, NoPendingFacts
          DEF Tracking, PendingShape, Held, SameConfig
<1>4. CASE /\ timer # "outdated" /\ pending.rollback_attempts # MaxRollbackAttempts
           /\ engine' = [engine EXCEPT !.pc = "expire"]
           /\ pending' = [pending EXCEPT !.rollback_attempts = @ + 1]
  <2>1. Held BY <1>1, <1>4 DEF Tracking
  <2>2. engine' \in Engine /\ engine'.pc = "expire" /\ engine'.current = engine.current
    BY <1>1, <1>4 DEF Engine, EnginePCs
  <2>3. Keeps BY <1>1, <1>4, PendingUpdates
  <2> QED BY <1>1, <2>1, <2>2, <2>3, TrackingKeepsPending DEF EnginePCs
<1> QED BY <1>2, <1>3, <1>4 DEF rollback_expired

LEMMA TrackingExpired == Tracking /\ expire_answered => Tracking'
<1> SUFFICES ASSUME Tracking, expire_answered PROVE Tracking'
  OBVIOUS
<1>1. /\ engine.pc = "expire" /\ engine \in Engine /\ Held /\ pending \in PendingShape
      /\ UNCHANGED <<stored, admin>>
  BY DEF expire_answered, Answered, Tracking
<1>2. CASE Settle /\ Return(Resolved("RolledBack"))
  BY <1>1, <1>2, Results, TrackingReturns DEF TxStates
<1>3. CASE /\ pending' = [pending EXCEPT !.timer = TRUE] /\ UNCHANGED firing
           /\ Return([engine EXCEPT !.tx = "RecoveryRequired"])
  <2>1. engine' \in Engine /\ engine'.pc = "idle" /\ engine'.current = engine.current
    BY <1>1, <1>3, ConfigFacts DEF Return, Engine, EnginePCs, TxStates
  <2>2. Keeps BY <1>1, <1>3, PendingUpdates
  <2> QED BY <1>1, <1>3, <2>1, <2>2, TrackingKeepsPending DEF EnginePCs
<1> QED BY <1>2, <1>3 DEF expire_answered

\* The handlers that only wait for an answer and return.
LEMMA TrackingAnswered ==
  Tracking /\ (undo_answered \/ ack_answered \/ finalize_answered \/ reconcile_answered) => Tracking'
<1> SUFFICES ASSUME Tracking,
                    undo_answered \/ ack_answered \/ finalize_answered \/ reconcile_answered
             PROVE  Tracking'
  OBVIOUS
<1>1. engine \in Engine /\ engine.pc # "down" /\ UNCHANGED <<stored, admin>>
  BY DEF Tracking, undo_answered, ack_answered, finalize_answered, reconcile_answered, Answered
<1>2. \E e \in Engine : e.current = engine.current /\ Return(e)
  <2>1. CASE undo_answered \/ ack_answered
    BY <1>1, <2>1, Results DEF undo_answered, ack_answered, TxStates
  <2>2. CASE finalize_answered
    BY <1>1, <2>2, Results DEF finalize_answered, TxStates
  <2>3. CASE reconcile_answered
    <3>1. engine.tx \in TxStates BY <1>1 DEF Engine
    <3> QED BY <1>1, <2>3, <3>1, Results DEF reconcile_answered, TxStates
  <2> QED BY <2>1, <2>2, <2>3
<1>3. UNCHANGED <<pending, firing>> \/ Settle
  BY DEF undo_answered, ack_answered, finalize_answered, reconcile_answered
<1> QED BY <1>1, <1>2, <1>3, TrackingReturns

LEMMA TrackingBoots ==
  ASSUME Tracking, NEW id, boot(id) \/ boot_answered
  PROVE  Tracking'
<1>1. engine \in Engine /\ ~Held /\ UNCHANGED <<stored, admin, pending, firing>>
  BY DEF Tracking, boot, boot_answered, Answered
<1>2. stored \in Config BY DEF Tracking
<1>3. CASE boot(id)
  <2>1. PICK pc \in {"idle", "boot"} : engine' = [Fresh(engine) EXCEPT !.pc = pc]
    BY <1>3 DEF boot
  <2>2. engine' \in Engine /\ engine'.pc \in {"idle", "boot"} /\ engine'.current = stored
    BY <1>1, <1>2, <2>1, ConfigFacts DEF Fresh, Engine, EnginePCs, TxStates
  <2> QED BY <1>1, <2>2 DEF Tracking, PendingShape, Held, SameConfig
<1>4. CASE boot_answered
  <2>1. PICK pc \in {"idle", "down"} : engine' = [engine EXCEPT !.pc = pc]
    BY <1>4 DEF boot_answered
  <2>2. engine' \in Engine /\ engine'.pc \in {"idle", "down"} /\ engine'.current = engine.current
    BY <1>1, <2>1 DEF Engine, EnginePCs
  <2>3. SameConfig(engine.current, stored)
    BY <1>4 DEF Tracking, boot_answered, Answered
  <2> QED BY <1>1, <2>2, <2>3 DEF Tracking, PendingShape, Held, SameConfig
<1> QED BY <1>3, <1>4

LEMMA TrackingIdles ==
  ASSUME Tracking, NEW id, Reject \/ reconcile(id)
  PROVE  Tracking'
<1>1. engine \in Engine /\ engine.pc = "idle" /\ UNCHANGED <<stored, admin, pending, firing>>
  BY DEF Tracking, Reject, reconcile
<1>2. CASE Reject
  <2>1. engine' \in Engine /\ engine'.pc = "idle" /\ engine'.current = engine.current
    BY <1>1, <1>2 DEF Reject, Engine, TxStates
  <2> QED BY <1>1, <2>1 DEF Tracking, PendingShape, Held, SameConfig, Advances
<1>3. CASE reconcile(id)
  BY <1>1, <1>3, TrackingGoesOn DEF reconcile, EnginePCs
<1> QED BY <1>2, <1>3

LEMMA TrackingNext == Tracking /\ [Next]_vars => Tracking'
<1> SUFFICES ASSUME Tracking, [Next]_vars PROVE Tracking'
  OBVIOUS
<1>1. CASE UNCHANGED engineVars
  BY <1>1, TrackingStutters DEF trackedVars
<1>2. CASE ServiceStart
  BY <1>2, TrackingStutters DEF trackedVars, ServiceStart
<1>3. CASE FailsClosed \/ PowerLoss \/ EngineCrash
  BY <1>3, TrackingHalts DEF FailsClosed, PowerLoss, EngineCrash
<1>4. CASE Transport \/ DeadlinePasses
  BY <1>4, TrackingStutters
  DEF trackedVars, Transport, Send, ConnectFails, ConnectionLost, DeadlinePasses
<1>5. CASE EngineStep(FreshId)
  BY <1>5, TrackingIdles, TrackingApplies, TrackingConfirms, TrackingTimer, TrackingExpires,
     TrackingApplied, TrackingCommits, TrackingAnswered, TrackingConfirmed, TrackingExpired,
     TrackingBoots
  DEF EngineStep, EngineContinues
<1>6. CASE boot(FreshId)
  BY <1>6, TrackingBoots
<1> QED BY <1>1, <1>2, <1>3, <1>4, <1>5, <1>6 DEF Next, Respawn, vars

\* EngineTracksCanonical holds of every run of the two processes: the engine's
\* current configuration is the one SQLite holds, a pending candidate is the
\* next revision (or, once confirmed, the stored one) and the configuration a
\* timeout restores is the canonical one.
THEOREM TracksCanonical == Spec => []EngineTracksCanonical
<1>1. Init => Tracking BY TrackingInit
<1>2. Tracking /\ [Next]_vars => Tracking' BY TrackingNext
<1>3. Tracking => EngineTracksCanonical
  <2>1. pending # NoPending /\ Tracking => Held BY DEF Tracking
  <2> QED BY <2>1 DEF Tracking, EngineTracksCanonical
<1> QED BY <1>1, <1>2, <1>3, PTL DEF Spec

-----------------------------------------------------------------------------
(***************************************************************************)
(* OfflineRecovery. FenceCoversState is about the appliance as the fence   *)
(* finds it; the invariant adds which lock and which fence hold at each    *)
(* step (LocksHeld), what the steps already taken have made true whatever  *)
(* the console does meanwhile (StepsDone), and that nobody holds a row     *)
(* ahead of the store (CopiesBehind).                                      *)
(***************************************************************************)

Migrations == [at : MigrationSteps, att : Attempts \union {NoAttempt}]

RecoveryTyped ==
  /\ configRow \in Rows /\ held \in Rows
  /\ restore \in Seq(Rows) /\ Len(restore) <= SNAPSHOT_RETENTION_PER_KIND
  /\ helperLastGood \in Configs
  /\ leftover \subseteq Leftovers
  /\ fence \in Attempts \union {NoAttempt} /\ unsynced \in Attempts \union {NoAttempt}
  /\ mig \in Migrations
  /\ up \subseteq {"routerd", "router-applyd"}
  /\ console \in Rows \union {NoConsole}
  /\ author \in {"daemon", "console", "migration"} /\ edited \in BOOLEAN
  /\ breaks \in 0 .. MaxBreaks

(* A row is known by its revision: whoever holds a copy of the newest revision
   holds the newest row, and no copy is ahead of it. *)
CopiesBehind ==
  /\ held.rev <= configRow.rev /\ (held.rev = configRow.rev => held = configRow)
  /\ console.rev <= configRow.rev /\ (console.rev = configRow.rev => console = configRow)
  /\ \A p \in Range(restore) : p.rev <= configRow.rev
  /\ console # NoConsole => console.rev < MaxRow
  /\ leftover # {} => held.rev < MaxRow
  /\ "routerd" \in up /\ author = "migration" => held = configRow

NextRow(att) == att.target.rev = att.original.rev + 1

Fenced == {"fenced", "committed", "written", "cleaned", "verified"}

(* Where the locks and the fence stand at each step of the migration. *)
LocksHeld ==
  /\ mig.at # "idle" => up = {} /\ mig.att # NoAttempt
  /\ mig.at = "idle" => mig.att = NoAttempt
  /\ mig.at \in Fenced => fence = mig.att
  /\ mig.at \in {"journaled", "unfenced"} => fence = NoAttempt
  /\ fence # NoAttempt => up = {} /\ unsynced = NoAttempt /\ NextRow(fence)
  /\ unsynced # NoAttempt => mig.at \in {"idle", "unfenced"} /\ NextRow(unsynced)
  /\ mig.att # NoAttempt => NextRow(mig.att)

(* How far the migration has come at each of its steps, whatever the console
   does to the store meanwhile. *)
StepsDone ==
  /\ mig.at = "journaled" /\ ~edited =>
       /\ configRow = mig.att.original /\ helperLastGood = mig.att.helper.good
       /\ leftover = mig.att.helper.left
  /\ mig.at \in {"committed", "written", "cleaned", "verified"} =>
       configRow = mig.att.target \/ (edited /\ author = "console")
  /\ mig.at \in {"written", "cleaned", "verified"} => helperLastGood = mig.att.target.cfg
  /\ mig.at \in {"cleaned", "verified"} => leftover = {}
  /\ unsynced # NoAttempt /\ ~edited =>
       configRow = unsynced.target /\ helperLastGood = unsynced.target.cfg /\ leftover = {}

WholeUnfenced ==
  fence = NoAttempt /\ author = "migration" =>
    helperLastGood = configRow.cfg /\ \A j \in leftover : j.base >= configRow.rev

RecoveryInv ==
  /\ RecoveryTyped /\ CopiesBehind /\ LocksHeld /\ StepsDone /\ WholeUnfenced /\ FenceCoversState

LEMMA RowParts ==
  ASSUME NEW r \in Rows
  PROVE  r.rev \in 1 .. MaxRow + 1 /\ r.rev \in Nat /\ r.rev # 0 /\ r.cfg \in Configs /\ r # NoConsole
BY SMT, RecoveryAssumption DEF Rows, NoConsole, NoConfigRow

LEMMA AttemptParts ==
  ASSUME NEW a \in Attempts
  PROVE  /\ a.input \in Configs /\ a.original \in Rows /\ a.target \in Rows
         /\ a.helper.good \in Configs /\ a.helper.left \in SUBSET Leftovers /\ a # NoAttempt
<1>1. a.original \in Rows
  BY DEF Attempts
<1>2. a # NoAttempt
  BY SMT, <1>1, RowParts DEF NoAttempt, NoConsole
<1> QED
  BY <1>2 DEF Attempts

\* The sequence with e after its first k elements.
Inserted(s, k, e) == SubSeq(s, 1, k) \o <<e>> \o SubSeq(s, k + 1, Len(s))

LEMMA InsertIs ==
  ASSUME NEW S, NEW s \in Seq(S), NEW k \in 0 .. Len(s), NEW e \in S,
         NEW all, all = Inserted(s, k, e)
  PROVE  /\ all \in Seq(S) /\ Len(all) = Len(s) + 1 /\ all[k + 1] = e
         /\ Range(all) \subseteq Range(s) \union {e}
<1> DEFINE n == Len(s)
           front == SubSeq(s, 1, k)
           back == SubSeq(s, k + 1, n)
           head == front \o <<e>>
<1>1. n \in Nat /\ k \in Nat /\ k <= n
  BY SMT
<1>2. /\ front \in Seq(S) /\ Len(front) = k
      /\ \A i \in 1 .. k : front[i] = s[i]
  <2>1. 1 \in Int /\ k \in Int /\ \A i \in 1 .. k : s[i] \in S
    BY SMT, <1>1
  <2>2. /\ front \in Seq(S) /\ Len(front) = (IF 1 <= k THEN k - 1 + 1 ELSE 0)
        /\ \A i \in 1 .. k - 1 + 1 : front[i] = s[1 + i - 1]
    BY SMT, <2>1, SubSeqProperties
  <2> QED
    BY SMT, <1>1, <2>2
<1>3. /\ back \in Seq(S) /\ Len(back) = n - k
      /\ \A i \in 1 .. n - k : back[i] = s[k + i]
  <2>1. k + 1 \in Int /\ n \in Int /\ \A i \in k + 1 .. n : s[i] \in S
    BY SMT, <1>1
  <2>2. /\ back \in Seq(S) /\ Len(back) = (IF k + 1 <= n THEN n - (k + 1) + 1 ELSE 0)
        /\ \A i \in 1 .. n - (k + 1) + 1 : back[i] = s[k + 1 + i - 1]
    BY SMT, <2>1, SubSeqProperties
  <2> QED
    BY SMT, <1>1, <2>2
<1>4. all = head \o back
  BY Zenon DEF Inserted
<1> HIDE DEF front, back
<1>5. /\ head \in Seq(S) /\ Len(head) = k + 1
      /\ \A i \in 1 .. k + 1 : head[i] = IF i <= k THEN front[i] ELSE e
  BY SMT, <1>1, <1>2
<1> HIDE DEF head
<1>6. /\ all \in Seq(S) /\ Len(all) = n + 1
      /\ \A i \in 1 .. n + 1 : all[i] = IF i <= k + 1 THEN head[i] ELSE back[i - (k + 1)]
  <2>1. /\ head \o back \in Seq(S)
        /\ Len(head \o back) = Len(head) + Len(back)
        /\ \A i \in 1 .. Len(head) + Len(back) :
             (head \o back)[i] = IF i <= Len(head) THEN head[i] ELSE back[i - Len(head)]
    BY <1>3, <1>5, ConcatProperties
  <2>2. Len(head) + Len(back) = n + 1 /\ Len(head) = k + 1
    BY SMT, <1>1, <1>3, <1>5
  <2> QED
    BY <1>4, <2>1, <2>2, Zenon
<1>7. ASSUME NEW i \in 1 .. n + 1
      PROVE  all[i] = e \/ \E j \in 1 .. n : all[i] = s[j]
  <2>1. CASE i <= k
    <3>1. all[i] = head[i] /\ i \in 1 .. k + 1 /\ i \in 1 .. k /\ i \in 1 .. n
      BY SMT, <1>1, <1>6, <2>1
    <3> QED
      BY <1>2, <1>5, <2>1, <3>1
  <2>2. CASE i = k + 1
    BY SMT, <1>1, <1>5, <1>6, <2>2
  <2>3. CASE i > k + 1
    <3>1. all[i] = back[i - (k + 1)] /\ i - (k + 1) \in 1 .. n - k
      BY SMT, <1>1, <1>6, <2>3
    <3>2. back[i - (k + 1)] = s[k + (i - (k + 1))] /\ k + (i - (k + 1)) \in 1 .. n
      BY SMTT(30), <1>1, <1>3, <2>3, <3>1
    <3> QED
      BY <3>1, <3>2
  <2> QED
    BY SMT, <1>1, <2>1, <2>2, <2>3
<1>8. all[k + 1] = e
  BY SMT, <1>1, <1>5, <1>6
<1>9. Range(all) \subseteq Range(s) \union {e}
  BY SMT, <1>6, <1>7 DEF Range
<1> QED
  BY <1>6, <1>8, <1>9

(* A restore point is inserted among those there were, and the newest one of all
   is kept however many there were. *)
LEMMA SnapshotIs ==
  ASSUME restore \in Seq(Rows), NEW point \in Rows
  PROVE  /\ create_snapshot(point) \in Seq(Rows)
         /\ Len(create_snapshot(point)) <= SNAPSHOT_RETENTION_PER_KIND
         /\ Range(create_snapshot(point)) \subseteq Range(restore) \union {point}
         /\ (\A p \in Range(restore) : p.rev <= point.rev) => point \in Range(create_snapshot(point))
<1> DEFINE newerSet == {i \in DOMAIN restore : restore[i].rev > point.rev}
           newer == Cardinality(newerSet)
           all == Inserted(restore, newer, point)
           n == Len(restore)
           m == IF Len(all) > SNAPSHOT_RETENTION_PER_KIND THEN SNAPSHOT_RETENTION_PER_KIND ELSE Len(all)
<1>1. newer \in 0 .. n
  <2>1. IsFiniteSet(1 .. n) /\ Cardinality(1 .. n) = n
    <3>1. n \in Nat /\ 1 \in Int /\ n \in Int
      BY SMT
    <3>2. IsFiniteSet(1 .. n) /\ Cardinality(1 .. n) = IF 1 > n THEN 0 ELSE n - 1 + 1
      BY <3>1, FS_Interval
    <3> QED
      BY SMT, <3>1, <3>2
  <2>2. newerSet \subseteq 1 .. n
    BY SMT
  <2>3. newer \in Nat /\ newer <= Cardinality(1 .. n)
    BY <2>1, <2>2, FS_Subset, FS_CardinalityType
  <2> QED
    BY SMT, <2>1, <2>3
<1>2. (\A p \in Range(restore) : p.rev <= point.rev) => newer = 0
  <2> SUFFICES ASSUME \A p \in Range(restore) : p.rev <= point.rev PROVE newer = 0
    OBVIOUS
  <2>0. \A i \in DOMAIN restore : restore[i].rev <= point.rev
    BY DEF Range
  <2>1. \A i \in DOMAIN restore : restore[i].rev \in Nat /\ point.rev \in Nat
    BY SMT, RowParts
  <2>2. newerSet = {}
    BY SMT, <2>0, <2>1
  <2> QED
    BY <2>2, FS_EmptySet
<1> HIDE DEF newer
<1>3. /\ all \in Seq(Rows) /\ Len(all) = n + 1 /\ all[newer + 1] = point
      /\ Range(all) \subseteq Range(restore) \union {point}
  <2>1. all = Inserted(restore, newer, point)
    OBVIOUS
  <2> HIDE DEF all
  <2>2. newer \in 0 .. Len(restore)
    BY <1>1
  <2>3. all \in Seq(Rows)
    BY <2>1, <2>2, InsertIs
  <2>4. Len(all) = Len(restore) + 1
    BY SMT, <2>1, <2>2, InsertIs
  <2>5. all[newer + 1] = point
    BY SMTT(30), <2>1, <2>2, InsertIs
  <2>6. Range(all) \subseteq Range(restore) \union {point}
    BY SMT, <2>1, <2>2, InsertIs
  <2> QED
    BY <2>3, <2>4, <2>5, <2>6
<1> HIDE DEF all
<1>4. create_snapshot(point) = SubSeq(all, 1, m)
  BY DEF create_snapshot, Inserted, all, newer
<1>5. m \in 1 .. n + 1 /\ m <= SNAPSHOT_RETENTION_PER_KIND
  BY SMT, <1>3, RecoveryAssumption
<1> HIDE DEF m
<1>6. /\ SubSeq(all, 1, m) \in Seq(Rows) /\ Len(SubSeq(all, 1, m)) = m
      /\ \A i \in 1 .. m : SubSeq(all, 1, m)[i] = all[i]
  BY SMT, <1>3, <1>5
<1>7. newer = 0 => point \in Range(SubSeq(all, 1, m))
  <2>1. newer = 0 => SubSeq(all, 1, m)[1] = point /\ 1 \in DOMAIN SubSeq(all, 1, m)
    BY SMT, <1>3, <1>5, <1>6
  <2> QED
    BY <2>1 DEF Range
<1>8. Range(SubSeq(all, 1, m)) \subseteq Range(all)
  BY SMT, <1>3, <1>5, <1>6 DEF Range
<1> QED
  BY <1>2, <1>3, <1>4, <1>5, <1>6, <1>7, <1>8

LEMMA RecoveryBegins == RecoveryInit => RecoveryInv
<1> SUFFICES ASSUME RecoveryInit PROVE RecoveryInv
  OBVIOUS
<1>1. configRow \in Rows /\ 0 \in 0 .. MaxBreaks /\ configRow.rev = 1
  <2>1. 1 \in 1 .. MaxRow + 1 /\ 0 \in 0 .. MaxBreaks
    BY SMT, RecoveryAssumption
  <2> QED
    BY <2>1, RecoveryAssumption DEF RecoveryInit, Rows
<1>2. restore \in Seq(Rows) /\ Len(restore) <= SNAPSHOT_RETENTION_PER_KIND /\ Range(restore) = {}
  BY SMT, RecoveryAssumption DEF RecoveryInit, Range
<1>3. RecoveryTyped
  BY <1>1, <1>2, RecoveryAssumption DEF RecoveryInit, RecoveryTyped, Migrations, MigrationSteps, IdleMigration
<1>4. CopiesBehind
  BY SMT, <1>1, <1>2 DEF RecoveryInit, CopiesBehind, NoConsole, NoConfigRow
<1>5. LocksHeld /\ StepsDone /\ WholeUnfenced /\ FenceCoversState
  BY DEF RecoveryInit, LocksHeld, StepsDone, WholeUnfenced, FenceCoversState, IdleMigration, Fenced
<1> QED
  BY <1>3, <1>4, <1>5 DEF RecoveryInv

LEMMA RecoveryNumbers ==
  ASSUME RecoveryTyped
  PROVE  /\ configRow.rev \in Nat /\ configRow.rev # 0 /\ configRow.rev <= MaxRow + 1 /\ configRow.cfg \in Configs
         /\ held.rev \in Nat /\ held.rev <= MaxRow + 1 /\ console.rev \in Nat
         /\ MaxRow \in Nat /\ MaxRow # 0
<1>1. configRow \in Rows /\ held \in Rows /\ (console \in Rows \/ console = NoConsole)
  BY DEF RecoveryTyped
<1>2. console.rev \in Nat
  BY SMT, <1>1, RowParts DEF NoConsole, NoConfigRow
<1> QED
  BY SMT, <1>1, <1>2, RowParts, RecoveryAssumption

LEMMA NextRowTyped ==
  ASSUME NEW r \in Nat, r <= MaxRow, NEW c \in Configs
  PROVE  [rev |-> r + 1, cfg |-> c] \in Rows
<1>1. r + 1 \in 1 .. MaxRow + 1
  BY SMT, RecoveryAssumption
<1> QED
  BY <1>1 DEF Rows

LEMMA StartKeeps ==
  ASSUME RecoveryInv, StartApplyd \/ StartRouterd
  PROVE  RecoveryInv'
<1>1. /\ mig.at = "idle" /\ fence = NoAttempt /\ up \subseteq up' /\ up' \subseteq {"routerd", "router-applyd"}
      /\ UNCHANGED <<configRow, restore, fence, unsynced, mig, console, author, edited, breaks>>
  BY DEF StartApplyd, StartRouterd, acquire_daemon_guard, RecoveryInv, RecoveryTyped
<1>2. \/ UNCHANGED <<held, helperLastGood, leftover>> /\ ("routerd" \in up' => "routerd" \in up)
      \/ held' = configRow /\ helperLastGood' = configRow.cfg /\ leftover' = {}
  BY SMT DEF StartApplyd, StartRouterd
<1>3. RecoveryTyped'
  BY <1>1, <1>2, RecoveryNumbers DEF RecoveryInv, RecoveryTyped
<1>4. CopiesBehind'
  BY SMT, <1>1, <1>2, RecoveryNumbers DEF RecoveryInv, CopiesBehind
<1>5. LocksHeld'
  BY <1>1 DEF RecoveryInv, LocksHeld, NextRow, Fenced
<1>6. StepsDone'
  BY <1>1, <1>2 DEF RecoveryInv, StepsDone
<1>7. WholeUnfenced' /\ FenceCoversState'
  BY <1>1, <1>2 DEF RecoveryInv, WholeUnfenced, FenceCoversState
<1> QED
  BY <1>3, <1>4, <1>5, <1>6, <1>7 DEF RecoveryInv

LEMMA DaemonStopKeeps ==
  ASSUME RecoveryInv, NEW d \in up, StopDaemon(d)
  PROVE  RecoveryInv'
<1>1. /\ up' = up \ {d}
      /\ UNCHANGED <<configRow, restore, helperLastGood, leftover, fence, unsynced, mig, held, console, author,
                     edited, breaks>>
  BY DEF StopDaemon
<1>2. RecoveryTyped' /\ CopiesBehind' /\ StepsDone' /\ WholeUnfenced' /\ FenceCoversState'
  BY SMT, <1>1 DEF RecoveryInv, RecoveryTyped, CopiesBehind, StepsDone, WholeUnfenced, FenceCoversState
<1>3. LocksHeld'
  BY <1>1 DEF RecoveryInv, LocksHeld, NextRow, Fenced
<1> QED
  BY <1>2, <1>3 DEF RecoveryInv

(* No migration runs and no fence stands while both daemons are up. *)
LEMMA UpUnlocked ==
  ASSUME RecoveryInv, up = {"routerd", "router-applyd"}
  PROVE  mig.at = "idle" /\ fence = NoAttempt
BY DEF RecoveryInv, LocksHeld

LEMMA BeginChangeKeeps ==
  ASSUME RecoveryInv, BeginChange
  PROVE  RecoveryInv'
<1>1. /\ up = {"routerd", "router-applyd"} /\ configRow.rev < MaxRow /\ restore' = create_snapshot(held) /\ edited'
      /\ UNCHANGED <<configRow, helperLastGood, fence, unsynced, mig, up, held, console, author, breaks>>
  BY DEF BeginChange
<1>2. PICK left \in SUBSET Journals : leftover' = [name : left, base : {held.rev}]
  BY DEF BeginChange
<1>3. held \in Rows /\ restore \in Seq(Rows) /\ mig.at = "idle" /\ fence = NoAttempt
  BY <1>1, UpUnlocked DEF RecoveryInv, RecoveryTyped
<1>4. RecoveryTyped'
  <2>1. leftover' \subseteq Leftovers
    BY <1>2, <1>3, RowParts DEF Leftovers
  <2>2. edited' \in BOOLEAN
    BY DEF BeginChange
  <2> QED
    BY <1>1, <1>3, <2>1, <2>2, SnapshotIs DEF RecoveryInv, RecoveryTyped
<1>5. CopiesBehind'
  <2>1. \A p \in Range(restore') : p.rev <= configRow.rev
    BY <1>1, <1>3, SnapshotIs DEF RecoveryInv, CopiesBehind
  <2>2. held.rev < MaxRow
    BY SMT, <1>1, RecoveryNumbers DEF RecoveryInv, CopiesBehind
  <2> QED
    BY <1>1, <2>1, <2>2 DEF RecoveryInv, CopiesBehind
<1>6. LocksHeld'
  BY <1>1 DEF RecoveryInv, LocksHeld, NextRow, Fenced
<1>7. StepsDone' /\ FenceCoversState'
  BY <1>1, <1>3 DEF StepsDone, FenceCoversState
<1>8. WholeUnfenced'
  <2>1. author = "migration" => held = configRow
    BY <1>1 DEF RecoveryInv, CopiesBehind
  <2>2. \A j \in leftover' : j.base = held.rev
    BY <1>2
  <2> QED
    BY SMT, <1>1, <2>1, <2>2, RecoveryNumbers DEF RecoveryInv, WholeUnfenced
<1> QED
  BY <1>4, <1>5, <1>6, <1>7, <1>8 DEF RecoveryInv

LEMMA SaveConfigKeeps ==
  ASSUME RecoveryInv, NEW c \in Configs, save_config(c)
  PROVE  RecoveryInv'
<1>1. /\ up = {"routerd", "router-applyd"} /\ leftover # {} /\ leftover' = {}
      /\ UNCHANGED <<restore, fence, unsynced, mig, up, console, breaks>>
  BY DEF save_config
<1>2. mig.at = "idle" /\ fence = NoAttempt
  BY <1>1, UpUnlocked
<1>3. CASE UNCHANGED <<configRow, held, helperLastGood, author, edited>>
  <2>1. RecoveryTyped' /\ CopiesBehind' /\ StepsDone'
    BY <1>1, <1>2, <1>3 DEF RecoveryInv, RecoveryTyped, CopiesBehind, StepsDone
  <2>2. LocksHeld' /\ WholeUnfenced' /\ FenceCoversState'
    BY <1>1, <1>2, <1>3 DEF RecoveryInv, LocksHeld, NextRow, Fenced, WholeUnfenced, FenceCoversState
  <2> QED
    BY <2>1, <2>2 DEF RecoveryInv
<1>4. CASE /\ held.rev = configRow.rev /\ configRow' = [rev |-> held.rev + 1, cfg |-> c] /\ held' = configRow'
           /\ helperLastGood' = c /\ author' = "daemon" /\ edited' = TRUE
  <2>1. configRow' \in Rows /\ configRow'.rev = configRow.rev + 1
    <3>1. held.rev <= MaxRow /\ held.rev \in Nat
      BY SMT, <1>1, RecoveryNumbers DEF RecoveryInv, CopiesBehind
    <3> QED
      BY <1>4, <3>1, NextRowTyped
  <2>2. RecoveryTyped'
    BY <1>1, <1>4, <2>1 DEF RecoveryInv, RecoveryTyped
  <2>3. CopiesBehind'
    <3>1. \A p \in Range(restore) : p.rev \in Nat
      <4>1. \A p \in Range(restore) : p \in Rows
        BY SMT DEF RecoveryInv, RecoveryTyped, Range
      <4> QED
        BY <4>1, RowParts
    <3> QED
      BY SMT, <1>1, <1>4, <2>1, <3>1, RecoveryNumbers DEF RecoveryInv, CopiesBehind
  <2>4. LocksHeld'
    BY <1>1 DEF RecoveryInv, LocksHeld, NextRow, Fenced
  <2>5. StepsDone' /\ WholeUnfenced' /\ FenceCoversState'
    BY <1>1, <1>2, <1>4 DEF StepsDone, WholeUnfenced, FenceCoversState
  <2> QED
    BY <2>2, <2>3, <2>4, <2>5 DEF RecoveryInv
<1> QED
  BY <1>3, <1>4 DEF save_config

LEMMA ConsoleKeeps ==
  ASSUME RecoveryInv, ConsoleStep
  PROVE  RecoveryInv'
<1>1. UNCHANGED <<helperLastGood, leftover, fence, unsynced, mig, up, held, breaks>>
  BY DEF ConsoleStep, latest, restore_snapshot, factory_reset, ConsoleSet, recovery_save_config
<1>2. CASE latest
  <2>1. console' = configRow /\ configRow.rev < MaxRow /\ UNCHANGED <<configRow, restore, author, edited>>
    BY <1>2 DEF latest
  <2>2. RecoveryTyped' /\ CopiesBehind'
    BY SMT, <1>1, <2>1, RecoveryNumbers DEF RecoveryInv, RecoveryTyped, CopiesBehind
  <2>3. LocksHeld' /\ StepsDone'
    BY <1>1, <2>1 DEF RecoveryInv, LocksHeld, NextRow, Fenced, StepsDone
  <2>4. WholeUnfenced' /\ FenceCoversState'
    BY <1>1, <2>1 DEF RecoveryInv, WholeUnfenced, FenceCoversState
  <2> QED
    BY <2>2, <2>3, <2>4 DEF RecoveryInv
<1>3. ASSUME NEW c \in Configs, recovery_save_config(c)
      PROVE  RecoveryInv'
  <2>1. console # NoConsole /\ console' = NoConsole
    BY <1>3 DEF recovery_save_config
  <2>2. LocksHeld'
    BY <1>1 DEF RecoveryInv, LocksHeld, NextRow, Fenced
  <2>3. CASE UNCHANGED <<restore, configRow, author, edited>>
    <3>1. RecoveryTyped' /\ CopiesBehind'
      BY SMT, <1>1, <2>1, <2>3, RecoveryNumbers DEF RecoveryInv, RecoveryTyped, CopiesBehind, NoConsole, NoConfigRow
    <3>2. StepsDone' /\ WholeUnfenced' /\ FenceCoversState'
      BY <1>1, <2>3 DEF RecoveryInv, StepsDone, WholeUnfenced, FenceCoversState
    <3> QED
      BY <2>2, <3>1, <3>2 DEF RecoveryInv
  <2>4. CASE /\ configRow.rev = console.rev /\ restore' = create_snapshot(console)
             /\ configRow' = [rev |-> console.rev + 1, cfg |-> c] /\ author' = "console" /\ edited' = TRUE
    <3>1. console \in Rows /\ console = configRow /\ console.rev < MaxRow
      BY <2>1, <2>4 DEF RecoveryInv, RecoveryTyped, CopiesBehind
    <3>2. configRow' \in Rows /\ configRow'.rev = configRow.rev + 1
      <4>1. console.rev <= MaxRow /\ console.rev \in Nat
        BY SMT, <3>1, RecoveryNumbers DEF RecoveryInv
      <4> QED
        BY <2>4, <4>1, NextRowTyped
    <3>3. RecoveryTyped'
      BY <1>1, <2>1, <2>4, <3>1, <3>2, SnapshotIs DEF RecoveryInv, RecoveryTyped
    <3>4. \A p \in Range(restore') : p.rev \in Nat /\ p.rev <= configRow.rev
      <4>1. \A p \in Range(restore) : p \in Rows
        BY SMT DEF RecoveryInv, RecoveryTyped, Range
      <4>2. Range(restore') \subseteq Range(restore) \union {console}
        BY <2>4, <3>1, SnapshotIs DEF RecoveryInv, RecoveryTyped
      <4> QED
        BY <3>1, <4>1, <4>2, RowParts DEF RecoveryInv, CopiesBehind
    <3>5. CopiesBehind'
      BY SMT, <1>1, <2>1, <2>4, <3>2, <3>4, RecoveryNumbers DEF RecoveryInv, CopiesBehind, NoConsole, NoConfigRow
    <3>6. StepsDone' /\ WholeUnfenced' /\ FenceCoversState'
      BY <1>1, <2>4 DEF RecoveryInv, StepsDone, WholeUnfenced, FenceCoversState
    <3> QED
      BY <2>2, <3>3, <3>5, <3>6 DEF RecoveryInv
  <2> QED
    BY <1>3, <2>3, <2>4 DEF recovery_save_config
<1>4. \A p \in Range(restore) : p.cfg \in Configs
  <2>1. \A p \in Range(restore) : p \in Rows
    BY SMT DEF RecoveryInv, RecoveryTyped, Range
  <2> QED
    BY <2>1, RowParts
<1> QED
  BY <1>2, <1>3, <1>4, RecoveryAssumption DEF ConsoleStep, restore_snapshot, factory_reset, ConsoleSet

(* What the steps of the migration leave alone. *)
LEMMA MigrationLeaves ==
  ASSUME RecoveryInv, UNCHANGED <<restore, up, held, console>>, UNCHANGED configRow, UNCHANGED leftover,
         UNCHANGED author
  PROVE  CopiesBehind'
BY DEF RecoveryInv, CopiesBehind

LEMMA PrepareKeeps ==
  ASSUME RecoveryInv, NEW c \in Configs, PrepareAttempt(c)
  PROVE  RecoveryInv'
<1> DEFINE att == [input |-> c, original |-> configRow, target |-> [rev |-> configRow.rev + 1, cfg |-> c],
                   helper |-> [good |-> helperLastGood, left |-> leftover]]
<1>1. /\ mig.at = "idle" /\ up = {} /\ fence = NoAttempt /\ configRow.rev <= MaxRow
      /\ mig' = [at |-> "journaled", att |-> att] /\ edited' = FALSE /\ unsynced' = NoAttempt
      /\ UNCHANGED <<configRow, helperLastGood, leftover, fence, author, restore, up, held, console, breaks>>
  BY DEF PrepareAttempt, Sound, migrationOnly
<1>2. att \in Attempts
  <2>1. [rev |-> configRow.rev + 1, cfg |-> c] \in Rows
    BY <1>1, RecoveryNumbers, NextRowTyped DEF RecoveryInv
  <2> QED
    BY <2>1 DEF Attempts, RecoveryInv, RecoveryTyped
<1>3. /\ NextRow(att) /\ att.original = configRow /\ att.helper.good = helperLastGood /\ att.helper.left = leftover
      /\ att # NoAttempt
  BY <1>2, AttemptParts DEF NextRow
<1> HIDE DEF att
<1>4. mig'.at = "journaled" /\ mig'.att = att
  BY <1>1
<1>5. RecoveryTyped'
  <2>1. mig' \in Migrations
    BY <1>1, <1>2 DEF Migrations, MigrationSteps
  <2> QED
    BY <1>1, <2>1 DEF RecoveryInv, RecoveryTyped
<1>6. CopiesBehind'
  BY <1>1, MigrationLeaves
<1>7. LocksHeld'
  BY <1>1, <1>3, <1>4 DEF LocksHeld, Fenced
<1>8. StepsDone'
  BY <1>1, <1>3, <1>4 DEF StepsDone
<1>9. WholeUnfenced' /\ FenceCoversState'
  BY <1>1 DEF RecoveryInv, WholeUnfenced, FenceCoversState
<1> QED
  BY <1>5, <1>6, <1>7, <1>8, <1>9 DEF RecoveryInv

LEMMA ResumeKeeps ==
  ASSUME RecoveryInv, NEW c \in Configs, ResumeAttempt(c)
  PROVE  RecoveryInv'
<1>1. /\ mig.at = "idle" /\ up = {} /\ fence # NoAttempt /\ unsynced' = NoAttempt
      /\ mig' = [at |-> "fenced", att |-> fence] \/ mig' = mig
      /\ UNCHANGED <<configRow, helperLastGood, leftover, fence, author, edited, restore, up, held, console, breaks>>
  BY DEF ResumeAttempt, Sound, migrationOnly
<1>2. \/ mig'.at = "fenced" /\ mig'.att = fence
      \/ mig'.at = "idle" /\ mig'.att = NoAttempt
  BY SMT, <1>1 DEF RecoveryInv, LocksHeld
<1>3. RecoveryTyped'
  <2>1. mig' \in Migrations
    BY SMT, <1>1 DEF Migrations, MigrationSteps, RecoveryInv, RecoveryTyped
  <2> QED
    BY <1>1, <2>1 DEF RecoveryInv, RecoveryTyped
<1>4. CopiesBehind'
  BY <1>1, MigrationLeaves
<1>5. LocksHeld'
  BY SMT, <1>1, <1>2 DEF RecoveryInv, LocksHeld, NextRow, Fenced
<1>6. StepsDone'
  BY <1>1, <1>2 DEF StepsDone
<1>7. WholeUnfenced' /\ FenceCoversState'
  BY <1>1 DEF RecoveryInv, WholeUnfenced, FenceCoversState
<1> QED
  BY <1>3, <1>4, <1>5, <1>6, <1>7 DEF RecoveryInv

(* The migration goes on to another step, or ends. *)
LEMMA ToMigrationIs ==
  ASSUME RecoveryTyped, NEW at \in MigrationSteps, ToMigration(at)
  PROVE  mig'.at = at /\ mig'.att = mig.att /\ mig' \in Migrations
BY DEF RecoveryTyped, Migrations, ToMigration

LEMMA EndMigrationIs ==
  ASSUME EndMigration
  PROVE  mig'.at = "idle" /\ mig'.att = NoAttempt /\ mig' \in Migrations
BY DEF EndMigration, IdleMigration, Migrations, MigrationSteps

LEMMA RaiseKeeps ==
  ASSUME RecoveryInv, RaiseFence
  PROVE  RecoveryInv'
<1>1. /\ mig.at = "journaled" /\ fence' = mig.att
      /\ UNCHANGED <<configRow, helperLastGood, leftover, unsynced, author, edited, restore, up, held, console, breaks>>
  BY DEF RaiseFence, Sound, migrationOnly
<1>2. mig'.at = "fenced" /\ mig'.att = mig.att /\ mig' \in Migrations
  BY ToMigrationIs DEF RaiseFence, MigrationSteps, RecoveryInv
<1>3. RecoveryTyped'
  BY <1>1, <1>2 DEF RecoveryInv, RecoveryTyped, Migrations
<1>4. CopiesBehind'
  BY <1>1, MigrationLeaves
<1>5. /\ mig.att # NoAttempt /\ up = {} /\ unsynced = NoAttempt /\ NextRow(mig.att)
  BY <1>1 DEF RecoveryInv, LocksHeld
<1>6. LocksHeld'
  BY <1>1, <1>2, <1>5 DEF LocksHeld, NextRow, Fenced
<1>7. StepsDone' /\ WholeUnfenced'
  BY <1>1, <1>2, <1>5 DEF StepsDone, WholeUnfenced
<1>8. FenceCoversState'
  BY <1>1, <1>5 DEF RecoveryInv, StepsDone, FenceCoversState
<1> QED
  BY <1>3, <1>4, <1>6, <1>7, <1>8 DEF RecoveryInv

(* At the fenced steps the attempt is the fence's, and its rows are a revision
   apart. *)
LEMMA AttemptNow ==
  ASSUME RecoveryInv, mig.at \in Fenced
  PROVE  /\ fence = mig.att /\ fence # NoAttempt /\ up = {} /\ unsynced = NoAttempt
         /\ mig.att \in Attempts /\ mig.att.original \in Rows /\ mig.att.target \in Rows
         /\ mig.att.target.rev = mig.att.original.rev + 1 /\ mig.att.target # mig.att.original
<1>1. /\ fence = mig.att /\ fence # NoAttempt /\ up = {} /\ unsynced = NoAttempt /\ NextRow(mig.att)
  BY DEF RecoveryInv, LocksHeld, Fenced
<1>2. mig.att \in Attempts
  BY <1>1 DEF RecoveryInv, RecoveryTyped
<1>3. mig.att.original \in Rows /\ mig.att.target \in Rows
  BY <1>2, AttemptParts
<1>4. mig.att.original.rev \in Nat /\ mig.att.target.rev \in Nat
  BY <1>3, RowParts
<1> QED
  BY SMT, <1>1, <1>2, <1>3, <1>4 DEF NextRow

LEMMA CommitsKeep ==
  ASSUME RecoveryInv, CommitAttempt \/ WorkerKilled
  PROVE  RecoveryInv'
<1>1. /\ mig.at = "fenced"
      /\ UNCHANGED <<helperLastGood, leftover, fence, unsynced, edited, restore, up, held, console>>
      /\ breaks' \in 0 .. MaxBreaks
  BY SMT, RecoveryAssumption DEF CommitAttempt, WorkerKilled, Sound, Broken, migrationOnly, RecoveryInv, RecoveryTyped
<1>2. /\ fence = mig.att /\ fence # NoAttempt /\ up = {} /\ unsynced = NoAttempt
      /\ mig.att \in Attempts /\ mig.att.original \in Rows /\ mig.att.target \in Rows
      /\ mig.att.target.rev = mig.att.original.rev + 1 /\ mig.att.target # mig.att.original
  BY <1>1, AttemptNow DEF Fenced
<1>3. \/ UNCHANGED <<configRow, author>>
      \/ configRow = mig.att.original /\ configRow' = mig.att.target /\ author' = "migration"
  BY DEF CommitAttempt, WorkerKilled, commit_offline_migration
<1>4. \/ mig'.at = "idle" /\ mig'.att = NoAttempt /\ mig' \in Migrations
      \/ mig'.at = "committed" /\ mig'.att = mig.att /\ mig' \in Migrations /\ configRow' = mig.att.target
  <2>1. CASE EndMigration
    BY <2>1, EndMigrationIs
  <2>2. CASE CommitAttempt /\ Committable /\ ToMigration("committed")
    <3>1. mig'.at = "committed" /\ mig'.att = mig.att /\ mig' \in Migrations
      BY <2>2, ToMigrationIs DEF RecoveryInv, MigrationSteps
    <3>2. configRow' = mig.att.target
      BY <2>2 DEF CommitAttempt, Committable, commit_offline_migration
    <3> QED
      BY <3>1, <3>2
  <2> QED
    BY <2>1, <2>2 DEF CommitAttempt, WorkerKilled
<1>5. RecoveryTyped'
  BY <1>1, <1>2, <1>3, <1>4 DEF RecoveryInv, RecoveryTyped
<1>6. CopiesBehind'
  <2>1. CASE UNCHANGED <<configRow, author>>
    BY <1>1, <2>1 DEF RecoveryInv, CopiesBehind
  <2>2. CASE configRow' = mig.att.target /\ configRow = mig.att.original
    <3>1. configRow'.rev = configRow.rev + 1
      BY <1>2, <2>2
    <3>2. \A p \in Range(restore) : p.rev \in Nat
      <4>1. \A p \in Range(restore) : p \in Rows
        BY SMT DEF RecoveryInv, RecoveryTyped, Range
      <4> QED
        BY <4>1, RowParts
    <3> QED
      BY SMT, <1>1, <1>2, <3>1, <3>2, RecoveryNumbers DEF RecoveryInv, CopiesBehind
  <2> QED
    BY <1>3, <2>1, <2>2
<1>7. LocksHeld'
  BY <1>1, <1>2, <1>4 DEF RecoveryInv, LocksHeld, NextRow, Fenced
<1>8. StepsDone' /\ WholeUnfenced'
  BY <1>1, <1>2, <1>4 DEF StepsDone, WholeUnfenced
<1>9. FenceCoversState'
  BY <1>1, <1>2, <1>3 DEF RecoveryInv, FenceCoversState
<1> QED
  BY <1>5, <1>6, <1>7, <1>8, <1>9 DEF RecoveryInv

LEMMA WriteKeeps ==
  ASSUME RecoveryInv, WriteLastGood
  PROVE  RecoveryInv'
<1>1. /\ mig.at = "committed" /\ helperLastGood' = mig.att.target.cfg
      /\ UNCHANGED <<configRow, leftover, fence, unsynced, author, edited, restore, up, held, console, breaks>>
  BY DEF WriteLastGood, Sound, migrationOnly
<1>2. /\ fence = mig.att /\ fence # NoAttempt /\ up = {} /\ unsynced = NoAttempt
      /\ mig.att \in Attempts /\ mig.att.original \in Rows /\ mig.att.target \in Rows
      /\ mig.att.target.rev = mig.att.original.rev + 1 /\ mig.att.target # mig.att.original
  BY <1>1, AttemptNow DEF Fenced
<1>3. mig'.at = "written" /\ mig'.att = mig.att /\ mig' \in Migrations
  BY ToMigrationIs DEF WriteLastGood, MigrationSteps, RecoveryInv
<1>4. configRow = mig.att.target \/ (edited /\ author = "console")
  BY <1>1 DEF RecoveryInv, StepsDone
<1>5. RecoveryTyped'
  BY <1>1, <1>2, <1>3, RowParts DEF RecoveryInv, RecoveryTyped
<1>6. CopiesBehind'
  BY <1>1, MigrationLeaves
<1>7. LocksHeld'
  BY <1>1, <1>2, <1>3 DEF RecoveryInv, LocksHeld, NextRow, Fenced
<1>8. StepsDone' /\ WholeUnfenced'
  BY <1>1, <1>2, <1>3, <1>4 DEF StepsDone, WholeUnfenced
<1>9. FenceCoversState'
  BY <1>1, <1>2, <1>4 DEF RecoveryInv, FenceCoversState
<1> QED
  BY <1>5, <1>6, <1>7, <1>8, <1>9 DEF RecoveryInv

LEMMA RemoveKeeps ==
  ASSUME RecoveryInv, RemoveJournals
  PROVE  RecoveryInv'
<1>1. /\ mig.at = "written" /\ leftover' \subseteq leftover
      /\ UNCHANGED <<configRow, helperLastGood, fence, unsynced, author, edited, restore, up, held, console, breaks>>
  BY DEF RemoveJournals, Sound, migrationOnly
<1>2. /\ fence = mig.att /\ fence # NoAttempt /\ up = {} /\ unsynced = NoAttempt /\ mig.att \in Attempts
      /\ mig.att.target # mig.att.original
  BY <1>1, AttemptNow DEF Fenced
<1>3. /\ mig'.at \in {"written", "cleaned"} /\ mig'.att = mig.att /\ mig' \in Migrations
      /\ mig'.at = "cleaned" => leftover' = {}
  <2>1. CASE leftover = {}
    BY <2>1, ToMigrationIs DEF RemoveJournals, MigrationSteps, RecoveryInv
  <2>2. CASE leftover # {}
    BY <1>1, <2>2 DEF RemoveJournals, RecoveryInv, RecoveryTyped
  <2> QED
    BY <2>1, <2>2
<1>4. /\ configRow = mig.att.target \/ (edited /\ author = "console")
      /\ helperLastGood = mig.att.target.cfg
  BY <1>1 DEF RecoveryInv, StepsDone
<1>5. RecoveryTyped'
  BY <1>1, <1>3 DEF RecoveryInv, RecoveryTyped
<1>6. CopiesBehind'
  BY <1>1 DEF RecoveryInv, CopiesBehind
<1>7. LocksHeld'
  BY <1>1, <1>2, <1>3 DEF RecoveryInv, LocksHeld, NextRow, Fenced
<1>8. StepsDone' /\ WholeUnfenced'
  BY <1>1, <1>2, <1>3, <1>4 DEF StepsDone, WholeUnfenced
<1>9. FenceCoversState'
  BY <1>1, <1>2, <1>4 DEF RecoveryInv, FenceCoversState
<1> QED
  BY <1>5, <1>6, <1>7, <1>8, <1>9 DEF RecoveryInv

LEMMA VerifyKeeps ==
  ASSUME RecoveryInv, VerifyAttempt \/ StepFails
  PROVE  RecoveryInv'
<1>1. /\ mig.at # "idle" /\ breaks' \in 0 .. MaxBreaks
      /\ UNCHANGED <<configRow, helperLastGood, leftover, fence, unsynced, author, edited, restore, up, held, console>>
  BY SMT, RecoveryAssumption DEF VerifyAttempt, StepFails, Sound, Broken, migrationOnly, RecoveryInv, RecoveryTyped
<1>2. \/ mig'.at = "idle" /\ mig'.att = NoAttempt /\ mig' \in Migrations
      \/ mig.at = "cleaned" /\ mig'.at = "verified" /\ mig'.att = mig.att /\ mig' \in Migrations
  BY ToMigrationIs, EndMigrationIs DEF VerifyAttempt, StepFails, MigrationSteps, RecoveryInv
<1>3. RecoveryTyped'
  BY <1>1, <1>2 DEF RecoveryInv, RecoveryTyped
<1>4. CopiesBehind'
  BY <1>1, MigrationLeaves
<1>5. LocksHeld'
  BY <1>1, <1>2 DEF RecoveryInv, LocksHeld, NextRow, Fenced
<1>6. StepsDone'
  BY <1>1, <1>2 DEF RecoveryInv, StepsDone
<1>7. WholeUnfenced' /\ FenceCoversState'
  BY <1>1 DEF RecoveryInv, WholeUnfenced, FenceCoversState
<1> QED
  BY <1>3, <1>4, <1>5, <1>6, <1>7 DEF RecoveryInv

LEMMA LowerKeeps ==
  ASSUME RecoveryInv, LowerFence
  PROVE  RecoveryInv'
<1>1. /\ mig.at = "verified" /\ fence' = NoAttempt /\ unsynced' = mig.att
      /\ UNCHANGED <<configRow, helperLastGood, leftover, author, edited, restore, up, held, console, breaks>>
  BY DEF LowerFence, Sound, migrationOnly
<1>2. /\ fence = mig.att /\ fence # NoAttempt /\ up = {} /\ mig.att \in Attempts /\ NextRow(mig.att)
  BY <1>1, AttemptNow DEF Fenced, NextRow
<1>3. mig'.at = "unfenced" /\ mig'.att = mig.att /\ mig' \in Migrations
  BY ToMigrationIs DEF LowerFence, MigrationSteps, RecoveryInv
<1>4. /\ configRow = mig.att.target \/ (edited /\ author = "console")
      /\ helperLastGood = mig.att.target.cfg /\ leftover = {}
  BY <1>1 DEF RecoveryInv, StepsDone
<1>5. RecoveryTyped'
  BY <1>1, <1>2, <1>3 DEF RecoveryInv, RecoveryTyped
<1>6. CopiesBehind'
  BY <1>1, MigrationLeaves
<1>7. LocksHeld'
  BY <1>1, <1>2, <1>3 DEF LocksHeld, NextRow, Fenced
<1>8. StepsDone' /\ WholeUnfenced' /\ FenceCoversState'
  BY <1>1, <1>2, <1>3, <1>4 DEF StepsDone, WholeUnfenced, FenceCoversState
<1> QED
  BY <1>5, <1>6, <1>7, <1>8 DEF RecoveryInv

LEMMA SyncKeeps ==
  ASSUME RecoveryInv, SyncFence
  PROVE  RecoveryInv'
<1>1. /\ mig.at = "unfenced" /\ unsynced' = NoAttempt
      /\ UNCHANGED <<configRow, helperLastGood, leftover, fence, author, edited, restore, up, held, console, breaks>>
  BY DEF SyncFence, Sound, migrationOnly
<1>2. mig'.at = "idle" /\ mig'.att = NoAttempt /\ mig' \in Migrations
  BY EndMigrationIs DEF SyncFence
<1>3. RecoveryTyped'
  BY <1>1, <1>2 DEF RecoveryInv, RecoveryTyped
<1>4. CopiesBehind'
  BY <1>1, MigrationLeaves
<1>5. LocksHeld' /\ StepsDone'
  BY <1>1, <1>2 DEF RecoveryInv, LocksHeld, NextRow, Fenced, StepsDone
<1>6. WholeUnfenced' /\ FenceCoversState'
  BY <1>1 DEF RecoveryInv, WholeUnfenced, FenceCoversState
<1> QED
  BY <1>3, <1>4, <1>5, <1>6 DEF RecoveryInv

(* A removed fence that comes back with the power finds the migration finished,
   or the appliance changed since. *)
LEMMA PowerKeeps ==
  ASSUME RecoveryInv, LosePower
  PROVE  RecoveryInv'
<1>1. /\ up' = {} /\ console' = NoConsole /\ unsynced' = NoAttempt /\ breaks' \in 0 .. MaxBreaks
      /\ fence' = fence \/ (unsynced # NoAttempt /\ fence' = unsynced)
      /\ UNCHANGED <<configRow, restore, helperLastGood, leftover, held, author, edited>>
  BY SMT, RecoveryAssumption DEF LosePower, Broken, RecoveryInv, RecoveryTyped
<1>2. mig'.at = "idle" /\ mig'.att = NoAttempt /\ mig' \in Migrations
  BY EndMigrationIs DEF LosePower
<1>3. RecoveryTyped'
  BY <1>1, <1>2 DEF RecoveryInv, RecoveryTyped
<1>4. CopiesBehind'
  BY SMT, <1>1, RecoveryNumbers DEF RecoveryInv, CopiesBehind, NoConsole, NoConfigRow
<1>5. LocksHeld' /\ StepsDone'
  BY <1>1, <1>2 DEF RecoveryInv, LocksHeld, NextRow, Fenced, StepsDone
<1>6. WholeUnfenced'
  BY <1>1 DEF RecoveryInv, WholeUnfenced
<1>7. FenceCoversState'
  <2>1. CASE fence' = fence
    BY <1>1, <2>1 DEF RecoveryInv, FenceCoversState
  <2>2. CASE unsynced # NoAttempt /\ fence' = unsynced
    <3>1. unsynced \in Attempts /\ NextRow(unsynced)
      BY <2>2 DEF RecoveryInv, RecoveryTyped, LocksHeld
    <3>2. unsynced.original.rev \in Nat /\ unsynced.target # unsynced.original
      <4>1. unsynced.original \in Rows
        BY <3>1, AttemptParts
      <4>2. unsynced.original.rev \in Nat
        BY <4>1, RowParts
      <4> QED
        BY SMT, <3>1, <4>2 DEF NextRow
    <3> QED
      BY <1>1, <2>2, <3>2 DEF RecoveryInv, StepsDone, FenceCoversState
  <2> QED
    BY <1>1, <2>1, <2>2
<1> QED
  BY <1>3, <1>4, <1>5, <1>6, <1>7 DEF RecoveryInv

LEMMA RecoveryStep == RecoveryInv /\ [RecoveryNext]_recoveryVars => RecoveryInv'
<1> SUFFICES ASSUME RecoveryInv, [RecoveryNext]_recoveryVars
             PROVE  RecoveryInv'
  OBVIOUS
<1>1. CASE StartApplyd \/ StartRouterd \/ BeginChange
  BY <1>1, StartKeeps, BeginChangeKeeps
<1>2. CASE \E d \in up : StopDaemon(d)
  BY <1>2, DaemonStopKeeps
<1>3. CASE \E c \in Configs : save_config(c) \/ PrepareAttempt(c) \/ ResumeAttempt(c)
  BY <1>3, SaveConfigKeeps, PrepareKeeps, ResumeKeeps
<1>4. CASE ConsoleStep
  BY <1>4, ConsoleKeeps
<1>5. CASE MigrationStep \/ WorkerKilled \/ StepFails \/ LosePower
  BY SMTT(30), <1>5, RaiseKeeps, CommitsKeep, WriteKeeps, RemoveKeeps, VerifyKeeps, LowerKeeps, SyncKeeps, PowerKeeps
     DEF MigrationStep
<1>6. CASE UNCHANGED recoveryVars
  <2>1. /\ configRow' = configRow /\ restore' = restore /\ helperLastGood' = helperLastGood
        /\ leftover' = leftover /\ fence' = fence /\ unsynced' = unsynced /\ mig' = mig /\ up' = up
        /\ held' = held /\ console' = console /\ author' = author /\ edited' = edited /\ breaks' = breaks
    BY <1>6 DEF recoveryVars
  <2>2. RecoveryTyped'
    BY <2>1 DEF RecoveryInv, RecoveryTyped
  <2>3. CopiesBehind'
    BY <2>1 DEF RecoveryInv, CopiesBehind
  <2>4. LocksHeld'
    BY <2>1 DEF RecoveryInv, LocksHeld, NextRow, Fenced
  <2>5. StepsDone'
    BY <2>1 DEF RecoveryInv, StepsDone
  <2>6. WholeUnfenced' /\ FenceCoversState'
    BY <2>1 DEF RecoveryInv, WholeUnfenced, FenceCoversState
  <2> QED
    BY <2>2, <2>3, <2>4, <2>5, <2>6 DEF RecoveryInv
<1> QED
  BY <1>1, <1>2, <1>3, <1>4, <1>5, <1>6 DEF RecoveryNext

(* Through interruptions, reruns, power cuts and console edits at any moment, no
   daemon starts on a half-migrated appliance, and while the fence stands its
   journal explains the state the appliance is in. *)
THEOREM RecoveryIsSound == RecoverySpec => []RecoverySound
<1>1. RecoveryInv => RecoverySound
  <2>1. RecoveryTyped => RecoveryTypeOK
    BY DEF RecoveryTyped, RecoveryTypeOK, Migrations
  <2>2. WholeUnfenced => StartsOnWholeState
    BY DEF WholeUnfenced, StartsOnWholeState, acquire_daemon_guard
  <2> QED
    BY <2>1, <2>2 DEF RecoveryInv, RecoverySound
<1> QED
  BY <1>1, RecoveryBegins, RecoveryStep, PTL DEF RecoverySpec

(* Every new row of the canonical store is built on the row it replaces, one
   revision on, whoever writes it, and the row that a console command replaces
   stays as a restore point. *)
THEOREM RecoveryBuildsOnNewest == RecoverySpec => BuiltOnNewest
<1>1. ASSUME RecoveryInv, [RecoveryNext]_recoveryVars, configRow' # configRow
      PROVE  /\ configRow'.rev = configRow.rev + 1
             /\ \/ configRow = held /\ "routerd" \in up
                \/ configRow = console /\ configRow \in Range(restore')
                \/ mig.att # NoAttempt /\ configRow = mig.att.original
  <2>1. CASE \E c \in Configs : save_config(c)
    <3>1. PICK c \in Configs : save_config(c)
      BY <2>1
    <3>2. held.rev = configRow.rev /\ configRow' = [rev |-> held.rev + 1, cfg |-> c]
      BY <1>1, <3>1 DEF save_config
    <3>3. held = configRow /\ "routerd" \in up
      BY <1>1, <3>1, <3>2 DEF save_config, RecoveryInv, CopiesBehind
    <3>4. configRow'.rev = configRow.rev + 1
      BY <3>2
    <3> QED
      BY <3>3, <3>4
  <2>2. CASE ConsoleStep
    <3>1. PICK c : recovery_save_config(c)
      BY <1>1, <2>2 DEF ConsoleStep, latest, restore_snapshot, factory_reset, ConsoleSet
    <3>2. /\ console # NoConsole /\ console.rev = configRow.rev /\ configRow'.rev = console.rev + 1
          /\ restore' = create_snapshot(console)
      BY SMT, <1>1, <3>1 DEF recovery_save_config
    <3>3. console = configRow /\ console \in Rows /\ restore \in Seq(Rows)
      BY <1>1, <3>2 DEF RecoveryInv, RecoveryTyped, CopiesBehind
    <3>4. configRow \in Range(restore')
      BY <1>1, <3>2, <3>3, SnapshotIs DEF RecoveryInv, CopiesBehind
    <3> QED
      BY <3>2, <3>3, <3>4
  <2>3. CASE CommitAttempt \/ WorkerKilled
    <3>1. mig.at = "fenced" /\ configRow = mig.att.original /\ configRow' = mig.att.target
      BY <1>1, <2>3 DEF CommitAttempt, WorkerKilled, commit_offline_migration
    <3> QED
      BY <1>1, <3>1, AttemptNow DEF Fenced
  <2>4. CASE \/ StartApplyd \/ StartRouterd \/ BeginChange \/ \E d \in up : StopDaemon(d)
             \/ \E c \in Configs : PrepareAttempt(c) \/ ResumeAttempt(c)
             \/ RaiseFence \/ WriteLastGood \/ RemoveJournals \/ VerifyAttempt \/ LowerFence \/ SyncFence
             \/ StepFails \/ LosePower \/ UNCHANGED recoveryVars
    BY <1>1, <2>4 DEF StartApplyd, StartRouterd, BeginChange, StopDaemon, PrepareAttempt, ResumeAttempt,
       RaiseFence, WriteLastGood, RemoveJournals, VerifyAttempt, LowerFence, SyncFence, StepFails, LosePower,
       recoveryVars
  <2> QED
    BY <1>1, <2>1, <2>2, <2>3, <2>4 DEF RecoveryNext, MigrationStep
<1>2. RecoveryInv /\ [RecoveryNext]_recoveryVars =>
        [configRow' # configRow =>
           /\ configRow'.rev = configRow.rev + 1
           /\ \/ configRow = held /\ "routerd" \in up
              \/ configRow = console /\ configRow \in Range(restore')
              \/ mig.att # NoAttempt /\ configRow = mig.att.original]_recoveryVars
  BY <1>1
<1> QED
  BY <1>2, RecoveryBegins, RecoveryStep, PTL DEF RecoverySpec, BuiltOnNewest
=============================================================================
