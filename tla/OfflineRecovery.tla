-------------------------- MODULE OfflineRecovery --------------------------
(***************************************************************************)
(* The root console's ways around the web interface: the offline           *)
(* configuration migration (`router-recovery migrate-config`) with its     *)
(* durable fence, journal and unprivileged SQLite worker, and the console  *)
(* edits of the canonical store (set-wan, set-lan, restore-snapshot,       *)
(* factory-reset), against the two daemons they must not meet half way.    *)
(*                                                                         *)
(* A configuration is a member of Configs.  The canonical store is its     *)
(* newest row, a revision and a configuration; the helper's state is its   *)
(* last-good copy and whether a transaction journal of it is left          *)
(* (pending-confirmation.json, last-transaction.json).  The offline lock   *)
(* is not a variable: the migration holds it exclusively while it is not   *)
(* idle, each daemon holds it shared while it is up.                       *)
(***************************************************************************)
EXTENDS Integers, Sequences, Functions, FiniteSets

CONSTANTS
    Configs,                      \* the valid configurations
    FirstConfig,                  \* the configuration of the first row
    MaxRow,                       \* bound: revisions of the canonical store
    SNAPSHOT_RETENTION_PER_KIND,  \* automatic restore points kept
    MaxBreaks                     \* bound: failed steps, crashes and power cuts

ASSUME RecoveryAssumption ==
    /\ FirstConfig \in Configs
    /\ MaxRow \in Nat \ {0}
    /\ SNAPSHOT_RETENTION_PER_KIND \in Nat \ {0}
    /\ MaxBreaks \in Nat

VARIABLES
    configRow,         \* the newest canonical row: [rev, cfg]
    restore,     \* the automatic restore points, newest revision first
    helperLastGood,    \* the helper's last-good.json: a configuration
    leftover,    \* the helper's transaction journals on disk, each with the
                 \* revision its transaction started from
    fence,       \* pending.json: the attempt it names, or NoAttempt
    unsynced,    \* the attempt whose removed fence is not yet durably gone
    mig,         \* the migration process: [at, att]
    up,          \* the daemons running: a subset of {"routerd", "router-applyd"}
    held,        \* the configuration row routerd's engine holds in memory
    console,     \* the row a console command has read, or NoConsole
    author,      \* who wrote the newest row: "daemon", "console", "migration"
    edited,      \* something else changed the store or the helper's
                 \* state since the attempt's journal
    breaks       \* faults spent

recoveryVars == <<configRow, restore, helperLastGood, leftover, fence, unsynced, mig, up,
                  held, console, author, edited, breaks>>

Rows == [rev: 1 .. MaxRow + 1, cfg: Configs]

Journals == {"pending", "last"}

Leftovers == [name: Journals, base: 1 .. MaxRow + 1]

(* An attempt's backup.json: the operator's input, the exact original row and
   helper state, and the target row derived from them. *)
Attempts == [input: Configs, original: Rows, target: Rows,
             helper: [good: Configs, left: SUBSET Leftovers]]

NoConfigRow == [rev |-> 0, cfg |-> FirstConfig]

NoAttempt == [input |-> FirstConfig, original |-> NoConfigRow, target |-> NoConfigRow,
              helper |-> [good |-> FirstConfig, left |-> {}]]

NoConsole == NoConfigRow

IdleMigration == [at |-> "idle", att |-> NoAttempt]

MigrationSteps == {"idle", "journaled", "fenced", "committed", "written",
                   "cleaned", "verified", "unfenced"}

Sound == UNCHANGED breaks

Broken == breaks < MaxBreaks /\ breaks' = breaks + 1

RecoveryInit ==
    /\ configRow = [rev |-> 1, cfg |-> FirstConfig]
    /\ restore = <<>>
    /\ helperLastGood = FirstConfig
    /\ leftover = {}
    /\ fence = NoAttempt
    /\ mig = IdleMigration
    /\ unsynced = NoAttempt
    /\ up = {"routerd", "router-applyd"}
    /\ held = [rev |-> 1, cfg |-> FirstConfig]
    /\ console = NoConsole
    /\ author = "daemon"
    /\ edited = FALSE
    /\ breaks = 0

-----------------------------------------------------------------------------
(* The daemons.  acquire_daemon_guard runs before any other initialisation:
   a shared lock that an exclusive holder refuses, then the fence check. *)

(* Mutant: the fence is not looked at. *)
daemon_lock_only == mig.at = "idle"

acquire_daemon_guard == mig.at = "idle" /\ fence = NoAttempt

StartApplyd ==
    /\ acquire_daemon_guard
    /\ "router-applyd" \notin up
    /\ up' = up \union {"router-applyd"}
    /\ UNCHANGED <<configRow, restore, helperLastGood, leftover, fence, unsynced, mig, held,
                   console, author, edited, breaks>>

(* routerd loads the newest row and reconciles the helper with it. *)
StartRouterd ==
    /\ acquire_daemon_guard
    /\ "routerd" \notin up /\ "router-applyd" \in up
    /\ up' = up \union {"routerd"}
    /\ held' = configRow
    /\ helperLastGood' = configRow.cfg
    /\ leftover' = {}
    /\ UNCHANGED <<configRow, restore, fence, unsynced, mig, console, author, edited, breaks>>

StopDaemon(d) ==
    /\ d \in up
    /\ up' = up \ {d}
    /\ UNCHANGED <<configRow, restore, helperLastGood, leftover, fence, unsynced, mig, held,
                   console, author, edited, breaks>>

(* A restore point goes before its equals and the newest revisions are kept
   (PRUNE_AUTOMATIC_SNAPSHOTS_SQL). *)
create_snapshot(point) ==
    LET newer == Cardinality({i \in DOMAIN restore : restore[i].rev > point.rev})
        all == SubSeq(restore, 1, newer) \o <<point>> \o SubSeq(restore, newer + 1, Len(restore))
    IN  SubSeq(all, 1, IF Len(all) > SNAPSHOT_RETENTION_PER_KIND
                       THEN SNAPSHOT_RETENTION_PER_KIND ELSE Len(all))

(* A change the helper has applied provisionally: its journals are on disk. *)
BeginChange ==
    /\ up = {"routerd", "router-applyd"} /\ leftover = {}
    /\ configRow.rev < MaxRow
    /\ \E left \in SUBSET Journals :
          left # {} /\ leftover' = [name: left, base: {held.rev}]
    /\ restore' = create_snapshot(held)
    /\ edited' = TRUE
    /\ UNCHANGED <<configRow, helperLastGood, fence, unsynced, mig, up, held, console, author, breaks>>

(* SQLiteStore.save_config: the engine's revision must be the one after the
   newest row's, whatever the engine believed when it started the change. *)
save_config(c) ==
    /\ up = {"routerd", "router-applyd"} /\ leftover # {}
    /\ leftover' = {}
    /\ IF held.rev = configRow.rev
       THEN /\ configRow' = [rev |-> held.rev + 1, cfg |-> c]
            /\ held' = configRow'
            /\ helperLastGood' = c
            /\ author' = "daemon" /\ edited' = TRUE
       ELSE UNCHANGED <<configRow, held, helperLastGood, author, edited>>
    /\ UNCHANGED <<restore, fence, unsynced, mig, up, console, breaks>>

-----------------------------------------------------------------------------
(* The console's edits: Manager.latest reads the newest row, then
   recovery_save_config stores the next one if the revision has not moved,
   with an undo snapshot, in one SQLite transaction.  No lock is taken. *)

latest ==
    /\ console = NoConsole
    /\ configRow.rev < MaxRow
    /\ console' = configRow
    /\ UNCHANGED <<configRow, restore, helperLastGood, leftover, fence, unsynced, mig, up, held, author,
                   edited, breaks>>

recovery_save_config(c) ==
    /\ console # NoConsole
    /\ console' = NoConsole
    /\ IF configRow.rev = console.rev
       THEN /\ restore' = create_snapshot(console)
            /\ configRow' = [rev |-> console.rev + 1, cfg |-> c]
            /\ author' = "console" /\ edited' = TRUE
       ELSE UNCHANGED <<restore, configRow, author, edited>>
    /\ UNCHANGED <<helperLastGood, leftover, fence, unsynced, mig, up, held, breaks>>

(* set_wan and set_lan: another configuration; factory_reset: the first one. *)
ConsoleSet == \E c \in Configs : recovery_save_config(c)

factory_reset == recovery_save_config(FirstConfig)

(* restore_snapshot: the contents of a restore point, as a new revision. *)
restore_snapshot == \E p \in Range(restore) : recovery_save_config(p.cfg)

(* run_command: one command of the console at a time. *)
ConsoleStep == latest \/ restore_snapshot \/ factory_reset \/ ConsoleSet

-----------------------------------------------------------------------------
(* The migration. *)

ToMigration(at) == mig' = [mig EXCEPT !.at = at]

EndMigration == mig' = IdleMigration

migrationOnly == UNCHANGED <<restore, up, held, console>>

(* migrate, up to the journal: the exclusive lock, both daemons stopped, the
   candidate validated, the journal directory synced; without a fence the original row and the helper's
   files are read and written to a new attempt's backup. *)
PrepareAttempt(input) ==
    /\ mig.at = "idle" /\ up = {}
    /\ fence = NoAttempt
    /\ configRow.rev <= MaxRow
    /\ mig' = [at |-> "journaled",
               att |-> [input |-> input, original |-> configRow,
                        target |-> [rev |-> configRow.rev + 1, cfg |-> input],
                        helper |-> [good |-> helperLastGood, left |-> leftover]]]
    /\ edited' = FALSE
    /\ unsynced' = NoAttempt
    /\ Sound
    /\ UNCHANGED <<configRow, helperLastGood, leftover, fence, author>> /\ migrationOnly

RaiseFence ==
    /\ mig.at = "journaled"
    /\ fence' = mig.att
    /\ ToMigration("fenced")
    /\ Sound
    /\ UNCHANGED <<configRow, helperLastGood, leftover, unsynced, author, edited>> /\ migrationOnly

(* migrate with a fence: the same input resumes the journaled attempt, any
   other is refused and the fence retained. *)
ResumeAttempt(input) ==
    /\ mig.at = "idle" /\ up = {}
    /\ fence # NoAttempt
    /\ IF fence.input = input
       THEN mig' = [at |-> "fenced", att |-> fence]
       ELSE UNCHANGED mig
    /\ unsynced' = NoAttempt
    /\ Sound
    /\ UNCHANGED <<configRow, helperLastGood, leftover, fence, author, edited>> /\ migrationOnly

(* commit_offline_migration in the worker: the target that is already there,
   or the original replaced; a store that moved on is refused. *)
commit_offline_migration ==
    IF configRow = mig.att.original
    THEN configRow' = mig.att.target /\ author' = "migration"
    ELSE UNCHANGED <<configRow, author>>

Committable == configRow = mig.att.target \/ configRow = mig.att.original

CommitAttempt ==
    /\ mig.at = "fenced"
    /\ commit_offline_migration
    /\ IF Committable THEN ToMigration("committed") ELSE EndMigration
    /\ Sound
    /\ UNCHANGED <<helperLastGood, leftover, fence, unsynced, edited>> /\ migrationOnly

(* The worker is killed after thirty seconds, or dies: it may have committed. *)
WorkerKilled ==
    /\ mig.at = "fenced"
    /\ commit_offline_migration \/ UNCHANGED <<configRow, author>>
    /\ EndMigration
    /\ Broken
    /\ UNCHANGED <<helperLastGood, leftover, fence, unsynced, edited>> /\ migrationOnly

WriteLastGood ==
    /\ mig.at = "committed"
    /\ helperLastGood' = mig.att.target.cfg
    /\ ToMigration("written")
    /\ Sound
    /\ UNCHANGED <<configRow, leftover, fence, unsynced, author, edited>> /\ migrationOnly

RemoveJournals ==
    /\ mig.at = "written"
    /\ IF leftover = {}
       THEN ToMigration("cleaned") /\ UNCHANGED leftover
       ELSE /\ LET pending == {j \in leftover : j.name = "pending"}
               IN  leftover' = IF pending # {} THEN leftover \ pending ELSE {}
            /\ UNCHANGED mig
    /\ Sound
    /\ UNCHANGED <<configRow, helperLastGood, fence, unsynced, author, edited>> /\ migrationOnly

(* Both copies are read back; then the worker closes the store. *)
VerifyAttempt ==
    /\ mig.at = "cleaned"
    /\ IF configRow = mig.att.target /\ helperLastGood = mig.att.target.cfg
       THEN ToMigration("verified")
       ELSE EndMigration
    /\ Sound
    /\ UNCHANGED <<configRow, helperLastGood, leftover, fence, unsynced, author, edited>> /\ migrationOnly

LowerFence ==
    /\ mig.at = "verified"
    /\ fence' = NoAttempt
    /\ unsynced' = mig.att
    /\ ToMigration("unfenced")
    /\ Sound
    /\ UNCHANGED <<configRow, helperLastGood, leftover, author, edited>> /\ migrationOnly

(* sync_dir of the journal directory: only now is the removal durable. *)
SyncFence ==
    /\ mig.at = "unfenced"
    /\ unsynced' = NoAttempt
    /\ EndMigration
    /\ Sound
    /\ UNCHANGED <<configRow, helperLastGood, leftover, fence, author, edited>> /\ migrationOnly

(* Any step returns an error: the process exits and its lock is released. *)
StepFails ==
    /\ mig.at \in {"journaled", "committed", "written", "cleaned", "verified",
                  "unfenced"}
    /\ EndMigration
    /\ Broken
    /\ UNCHANGED <<configRow, helperLastGood, leftover, fence, unsynced, author, edited>> /\ migrationOnly

(* Power is lost: nothing runs, the durable files stay; a fence whose removal
   was not synced may be back. *)
LosePower ==
    /\ Broken
    /\ mig # IdleMigration \/ up # {}
    /\ EndMigration
    /\ up' = {}
    /\ console' = NoConsole
    /\ fence' \in {fence} \union (IF unsynced = NoAttempt THEN {} ELSE {unsynced})
    /\ unsynced' = NoAttempt
    /\ UNCHANGED <<configRow, restore, helperLastGood, leftover, held, author, edited>>

-----------------------------------------------------------------------------

MigrationStep ==
    \/ RaiseFence \/ CommitAttempt \/ WriteLastGood \/ RemoveJournals
    \/ VerifyAttempt \/ LowerFence \/ SyncFence

(* The operator runs the command again with the input of the fence. *)
Rerun == fence # NoAttempt /\ ResumeAttempt(fence.input)

RecoveryNext ==
    \/ StartApplyd \/ StartRouterd \/ BeginChange
    \/ \E d \in up : StopDaemon(d)
    \/ \E c \in Configs : save_config(c) \/ PrepareAttempt(c) \/ ResumeAttempt(c)
    \/ ConsoleStep
    \/ MigrationStep
    \/ WorkerKilled \/ StepFails \/ LosePower

(* The migration process runs on; an operator who is told that services wait
   for the migration reruns it. *)
RecoveryFairness ==
    /\ WF_recoveryVars(MigrationStep)
    /\ WF_recoveryVars(Rerun)
    /\ \A d \in {"routerd", "router-applyd"} : WF_recoveryVars(fence # NoAttempt /\ StopDaemon(d))

RecoverySpec == RecoveryInit /\ [][RecoveryNext]_recoveryVars /\ RecoveryFairness

-----------------------------------------------------------------------------

RecoveryTypeOK ==
    /\ configRow \in Rows /\ held \in Rows
    /\ restore \in Seq(Rows) /\ Len(restore) <= SNAPSHOT_RETENTION_PER_KIND
    /\ helperLastGood \in Configs
    /\ leftover \subseteq Leftovers
    /\ {fence, unsynced} \subseteq Attempts \union {NoAttempt}
    /\ mig.at \in MigrationSteps /\ mig.att \in Attempts \union {NoAttempt}
    /\ up \subseteq {"routerd", "router-applyd"}
    /\ console \in Rows \union {NoConsole}
    /\ author \in {"daemon", "console", "migration"} /\ edited \in BOOLEAN
    /\ breaks \in 0 .. MaxBreaks

(* No daemon starts on a half-migrated appliance: whenever the guard lets one
   start and the newest row is a migration's, the helper's last-good copy is
   that row's configuration and no transaction journal from before it is left
   for the helper to replay. *)
StartsOnWholeState ==
    acquire_daemon_guard /\ author = "migration" =>
        /\ helperLastGood = configRow.cfg
        /\ \A j \in leftover : j.base >= configRow.rev

(* While the fence is up the journal can finish or explain every state the
   appliance can be in: the store holds the original or the target, the
   helper's copy became the target only after the store did, and nothing else
   of the helper's state is lost that the backup does not hold. *)
FenceCoversState ==
    fence # NoAttempt =>
        /\ up = {}
        /\ ~edited =>
              /\ configRow \in {fence.original, fence.target}
              /\ helperLastGood \in {fence.helper.good, fence.target.cfg}
              /\ configRow = fence.original => helperLastGood = fence.helper.good
              /\ leftover \subseteq fence.helper.left
              /\ leftover # fence.helper.left => helperLastGood = fence.target.cfg

(* Every new row is built on the row it replaces, by one revision: neither a
   daemon holding an old configuration in memory, nor a console command that
   read the store earlier, nor a rerun migration overwrites a change it has
   not seen; and the row a console command replaces is left as its undo
   snapshot, however full the restore points were. *)
BuiltOnNewest ==
    [][configRow' # configRow =>
        /\ configRow'.rev = configRow.rev + 1
        /\ \/ configRow = held /\ "routerd" \in up
           \/ configRow = console /\ configRow \in Range(restore')
           \/ mig.att # NoAttempt /\ configRow = mig.att.original]_recoveryVars

(* An interrupted migration finishes when it is rerun with the same input,
   unless something else changed the store or the helper's state meanwhile. *)
RerunFinishes == fence # NoAttempt ~> fence = NoAttempt \/ edited

\* No daemon starts on state that a migration or the console has half replaced: the
\* fence or a lock covers every such state, through interruptions and reruns.
RecoverySound ==
  /\ RecoveryTypeOK /\ StartsOnWholeState /\ FenceCoversState
=============================================================================
