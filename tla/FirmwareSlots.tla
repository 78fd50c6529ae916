---------------------------- MODULE FirmwareSlots ----------------------------
(***************************************************************************)
(* The A/B release slots of mr-core (firmware/slots.rs): two symlinks      *)
(* select the running and the previous release, state.json mirrors them    *)
(* and carries the staged version and the version floor, operation.json    *)
(* journals a pointer change and installation.json fences an unfinished    *)
(* full installation.                                                      *)
(*                                                                         *)
(* Every durable write is one step with the three outcomes the code tells  *)
(* apart: it succeeds; it reports an error after taking effect (the fsync  *)
(* of the directory failed); it reports an error without effect.  The      *)
(* process or the machine may stop between any two writes.                 *)
(***************************************************************************)
EXTENDS Integers

CONSTANTS Releases,  \* signed release versions, positive, ordered by precedence
          Baselines  \* synthetic "0.0.0+bootstrap.<digest>" versions, negative

ASSUME VersionAssumption ==
  /\ Releases \subseteq {n \in Int : n > 0}
  /\ Baselines \subseteq {n \in Int : n < 0}

None == 0  \* the empty version string
Version == Releases \cup Baselines
OptVersion == Version \cup {None}
Links == {"current", "previous"}
Kinds == {"install", "activate", "rollback"}
Commands == Kinds \cup {"stage", "begin"}

SlotState == [current : OptVersion, previous : OptVersion,
              pending : OptVersion, minimum : OptVersion]

EmptyState == [current |-> None, previous |-> None, pending |-> None, minimum |-> None]

SlotOperation == [kind : Kinds \cup {"none"}, old : SlotState, next : SlotState]

NoOperation == [kind |-> "none", old |-> EmptyState, next |-> EmptyState]

VARIABLES
  slots,      \* complete slot directories
  link,       \* the symlinks "current" and "previous"
  stateFile,  \* state.json
  journal,    \* operation.json
  intent,     \* installation.json: is it there, and the floor it records
  op          \* the call in progress under the update lock (volatile)

vars == <<slots, link, stateFile, journal, intent, op>>
-----------------------------------------------------------------------------
(* Version order and the upgrade floor.                                    *)

\* Build metadata does not count: every baseline has the precedence of 0.0.0.
Rank(v) == IF v < 0 THEN 0 ELSE v

\* compare_release_versions(a, b) >= 0 where an empty b is no bound at all.
AtLeast(a, b) == b = None \/ (a # None /\ Rank(a) >= Rank(b))

validate_forward_upgrade(candidate, floor) ==
  floor = None \/ Rank(candidate) > Rank(floor)

\* upgrade_floor() fails: a legacy baseline with no recorded floor.
UnknownInstalledVersion(s) == s.current \in Baselines /\ s.minimum = None

upgrade_floor(s) ==
  IF s.current \in Releases /\ (s.minimum = None \/ Rank(s.current) > Rank(s.minimum))
  THEN s.current
  ELSE s.minimum

installation_minimum_allowed(s, proposed) ==
  IF proposed = None
  THEN upgrade_floor(s) = None
  ELSE AtLeast(proposed, upgrade_floor(s))

apply_installation_floor(s) ==
  IF intent.pending /\ intent.minimum # None /\ ~AtLeast(s.minimum, intent.minimum)
  THEN [s EXCEPT !.minimum = intent.minimum]
  ELSE s

\* The symlinks override state.json.
state_without_operation ==
  apply_installation_floor(
    [current  |-> IF link["current"] # None THEN link["current"] ELSE stateFile.current,
     previous |-> IF link["previous"] # None THEN link["previous"] ELSE stateFile.previous,
     pending  |-> IF link["current"] # None /\ stateFile.pending = link["current"]
                  THEN None ELSE stateFile.pending,
     minimum  |-> stateFile.minimum])
-----------------------------------------------------------------------------
(* The operation journal.                                                  *)

validate_journal_state(s) ==
  /\ {s.current, s.previous, s.pending} \subseteq slots \cup {None}
  /\ s.current = None \/ s.current # s.previous

validate_operation(o) ==
  /\ validate_journal_state(o.old)
  /\ validate_journal_state(o.next)
  /\ o.next.pending = None
  /\ CASE o.kind = "install"  -> o.next.current # None /\ o.next.previous = None
       [] o.kind = "activate" -> /\ o.next.current \notin {None, o.old.current}
                                 /\ o.next.previous = o.old.current
       [] o.kind = "rollback" -> /\ o.old.previous # None
                                 /\ o.next.current = o.old.previous
                                 /\ o.next.previous = o.old.current
       [] OTHER -> FALSE
  /\ o.kind = "install" \/ ~UnknownInstalledVersion(o.old)
  /\ AtLeast(o.next.minimum, upgrade_floor(o.old))
  /\ o.kind = "activate" => validate_forward_upgrade(o.next.current, upgrade_floor(o.old))

\* The runtime pointer matches one side of the journal.
Projectable(o) == link["current"] \in {o.next.current, o.old.current}

project_operation_state(o) ==
  IF link["current"] = o.next.current THEN o.next ELSE o.old

\* state(): what a reader that takes no lock is told.
state ==
  IF journal.kind = "none"
  THEN state_without_operation
  ELSE apply_installation_floor(project_operation_state(journal))
-----------------------------------------------------------------------------
(* Control of one call.                                                    *)

PCs == {"idle", "recover", "recCurrent", "recPrevious", "recSave", "recClear",
        "run", "fence", "rename", "pend", "unpend", "journal", "linkA", "linkB",
        "save", "clear", "unfence", "abCurrent", "abPrevious", "abSave", "abClear"}

NoCall == [pc |-> "idle", cmd |-> "stage", arg |-> None, minimum |-> None,
           old |-> EmptyState, next |-> EmptyState, failed |-> FALSE]

Goto(pc) == op' = IF pc = "idle" THEN NoCall ELSE [op EXCEPT !.pc = pc]

\* A durable write: done, done but reported as failed, or failed.
Attempt(Do, Skip, ok, err) ==
  \/ Do /\ Goto(ok)
  \/ Do /\ Goto(err)
  \/ Skip /\ Goto(err)

write_link(name, v) == link' = [link EXCEPT ![name] = v]

\* with_lock admits one call; an unfinished installation refuses the others.
Call(cmd, v, m) ==
  /\ op.pc = "idle"
  /\ cmd \in {"stage", "activate", "rollback"} => ~intent.pending
  /\ op' = [NoCall EXCEPT !.pc = "recover", !.cmd = cmd, !.arg = v, !.minimum = m]
  /\ UNCHANGED <<slots, link, stateFile, journal, intent>>

\* recover_operation: nothing to do, refuse, or restore what the journal says.
Recover ==
  /\ op.pc = "recover"
  /\ \/ journal.kind = "none" /\ Goto("run")
     \/ /\ journal.kind # "none"
        /\ ~(validate_operation(journal) /\ Projectable(journal))
        /\ Goto("idle")
     \/ /\ journal.kind # "none" /\ validate_operation(journal) /\ Projectable(journal)
        /\ op' = [op EXCEPT !.pc = "recCurrent", !.old = project_operation_state(journal)]
  /\ UNCHANGED <<slots, link, stateFile, journal, intent>>

\* restore_links writes both pointers and only then looks at the errors.
restore_current(from, to) ==
  /\ op.pc = from
  /\ \E failed \in BOOLEAN :
       /\ write_link("current", op.old.current) \/ (failed /\ UNCHANGED link)
       /\ op' = [op EXCEPT !.pc = to, !.failed = failed]
  /\ UNCHANGED <<slots, stateFile, journal, intent>>

restore_previous(from, to) ==
  /\ op.pc = from
  /\ Attempt(write_link("previous", op.old.previous), UNCHANGED link,
             IF op.failed THEN "idle" ELSE to, "idle")
  /\ UNCHANGED <<slots, stateFile, journal, intent>>

save_state(from, s, ok, err) ==
  /\ op.pc = from
  /\ Attempt(stateFile' = s, UNCHANGED stateFile, ok, err)
  /\ UNCHANGED <<slots, link, journal, intent>>

clear_operation(from, ok) ==
  /\ op.pc = from
  /\ Attempt(journal' = NoOperation, UNCHANGED journal, ok, "idle")
  /\ UNCHANGED <<slots, link, stateFile, intent>>

recover_operation ==
  \/ Recover
  \/ restore_current("recCurrent", "recPrevious")
  \/ restore_previous("recPrevious", "recSave")
  \/ save_state("recSave", op.old, "recClear", "idle")
  \/ clear_operation("recClear", "run")
-----------------------------------------------------------------------------
(* The operations.                                                         *)

\* Reads the recovered state and decides; a refused call changes nothing.
Decide(cmd, allowed, to, next) ==
  /\ op.pc = "run" /\ op.cmd = cmd
  /\ op' = IF allowed
           THEN [op EXCEPT !.pc = to, !.old = state_without_operation, !.next = next]
           ELSE NoCall
  /\ UNCHANGED <<slots, link, stateFile, journal, intent>>

\* stage: copy and verify in a private directory, rename it, mark it pending.
StageDecide ==
  LET s == state_without_operation IN
  Decide("stage",
         /\ ~UnknownInstalledVersion(s)
         /\ validate_forward_upgrade(op.arg, upgrade_floor(s))
         /\ op.arg \notin slots,
         "rename", [s EXCEPT !.pending = op.arg])

\* The clean-up of a failed rename ignores its own failure.
StageRename ==
  /\ op.pc = "rename"
  /\ \/ slots' = slots \cup {op.arg} /\ Goto("pend")
     \/ slots' \in {slots, slots \cup {op.arg}} /\ Goto("idle")
  /\ UNCHANGED <<link, stateFile, journal, intent>>

StagePend ==
  /\ op.pc = "pend"
  /\ \/ stateFile' = op.next /\ UNCHANGED slots
     \/ stateFile' \in {stateFile, op.next} /\ slots' \in {slots, slots \ {op.arg}}
  /\ Goto("idle")
  /\ UNCHANGED <<link, journal, intent>>

activate ==
  LET s == state_without_operation
      forward == /\ ~UnknownInstalledVersion(s)
                 /\ validate_forward_upgrade(op.arg, upgrade_floor(s))
  IN
  IF s.current = op.arg
  THEN Decide("activate", op.arg \in slots, "unpend", [s EXCEPT !.pending = None])
  ELSE Decide("activate", op.arg \in slots /\ forward, "journal",
              [current |-> op.arg, previous |-> s.current,
               pending |-> None, minimum |-> op.arg])

rollback ==
  LET s == state_without_operation IN
  Decide("rollback",
         s.previous \in slots /\ ~UnknownInstalledVersion(s),
         "journal",
         [current |-> s.previous, previous |-> s.current,
          pending |-> None, minimum |-> upgrade_floor(s)])

begin_installation ==
  LET s == state_without_operation IN
  Decide("begin", installation_minimum_allowed(s, op.minimum), "fence", s)

\* Mutant: the pointers are switched to a slot that was not filled.
install_baseline_unfilled ==
  LET s == state_without_operation IN
  /\ op.pc = "run" /\ op.cmd = "install"
  /\ op' = IF installation_minimum_allowed(s, op.minimum)
           THEN [op EXCEPT !.pc = "linkA", !.old = s,
                           !.next = [EmptyState EXCEPT !.current = op.arg,
                                                       !.minimum = op.minimum]]
           ELSE NoCall
  /\ UNCHANGED <<slots, link, stateFile, journal, intent>>

\* install_baseline puts the complete baseline in its slot before the switch.
install_baseline ==
  LET s == state_without_operation IN
  /\ op.pc = "run" /\ op.cmd = "install"
  /\ IF installation_minimum_allowed(s, op.minimum)
     THEN /\ slots' = slots \cup {op.arg}
          /\ op' = [op EXCEPT !.pc = "journal", !.old = s,
                              !.next = [EmptyState EXCEPT !.current = op.arg,
                                                          !.minimum = op.minimum]]
     ELSE UNCHANGED slots /\ op' = NoCall
  /\ UNCHANGED <<link, stateFile, journal, intent>>

WriteFence ==
  /\ op.pc = "fence"
  /\ Attempt(intent' = [pending |-> TRUE, minimum |-> op.minimum], UNCHANGED intent,
             "idle", "idle")
  /\ UNCHANGED <<slots, link, stateFile, journal>>

begin_operation ==
  LET o == [kind |-> op.cmd, old |-> op.old, next |-> op.next] IN
  /\ op.pc = "journal"
  /\ IF validate_operation(o)
     THEN Attempt(journal' = o, UNCHANGED journal, "linkA", "idle")
     ELSE UNCHANGED journal /\ Goto("idle")
  /\ UNCHANGED <<slots, link, stateFile, intent>>

\* rollback moves "current" first, activation and installation "previous".
mutate(from, name, ok) ==
  /\ op.pc = from
  /\ Attempt(write_link(name, op.next[name]), UNCHANGED link, ok, "abCurrent")
  /\ UNCHANGED <<slots, stateFile, journal, intent>>

\* Mutant: the journal is cleared without saving state.json.
commit_operation_unsaved ==
  \/ begin_operation
  \/ mutate("linkA", IF op.cmd = "rollback" THEN "current" ELSE "previous", "linkB")
  \/ mutate("linkB", IF op.cmd = "rollback" THEN "previous" ELSE "current", "clear")
  \/ clear_operation("clear", IF op.cmd = "install" THEN "unfence" ELSE "idle")

commit_operation ==
  \/ begin_operation
  \/ mutate("linkA", IF op.cmd = "rollback" THEN "current" ELSE "previous", "linkB")
  \/ mutate("linkB", IF op.cmd = "rollback" THEN "previous" ELSE "current", "save")
  \/ save_state("save", op.next, "clear", "abCurrent")
  \/ clear_operation("clear", IF op.cmd = "install" THEN "unfence" ELSE "idle")

\* Mutant: an aborted operation restores one pointer only.
abort_operation_half ==
  \/ restore_current("abCurrent", "abSave")
  \/ save_state("abSave", op.old, "abClear", "idle")
  \/ clear_operation("abClear", "idle")

abort_operation ==
  \/ restore_current("abCurrent", "abPrevious")
  \/ restore_previous("abPrevious", "abSave")
  \/ save_state("abSave", op.old, "abClear", "idle")
  \/ clear_operation("abClear", "idle")

RemoveFence ==
  /\ op.pc = "unfence"
  /\ Attempt(intent' = [pending |-> FALSE, minimum |-> None], UNCHANGED intent,
             "idle", "idle")
  /\ UNCHANGED <<slots, link, stateFile, journal>>

\* The process is killed or power fails: only the call is lost.
Crash ==
  /\ op.pc # "idle"
  /\ op' = NoCall
  /\ UNCHANGED <<slots, link, stateFile, journal, intent>>
-----------------------------------------------------------------------------
\* A fresh root, a legacy baseline without a floor, a signed installation.
Init ==
  /\ \E v \in OptVersion, m \in Releases \cup {None} :
       /\ v \notin Releases /\ (v = None => m = None)
       /\ slots = {v} \ {None}
       /\ link = [n \in Links |-> IF n = "current" THEN v ELSE None]
       /\ stateFile = [EmptyState EXCEPT !.current = v, !.minimum = m]
  /\ journal = NoOperation
  /\ intent = [pending |-> FALSE, minimum |-> None]
  /\ op = NoCall

CallAny ==
  \/ \E v \in Releases : Call("stage", v, None)
  \/ \E v \in Version : Call("activate", v, None)
  \/ Call("rollback", None, None)
  \/ \E m \in Releases \cup {None} : Call("begin", None, m)
  \/ \E b \in Baselines, m \in Releases \cup {None} : Call("install", b, m)

Next ==
  \/ CallAny
  \/ recover_operation
  \/ StageDecide \/ StageRename \/ StagePend
  \/ activate \/ save_state("unpend", op.next, "idle", "idle")
  \/ rollback
  \/ begin_installation \/ WriteFence
  \/ install_baseline \/ RemoveFence
  \/ commit_operation \/ abort_operation
  \/ Crash

Spec == Init /\ [][Next]_vars
-----------------------------------------------------------------------------
(* Properties.                                                             *)

Calls == [pc : PCs, cmd : Commands, arg : OptVersion, minimum : OptVersion,
          old : SlotState, next : SlotState, failed : BOOLEAN]

\* Every file holds what the code can write to it.
TypeOK ==
  /\ slots \subseteq Version
  /\ link \in [Links -> OptVersion]
  /\ stateFile \in SlotState
  /\ journal \in SlotOperation
  /\ intent \in [pending : BOOLEAN, minimum : OptVersion]
  /\ op \in Calls

\* While a journalled operation can still be aborted its effect is undecided.
Undecided ==
  op.pc \in {"linkA", "linkB", "save", "abCurrent", "abPrevious", "abSave", "abClear"}

\* The slot state the appliance is committed to.
Settled == IF Undecided THEN op.old ELSE state

\* Once a release is installed, the "current" pointer always names a complete
\* slot and agrees with the journal, so a boot never has to guess a slot.
AlwaysBootable ==
  /\ Settled.current # None => link["current"] \in slots
  /\ journal.kind # "none" => validate_operation(journal) /\ Projectable(journal)

\* At rest with no journal, state.json and the symlinks tell the same story,
\* and what a rollback would return to is a complete slot.
MirrorAgrees ==
  op.pc = "idle" /\ journal.kind = "none" =>
    /\ stateFile.current = link["current"]
    /\ stateFile.previous = link["previous"]
    /\ link["previous"] \in slots \cup {None}

\* What the journal promises: the pointers and the floor move only by whole
\* operations, whatever is interrupted.
Table == INSTANCE SlotTable WITH
           current <- Settled.current, previous <- Settled.previous,
           floor <- upgrade_floor(Settled)

AtomicOperations == Table!Spec
=============================================================================
