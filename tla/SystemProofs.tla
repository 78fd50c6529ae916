---------------------------- MODULE SystemProofs ----------------------------
(***************************************************************************)
(* Proofs about what runs and when: FirmwareSlots, the slots of router-    *)
(* updater, HelperStartup and DaemonShutdown, how the two daemons start    *)
(* and stop. For every value of their constants. Each part starts with its *)
(* inductive invariant.                                                    *)
(***************************************************************************)
EXTENDS FirmwareSlots, HelperStartup, DaemonShutdown, TLAPS

\* Most leaves are first-order reasoning; the others name their prover.
USE Zenon

-----------------------------------------------------------------------------
(***************************************************************************)
(* FirmwareSlots. Type correctness of the slots, and that the appliance    *)
(* can always boot: for every set of versions, wherever the slot manager   *)
(* is interrupted and however often recovery is.                           *)
(***************************************************************************)

\* TypeOK with what the calls know of their version argument.
Typed ==
  /\ TypeOK
  /\ op.pc # "idle" /\ op.cmd \in {"stage", "activate", "install"} => op.arg \in Version
  /\ op.pc \in {"rename", "pend"} => op.cmd = "stage"

\* The steps with no journal on disk, the steps of a recovery and the steps
\* of an operation that has journalled itself.
Unjournalled == {"run", "fence", "rename", "pend", "unpend", "journal", "unfence"}
Recovering == {"recCurrent", "recPrevious", "recSave", "recClear"}
Mutating == {"linkA", "linkB", "save", "clear", "abCurrent", "abPrevious", "abSave", "abClear"}

Journalled == journal.kind # "none"

LinksAre(s) == link["current"] = s.current /\ link["previous"] = s.previous

Mirrored ==
  /\ LinksAre(stateFile)
  /\ link["current"] \in slots \cup {None} /\ link["previous"] \in slots \cup {None}

\* Where each step of a call stands between the journal, the symlinks and
\* state.json.
Bootable ==
  /\ Journalled => validate_operation(journal) /\ Projectable(journal)
  /\ ~Journalled => Mirrored
  /\ op.pc \in Unjournalled => ~Journalled
  /\ op.pc \in Recovering => Journalled /\ op.old \in {journal.old, journal.next}
  /\ op.pc \in Mutating => Journalled /\ journal.old = op.old /\ journal.next = op.next
  /\ op.pc = "journal" => link["current"] = op.old.current
  /\ op.pc \in {"rename", "pend"} => op.arg \notin {link["current"], link["previous"]}
  /\ op.pc \in {"rename", "pend", "unpend"} => LinksAre(op.next)
  /\ op.pc = "linkB" => IF op.cmd = "rollback" THEN link["current"] = op.next.current
                                              ELSE link["previous"] = op.next.previous
  /\ op.pc \in {"save", "clear"} => LinksAre(op.next)
  /\ op.pc = "clear" => stateFile = op.next
  /\ op.pc \in {"recPrevious", "abPrevious"} /\ ~op.failed => link["current"] = op.old.current
  /\ op.pc \in {"recSave", "recClear", "abSave", "abClear"} => LinksAre(op.old)
  /\ op.pc \in {"recClear", "abClear"} => stateFile = op.old

-----------------------------------------------------------------------------
(* Type correctness.                                                       *)

FilesTyped ==
  /\ slots \subseteq Version /\ link \in [Links -> OptVersion] /\ stateFile \in SlotState
  /\ journal \in SlotOperation /\ intent \in [pending : BOOLEAN, minimum : OptVersion]

LEMMA VersionFacts ==
  /\ None \notin Version /\ None \in OptVersion /\ Version \subseteq OptVersion
  /\ Releases \subseteq Version /\ Baselines \subseteq Version
  /\ EmptyState \in SlotState /\ NoOperation \in SlotOperation
  /\ NoCall \in Calls /\ NoCall.pc = "idle"
BY SMT, VersionAssumption
DEF None, Version, OptVersion, EmptyState, SlotState, NoOperation, SlotOperation, NoCall, Calls,
    PCs, Commands, Kinds

LEMMA StateTypes ==
  ASSUME TypeOK
  PROVE  /\ state_without_operation \in SlotState
         /\ project_operation_state(journal) \in {journal.old, journal.next}
         /\ journal.old \in SlotState /\ journal.next \in SlotState
         /\ \A s \in SlotState : upgrade_floor(s) \in OptVersion
<1> DEFINE s == [current  |-> IF link["current"] # None THEN link["current"] ELSE stateFile.current,
                 previous |-> IF link["previous"] # None THEN link["previous"] ELSE stateFile.previous,
                 pending  |-> IF link["current"] # None /\ stateFile.pending = link["current"]
                              THEN None ELSE stateFile.pending,
                 minimum  |-> stateFile.minimum]
<1>1. s \in SlotState
  BY VersionFacts DEF TypeOK, SlotState, Links
<1>2. \A t \in SlotState : apply_installation_floor(t) \in SlotState
  BY DEF TypeOK, apply_installation_floor, SlotState
<1>3. state_without_operation = apply_installation_floor(s)
  BY DEF state_without_operation
<1>4. \A t \in SlotState : upgrade_floor(t) \in OptVersion
  BY DEF upgrade_floor, SlotState
<1>5. journal.old \in SlotState /\ journal.next \in SlotState
  BY DEF TypeOK, SlotOperation
<1> QED BY <1>1, <1>2, <1>3, <1>4, <1>5 DEF project_operation_state

\* Where a step goes, it takes its call along.
LEMMA GotoFacts ==
  ASSUME op \in Calls, NEW pc \in PCs, Goto(pc)
  PROVE  /\ op' \in Calls /\ op'.pc = pc
         /\ IF pc = "idle" THEN op' = NoCall
            ELSE /\ op'.cmd = op.cmd /\ op'.arg = op.arg /\ op'.minimum = op.minimum
                 /\ op'.old = op.old /\ op'.next = op.next /\ op'.failed = op.failed
BY VersionFacts DEF Goto, Calls

LEMMA StepTyped ==
  ASSUME Typed, FilesTyped', op' \in Calls,
         \/ op' = NoCall
         \/ /\ op.pc # "idle" /\ op'.cmd = op.cmd /\ op'.arg = op.arg
            /\ op'.pc \in {"rename", "pend"} => op.cmd = "stage"
  PROVE  Typed'
BY VersionFacts DEF Typed, TypeOK, FilesTyped

\* A step that only moves files and goes on.
LEMMA MoveTyped ==
  ASSUME Typed, FilesTyped', op.pc # "idle", NEW pc \in PCs \ {"rename", "pend"}, Goto(pc)
  PROVE  Typed'
<1>1. op \in Calls BY DEF Typed, TypeOK
<1> QED BY <1>1, GotoFacts, StepTyped

LEMMA InitTyped == Init => Typed
<1> SUFFICES ASSUME Init PROVE Typed
  OBVIOUS
<1>1. PICK v \in OptVersion, m \in Releases \cup {None} :
        /\ slots = {v} \ {None}
        /\ link = [n \in Links |-> IF n = "current" THEN v ELSE None]
        /\ stateFile = [EmptyState EXCEPT !.current = v, !.minimum = m]
  BY DEF Init
<1>2. slots \subseteq Version BY <1>1 DEF OptVersion
<1>3. link \in [Links -> OptVersion] BY <1>1, VersionFacts
<1>4. stateFile \in SlotState BY <1>1, VersionFacts DEF SlotState
<1>5. journal = NoOperation /\ intent \in [pending : BOOLEAN, minimum : OptVersion] /\ op = NoCall
  BY VersionFacts DEF Init
<1> QED BY <1>2, <1>3, <1>4, <1>5, VersionFacts DEF Typed, TypeOK

LEMMA CallTyped == Typed /\ CallAny => Typed'
<1> SUFFICES ASSUME Typed, CallAny PROVE Typed'
  OBVIOUS
<1>1. PICK cmd \in Commands, v \in OptVersion, m \in OptVersion :
        Call(cmd, v, m) /\ (cmd \in {"stage", "activate", "install"} => v \in Version)
  BY SMT, VersionFacts DEF CallAny, Commands, Kinds, OptVersion
<1>2. op' = [NoCall EXCEPT !.pc = "recover", !.cmd = cmd, !.arg = v, !.minimum = m]
  BY <1>1 DEF Call
<1>3. op' \in Calls /\ op'.pc = "recover" /\ op'.cmd = cmd /\ op'.arg = v
  BY <1>2, VersionFacts DEF Calls, PCs
<1> QED BY <1>1, <1>3 DEF Call, Typed, TypeOK

LEMMA LinkTypes ==
  ASSUME TypeOK, NEW name \in Links, NEW v \in OptVersion, write_link(name, v)
  PROVE  link' \in [Links -> OptVersion]
BY DEF TypeOK, write_link

\* restore_links and the writes of state.json and of the journal.
LEMMA RestoreTyped ==
  ASSUME Typed, NEW from \in PCs \ {"idle"}, NEW to \in PCs \ {"rename", "pend"},
         restore_current(from, to) \/ restore_previous(from, to)
  PROVE  Typed'
<1>1. TypeOK /\ op \in Calls /\ op.old \in SlotState BY DEF Typed, TypeOK, Calls
<1>2. op.old.current \in OptVersion /\ op.old.previous \in OptVersion
  BY <1>1 DEF SlotState
<1>3. link' \in [Links -> OptVersion]
  BY <1>1, <1>2, LinkTypes DEF restore_current, restore_previous, Attempt, Links, TypeOK
<1>4. FilesTyped'
  BY <1>1, <1>3 DEF restore_current, restore_previous, FilesTyped, TypeOK
<1>5. CASE restore_current(from, to)
  <2>1. PICK failed \in BOOLEAN : op' = [op EXCEPT !.pc = to, !.failed = failed]
    BY <1>5 DEF restore_current
  <2>2. op' \in Calls /\ op'.pc = to /\ op'.cmd = op.cmd /\ op'.arg = op.arg
    BY <1>1, <2>1 DEF Calls
  <2> QED BY <1>4, <1>5, <2>2, StepTyped DEF restore_current
<1>6. CASE restore_previous(from, to)
  <2>1. Goto(to) \/ Goto("idle") BY <1>6 DEF restore_previous, Attempt
  <2>2. "idle" \in PCs \ {"rename", "pend"} BY DEF PCs
  <2> QED BY <1>4, <1>6, <2>1, <2>2, MoveTyped DEF restore_previous
<1> QED BY <1>5, <1>6

LEMMA WriteTyped ==
  ASSUME Typed, NEW from \in PCs \ {"idle"}, NEW s \in SlotState,
         NEW ok \in PCs \ {"rename", "pend"}, NEW err \in PCs \ {"rename", "pend"},
         save_state(from, s, ok, err) \/ clear_operation(from, ok)
  PROVE  Typed'
<1>1. FilesTyped'
  BY VersionFacts DEF save_state, clear_operation, Attempt, Typed, TypeOK, FilesTyped
<1>2. "idle" \in PCs \ {"rename", "pend"} BY DEF PCs
<1>3. op.pc # "idle" /\ (Goto(ok) \/ Goto(err) \/ Goto("idle"))
  BY DEF save_state, clear_operation, Attempt
<1> QED BY <1>1, <1>2, <1>3, MoveTyped

LEMMA RecoverTyped == Typed /\ recover_operation => Typed'
<1> SUFFICES ASSUME Typed, recover_operation PROVE Typed'
  OBVIOUS
<1>1. TypeOK /\ op \in Calls /\ op.old \in SlotState BY DEF Typed, TypeOK, Calls
<1>2. CASE Recover
  <2>1. FilesTyped' BY <1>1, <1>2 DEF Recover, FilesTyped, TypeOK
  <2>2. CASE Goto("run") \/ Goto("idle")
    BY <1>2, <2>1, <2>2, MoveTyped DEF Recover, PCs
  <2>3. CASE op' = [op EXCEPT !.pc = "recCurrent", !.old = project_operation_state(journal)]
    <3>1. op' \in Calls /\ op'.pc = "recCurrent" /\ op'.cmd = op.cmd /\ op'.arg = op.arg
      BY <1>1, <2>3, StateTypes DEF Calls, PCs
    <3> QED BY <1>2, <2>1, <3>1, StepTyped DEF Recover
  <2> QED BY <1>2, <2>2, <2>3 DEF Recover
<1> QED BY SMT, <1>1, <1>2, RestoreTyped, WriteTyped DEF recover_operation, PCs

\* A decision takes the state it read and the state it aims at along.
LEMMA DecideTyped ==
  ASSUME Typed, NEW cmd, NEW allowed, NEW to \in PCs, NEW next, Decide(cmd, allowed, to, next),
         allowed => next \in SlotState, to \in {"rename", "pend"} => cmd = "stage"
  PROVE  Typed'
<1>1. TypeOK /\ op \in Calls BY DEF Typed, TypeOK
<1>2. FilesTyped' BY <1>1 DEF Decide, FilesTyped, TypeOK
<1>3. CASE allowed
  <2>1. op' = [op EXCEPT !.pc = to, !.old = state_without_operation, !.next = next]
    BY <1>3 DEF Decide
  <2>2. op' \in Calls /\ op'.pc = to /\ op'.cmd = op.cmd /\ op'.arg = op.arg
    BY <1>1, <1>3, <2>1, StateTypes DEF Calls
  <2> QED BY <1>2, <2>2, StepTyped DEF Decide
<1>4. CASE ~allowed
  BY <1>2, <1>4, StepTyped, VersionFacts DEF Decide
<1> QED BY <1>3, <1>4

LEMMA StageTyped == Typed /\ (StageDecide \/ StageRename \/ StagePend) => Typed'
<1> SUFFICES ASSUME Typed, StageDecide \/ StageRename \/ StagePend PROVE Typed'
  OBVIOUS
<1>1. TypeOK /\ op \in Calls /\ op.arg \in OptVersion /\ op.next \in SlotState
  BY DEF Typed, TypeOK, Calls
<1>2. CASE StageDecide
  <2>1. [state_without_operation EXCEPT !.pending = op.arg] \in SlotState
    BY <1>1, StateTypes DEF SlotState
  <2> QED BY <1>2, <2>1, DecideTyped DEF StageDecide, PCs
<1>3. CASE StageRename
  <2>1. op.arg \in Version /\ op.cmd = "stage" /\ op.pc # "idle" BY <1>3 DEF StageRename, Typed
  <2>2. FilesTyped' BY <1>1, <1>3, <2>1 DEF StageRename, FilesTyped, TypeOK
  <2>3. Goto("pend") \/ Goto("idle") BY <1>3 DEF StageRename
  <2>4. "pend" \in PCs /\ "idle" \in PCs BY DEF PCs
  <2> QED BY <1>1, <2>1, <2>2, <2>3, <2>4, GotoFacts, StepTyped
<1>4. CASE StagePend
  <2>1. FilesTyped' BY <1>1, <1>4 DEF StagePend, FilesTyped, TypeOK
  <2> QED BY <1>4, <2>1, MoveTyped DEF StagePend, PCs
<1> QED BY <1>2, <1>3, <1>4

LEMMA OperationTyped ==
  Typed /\ (activate \/ rollback \/ begin_installation \/ install_baseline) => Typed'
<1> SUFFICES ASSUME Typed, activate \/ rollback \/ begin_installation \/ install_baseline
             PROVE  Typed'
  OBVIOUS
<1> DEFINE s == state_without_operation
<1>1. TypeOK /\ op \in Calls /\ op.arg \in OptVersion /\ op.minimum \in OptVersion
  BY DEF Typed, TypeOK, Calls
<1>2. s \in SlotState /\ upgrade_floor(s) \in OptVersion BY <1>1, StateTypes
<1>3. /\ s.current \in OptVersion /\ s.previous \in OptVersion
      /\ "unpend" \in PCs /\ "journal" \in PCs /\ "fence" \in PCs
  BY <1>2 DEF SlotState, PCs
<1> HIDE DEF s
<1>4. CASE activate
  <2>1. [s EXCEPT !.pending = None] \in SlotState BY <1>2, VersionFacts DEF SlotState
  <2>2. [current |-> op.arg, previous |-> s.current, pending |-> None, minimum |-> op.arg]
          \in SlotState
    BY <1>1, <1>3, VersionFacts DEF SlotState
  <2> QED BY <1>3, <1>4, <2>1, <2>2, DecideTyped DEF activate, s
<1>5. CASE rollback
  <2>1. [current |-> s.previous, previous |-> s.current, pending |-> None,
         minimum |-> upgrade_floor(s)] \in SlotState
    BY <1>2, <1>3, VersionFacts DEF SlotState
  <2> QED BY <1>3, <1>5, <2>1, DecideTyped DEF rollback, s
<1>6. CASE begin_installation
  BY <1>2, <1>3, <1>6, DecideTyped DEF begin_installation, s
<1>7. CASE install_baseline
  <2>1. op.arg \in Version /\ op.pc # "idle" BY <1>7 DEF install_baseline, Typed
  <2>2. FilesTyped' BY <1>1, <1>7, <2>1 DEF install_baseline, FilesTyped, TypeOK
  <2>3. [EmptyState EXCEPT !.current = op.arg, !.minimum = op.minimum] \in SlotState
    BY <1>1, VersionFacts DEF SlotState
  <2>4. \/ op' = NoCall
        \/ op' = [op EXCEPT !.pc = "journal", !.old = s,
                   !.next = [EmptyState EXCEPT !.current = op.arg, !.minimum = op.minimum]]
    BY <1>7 DEF install_baseline, s
  <2>5. \/ op' = NoCall
        \/ op' \in Calls /\ op'.pc = "journal" /\ op'.cmd = op.cmd /\ op'.arg = op.arg
    BY <1>1, <1>2, <1>3, <2>3, <2>4 DEF Calls
  <2> QED BY <2>1, <2>2, <2>5, VersionFacts, StepTyped
<1> QED BY <1>4, <1>5, <1>6, <1>7

LEMMA FenceTyped == Typed /\ (WriteFence \/ RemoveFence) => Typed'
<1> SUFFICES ASSUME Typed, WriteFence \/ RemoveFence PROVE Typed'
  OBVIOUS
<1>1. TypeOK /\ op.minimum \in OptVersion BY DEF Typed, TypeOK, Calls
<1>2. FilesTyped'
  <2>1. intent' \in {intent, [pending |-> TRUE, minimum |-> op.minimum],
                     [pending |-> FALSE, minimum |-> None]}
    BY DEF WriteFence, RemoveFence, Attempt
  <2>2. [pending |-> TRUE, minimum |-> op.minimum] \in [pending : BOOLEAN, minimum : OptVersion]
    BY <1>1
  <2>3. [pending |-> FALSE, minimum |-> None] \in [pending : BOOLEAN, minimum : OptVersion]
    BY VersionFacts
  <2>4. intent' \in [pending : BOOLEAN, minimum : OptVersion]
    BY <1>1, <2>1, <2>2, <2>3 DEF TypeOK
  <2> QED BY <1>1, <2>4 DEF WriteFence, RemoveFence, FilesTyped, TypeOK
<1>3. op.pc # "idle" /\ Goto("idle") BY DEF WriteFence, RemoveFence, Attempt
<1> QED BY <1>2, <1>3, MoveTyped DEF PCs

\* Only the kinds the journal knows are valid.
LEMMA ValidFacts ==
  ASSUME NEW o \in [kind : Commands \cup {"none"}, old : SlotState, next : SlotState], validate_operation(o)
  PROVE  /\ o.kind \in Kinds /\ o.next.current # None
         /\ {o.old.current, o.old.previous, o.next.current, o.next.previous} \subseteq slots \cup {None}
BY DEF validate_operation, validate_journal_state, Kinds

LEMMA CommitTyped == Typed /\ commit_operation => Typed'
<1> SUFFICES ASSUME Typed, commit_operation PROVE Typed'
  OBVIOUS
<1>1. TypeOK /\ op \in Calls /\ op.old \in SlotState /\ op.next \in SlotState
      /\ op.cmd \in Commands
  BY DEF Typed, TypeOK, Calls
<1>2. CASE begin_operation
  <2> DEFINE o == [kind |-> op.cmd, old |-> op.old, next |-> op.next]
  <2>2. validate_operation(o) => o \in SlotOperation
    BY <1>1, ValidFacts DEF SlotOperation
  <2>3. journal' \in SlotOperation
    BY <1>1, <1>2, <2>2 DEF begin_operation, Attempt, TypeOK
  <2>4. FilesTyped' BY <1>1, <1>2, <2>3 DEF begin_operation, FilesTyped, TypeOK
  <2>5. Goto("linkA") \/ Goto("idle") BY <1>2 DEF begin_operation, Attempt
  <2> QED BY <1>2, <2>4, <2>5, MoveTyped DEF begin_operation, PCs
<1>3. ASSUME NEW from \in PCs \ {"idle"}, NEW name \in Links, NEW ok \in PCs \ {"rename", "pend"},
             mutate(from, name, ok)
      PROVE  Typed'
  <2>1. op.next[name] \in OptVersion BY <1>1 DEF Links, SlotState
  <2>2. link' \in [Links -> OptVersion]
    BY <1>1, <1>3, <2>1, LinkTypes DEF mutate, Attempt, TypeOK
  <2>3. FilesTyped' BY <1>1, <1>3, <2>2 DEF mutate, FilesTyped, TypeOK
  <2>4. Goto(ok) \/ Goto("abCurrent") BY <1>3 DEF mutate, Attempt
  <2>5. "abCurrent" \in PCs \ {"rename", "pend"} BY DEF PCs
  <2> QED BY <1>3, <2>3, <2>4, <2>5, MoveTyped DEF mutate
<1>4. CASE mutate("linkA", IF op.cmd = "rollback" THEN "current" ELSE "previous", "linkB")
  BY <1>3, <1>4 DEF PCs, Links
<1>5. CASE mutate("linkB", IF op.cmd = "rollback" THEN "previous" ELSE "current", "save")
  BY <1>3, <1>5 DEF PCs, Links
<1>6. CASE save_state("save", op.next, "clear", "abCurrent")
  BY <1>1, <1>6, WriteTyped DEF PCs
<1>7. CASE clear_operation("clear", IF op.cmd = "install" THEN "unfence" ELSE "idle")
  <2>1. (IF op.cmd = "install" THEN "unfence" ELSE "idle") \in PCs \ {"rename", "pend"}
    BY DEF PCs
  <2> QED BY <1>1, <1>7, <2>1, WriteTyped DEF PCs
<1> QED BY <1>2, <1>4, <1>5, <1>6, <1>7 DEF commit_operation

LEMMA NextTyped == Typed /\ [Next]_vars => Typed'
<1> SUFFICES ASSUME Typed, [Next]_vars PROVE Typed'
  OBVIOUS
<1>1. op.old \in SlotState /\ op.next \in SlotState BY DEF Typed, TypeOK, Calls
<1>2. CASE save_state("unpend", op.next, "idle", "idle")
  BY <1>1, <1>2, WriteTyped DEF PCs
<1>3. CASE abort_operation
  BY SMT, <1>1, <1>3, RestoreTyped, WriteTyped DEF abort_operation, PCs
<1>4. CASE Crash
  <2>1. FilesTyped' BY <1>4 DEF Crash, Typed, TypeOK, FilesTyped
  <2> QED BY <1>4, <2>1, VersionFacts, StepTyped DEF Crash
<1>5. CASE UNCHANGED vars
  BY <1>5 DEF vars, Typed, TypeOK
<1> QED BY <1>2, <1>3, <1>4, <1>5, CallTyped, RecoverTyped, StageTyped, OperationTyped,
           FenceTyped, CommitTyped DEF Next

\* Every file holds what the slot manager can write to it, for every set of
\* versions and wherever a call is interrupted.
THEOREM SlotsTypeCorrect == Spec => []TypeOK
<1>1. Init => Typed BY InitTyped
<1>2. Typed /\ [Next]_vars => Typed' BY NextTyped
<1>3. Typed => TypeOK BY DEF Typed
<1> QED BY <1>1, <1>2, <1>3, PTL DEF Spec

-----------------------------------------------------------------------------
(* The appliance can always boot.                                          *)

\* What Bootable says of the files alone.
DiskOK ==
  /\ Journalled => validate_operation(journal) /\ Projectable(journal)
  /\ ~Journalled => Mirrored

LEMMA Quiet == ASSUME DiskOK', op'.pc \in {"idle", "recover"} PROVE Bootable'
BY DEF DiskOK, Bootable, Unjournalled, Recovering, Mutating

LEMMA DiskKept ==
  ASSUME Bootable, UNCHANGED <<slots, link, stateFile, journal>>
  PROVE  DiskOK'
BY DEF Bootable, DiskOK, Journalled, Mirrored, LinksAre, Projectable,
       validate_operation, validate_journal_state

\* More slots make no operation invalid.
LEMMA ValidGrows ==
  ASSUME NEW o, validate_operation(o), journal' = o, slots \subseteq slots'
  PROVE  validate_operation(journal)'
BY DEF validate_operation, validate_journal_state

LEMMA JournalFacts ==
  ASSUME Typed, Bootable, Journalled
  PROVE  /\ validate_operation(journal)
         /\ link["current"] \in {journal.old.current, journal.next.current}
         /\ journal.next.current # None
         /\ {journal.old.current, journal.old.previous,
             journal.next.current, journal.next.previous} \subseteq slots \cup {None}
<1>1. journal \in [kind : Commands \cup {"none"}, old : SlotState, next : SlotState]
  BY DEF Typed, TypeOK, SlotOperation, Commands
<1>2. validate_operation(journal) /\ Projectable(journal) BY DEF Bootable
<1> QED BY <1>1, <1>2, ValidFacts DEF Projectable

\* A step that only moves a pointer, to one side of the journal.
LEMMA PointerMoves ==
  ASSUME Typed, Bootable, Journalled, UNCHANGED <<slots, journal>>,
         link'["current"] \in {journal.old.current, journal.next.current}
  PROVE  DiskOK' /\ Journalled'
<1>1. validate_operation(journal)' BY JournalFacts, ValidGrows
<1> QED BY <1>1 DEF DiskOK, Journalled, Projectable

LEMMA RestoreCurrentBoots ==
  ASSUME Typed, Bootable,
         restore_current("recCurrent", "recPrevious") \/ restore_current("abCurrent", "abPrevious")
  PROVE  Bootable'
<1>1. /\ op \in Calls /\ link \in [Links -> OptVersion] /\ UNCHANGED <<slots, journal, stateFile>>
      /\ op.pc \in {"recCurrent", "abCurrent"}
  BY DEF Typed, TypeOK, restore_current
<1>2. Journalled /\ op.old \in {journal.old, journal.next}
  BY <1>1 DEF Bootable, Recovering, Mutating
<1>3. PICK failed \in BOOLEAN, to \in {"recPrevious", "abPrevious"} :
        /\ link' = [link EXCEPT !["current"] = op.old.current] \/ (failed /\ link' = link)
        /\ op' = [op EXCEPT !.pc = to, !.failed = failed]
        /\ (to = "abPrevious") <=> (op.pc = "abCurrent")
  BY <1>1 DEF restore_current, write_link
<1>4. link'["current"] \in {link["current"], op.old.current} /\ (~failed => link'["current"] = op.old.current)
  BY <1>1, <1>3 DEF Links
<1>5. DiskOK' /\ Journalled'
  BY <1>1, <1>2, <1>4, JournalFacts, PointerMoves
<1>6. op'.pc = to /\ op'.failed = failed /\ op'.old = op.old /\ op'.next = op.next
  BY <1>1, <1>3 DEF Calls
<1>7. op.pc = "abCurrent" => journal.old = op.old /\ journal.next = op.next
  BY DEF Bootable, Mutating
<1> QED BY <1>1, <1>2, <1>3, <1>4, <1>5, <1>6, <1>7
        DEF Bootable, DiskOK, Unjournalled, Recovering, Mutating

LEMMA RestorePreviousBoots ==
  ASSUME Typed, Bootable,
         restore_previous("recPrevious", "recSave") \/ restore_previous("abPrevious", "abSave")
  PROVE  Bootable'
<1>1. /\ op \in Calls /\ link \in [Links -> OptVersion] /\ UNCHANGED <<slots, journal, stateFile>>
      /\ op.pc \in {"recPrevious", "abPrevious"}
  BY DEF Typed, TypeOK, restore_previous
<1>2. Journalled /\ op.old \in {journal.old, journal.next}
  BY <1>1 DEF Bootable, Recovering, Mutating
<1>3. link'["current"] = link["current"]
  BY <1>1 DEF restore_previous, Attempt, write_link, Links
<1>4. DiskOK' /\ Journalled'
  BY <1>1, <1>2, <1>3, JournalFacts, PointerMoves
<1>5. CASE Goto("idle")
  BY <1>1, <1>4, <1>5, GotoFacts, Quiet DEF PCs
<1>6. CASE ~Goto("idle")
  <2>1. PICK to \in {"recSave", "abSave"} :
          /\ ~op.failed /\ link' = [link EXCEPT !["previous"] = op.old.previous] /\ Goto(to)
          /\ (to = "abSave") <=> (op.pc = "abPrevious")
    BY <1>6 DEF restore_previous, Attempt, write_link
  <2>2. op'.pc = to /\ op'.old = op.old /\ op'.next = op.next
    BY <1>1, <2>1, GotoFacts DEF PCs
  <2>3. LinksAre(op.old)'
    BY <1>1, <1>3, <2>1, <2>2 DEF LinksAre, Links, Bootable
  <2>4. op.pc = "abPrevious" => journal.old = op.old /\ journal.next = op.next
    BY DEF Bootable, Mutating
  <2> QED BY <1>1, <1>2, <1>4, <2>1, <2>2, <2>3, <2>4
          DEF Bootable, DiskOK, Unjournalled, Recovering, Mutating
<1> QED BY <1>5, <1>6

LEMMA SaveBoots ==
  ASSUME Typed, Bootable,
         \/ save_state("recSave", op.old, "recClear", "idle")
         \/ save_state("abSave", op.old, "abClear", "idle")
         \/ save_state("save", op.next, "clear", "abCurrent")
  PROVE  Bootable'
<1>1. op \in Calls /\ UNCHANGED <<slots, link, journal>> /\ op.pc \in {"recSave", "abSave", "save"}
  BY DEF Typed, TypeOK, save_state
<1>2. Journalled BY <1>1 DEF Bootable, Recovering, Mutating
<1>3. DiskOK' /\ Journalled'
  BY <1>1, <1>2, JournalFacts, PointerMoves
<1>4. CASE Goto("idle")
  BY <1>1, <1>3, <1>4, GotoFacts, Quiet DEF PCs
<1>5. CASE op.pc = "recSave" /\ Goto("recClear") /\ stateFile' = op.old
  <2>1. op'.pc = "recClear" /\ op'.old = op.old BY <1>1, <1>5, GotoFacts DEF PCs
  <2> QED BY <1>1, <1>3, <1>5, <2>1
          DEF Bootable, DiskOK, Unjournalled, Recovering, Mutating, LinksAre
<1>6. CASE op.pc = "abSave" /\ Goto("abClear") /\ stateFile' = op.old
  <2>1. op'.pc = "abClear" /\ op'.old = op.old /\ op'.next = op.next
    BY <1>1, <1>6, GotoFacts DEF PCs
  <2> QED BY <1>1, <1>3, <1>6, <2>1
          DEF Bootable, DiskOK, Unjournalled, Recovering, Mutating, LinksAre
<1>7. CASE op.pc = "save" /\ Goto("clear") /\ stateFile' = op.next
  <2>1. op'.pc = "clear" /\ op'.old = op.old /\ op'.next = op.next
    BY <1>1, <1>7, GotoFacts DEF PCs
  <2> QED BY <1>1, <1>3, <1>7, <2>1
          DEF Bootable, DiskOK, Unjournalled, Recovering, Mutating, LinksAre
<1>8. CASE op.pc = "save" /\ Goto("abCurrent")
  <2>1. op'.pc = "abCurrent" /\ op'.old = op.old /\ op'.next = op.next
    BY <1>1, <1>8, GotoFacts DEF PCs
  <2> QED BY <1>1, <1>3, <1>8, <2>1
          DEF Bootable, DiskOK, Unjournalled, Recovering, Mutating
<1> QED BY <1>4, <1>5, <1>6, <1>7, <1>8 DEF save_state, Attempt

\* Clearing the journal leaves state.json and the pointers on the same side.
LEMMA ClearBoots ==
  ASSUME Typed, Bootable, NEW ok \in {"run", "unfence", "idle"},
         clear_operation("recClear", ok) \/ clear_operation("clear", ok) \/ clear_operation("abClear", ok)
  PROVE  Bootable'
<1>1. /\ op \in Calls /\ UNCHANGED <<slots, link, stateFile>>
      /\ op.pc \in {"recClear", "clear", "abClear"}
  BY DEF Typed, TypeOK, clear_operation
<1>2. Journalled BY <1>1 DEF Bootable, Recovering, Mutating
<1>3. Mirrored
  <2>1. LinksAre(stateFile) /\ stateFile \in {journal.old, journal.next}
    BY <1>1, <1>2 DEF Bootable, Recovering, Mutating
  <2> QED BY <1>2, <2>1, JournalFacts DEF Mirrored, LinksAre
<1>4. CASE journal' = NoOperation
  <2>1. DiskOK' /\ ~Journalled'
    BY <1>1, <1>3, <1>4 DEF DiskOK, Journalled, NoOperation, Mirrored, LinksAre
  <2>2. Goto(ok) \/ Goto("idle") BY DEF clear_operation, Attempt
  <2>3. op'.pc \in {"run", "unfence", "idle"} BY <1>1, <2>2, GotoFacts DEF PCs
  <2> QED BY <2>1, <2>3 DEF Bootable, DiskOK, Unjournalled, Recovering, Mutating
<1>5. CASE UNCHANGED journal /\ Goto("idle")
  BY <1>1, <1>5, DiskKept, GotoFacts, Quiet DEF PCs
<1> QED BY <1>4, <1>5 DEF clear_operation, Attempt

LEMMA RecoverBoots == Typed /\ Bootable /\ Recover => Bootable'
<1> SUFFICES ASSUME Typed, Bootable, Recover PROVE Bootable'
  OBVIOUS
<1>1. op \in Calls /\ DiskOK' BY DiskKept DEF Typed, TypeOK, Recover
<1>2. CASE Goto("idle") BY <1>1, <1>2, GotoFacts, Quiet DEF PCs
<1>3. CASE ~Journalled /\ Goto("run")
  <2>1. op'.pc = "run" BY <1>1, <1>3, GotoFacts DEF PCs
  <2> QED BY <1>1, <1>3, <2>1
          DEF Bootable, DiskOK, Unjournalled, Recovering, Mutating, Journalled, Recover
<1>4. CASE Journalled /\ op' = [op EXCEPT !.pc = "recCurrent", !.old = project_operation_state(journal)]
  <2>1. op'.pc = "recCurrent" /\ op'.old = project_operation_state(journal)
    BY <1>1, <1>4 DEF Calls
  <2>2. op'.old \in {journal.old, journal.next} BY <2>1 DEF project_operation_state
  <2> QED BY <1>1, <1>4, <2>1, <2>2
          DEF Bootable, DiskOK, Unjournalled, Recovering, Mutating, Journalled, Recover
<1> QED BY <1>2, <1>3, <1>4 DEF Recover, Journalled

\* Without a journal the recovered state is what the pointers say.
LEMMA ReadFacts ==
  ASSUME Typed, Mirrored
  PROVE  LinksAre(state_without_operation)
<1> DEFINE s == [current  |-> IF link["current"] # None THEN link["current"] ELSE stateFile.current,
                 previous |-> IF link["previous"] # None THEN link["previous"] ELSE stateFile.previous,
                 pending  |-> IF link["current"] # None /\ stateFile.pending = link["current"]
                              THEN None ELSE stateFile.pending,
                 minimum  |-> stateFile.minimum]
<1>1. s.current = link["current"] /\ s.previous = link["previous"]
  BY DEF Mirrored, LinksAre
<1>2. state_without_operation = apply_installation_floor(s)
  BY DEF state_without_operation
<1>3. apply_installation_floor(s).current = s.current /\ apply_installation_floor(s).previous = s.previous
  BY DEF apply_installation_floor
<1> QED BY <1>1, <1>2, <1>3 DEF LinksAre

LEMMA DecideBoots ==
  ASSUME Typed, Bootable, NEW cmd, NEW allowed \in BOOLEAN,
         NEW to \in {"rename", "unpend", "journal", "fence"}, NEW next,
         Decide(cmd, allowed, to, next),
         allowed /\ to \in {"rename", "unpend"} => LinksAre(next),
         allowed /\ to = "rename" => op.arg \notin slots \cup {None}
  PROVE  Bootable'
<1>1. op \in Calls /\ op.pc = "run" /\ UNCHANGED <<slots, link, stateFile, journal>>
  BY DEF Typed, TypeOK, Decide
<1>2. DiskOK' BY <1>1, DiskKept
<1>3. ~Journalled /\ Mirrored BY <1>1 DEF Bootable, Unjournalled
<1>4. CASE ~allowed
  BY <1>2, <1>4, Quiet, VersionFacts DEF Decide
<1>5. CASE allowed
  <2>1. op' = [op EXCEPT !.pc = to, !.old = state_without_operation, !.next = next]
    BY <1>5 DEF Decide
  <2>2. op'.pc = to /\ op'.old = state_without_operation /\ op'.next = next /\ op'.arg = op.arg
    BY <1>1, <2>1 DEF Calls
  <2>3. LinksAre(state_without_operation) BY <1>3, ReadFacts
  <2>4. ~Journalled' BY <1>1, <1>3 DEF Journalled
  <2>5. to = "rename" => op'.arg \notin {link'["current"], link'["previous"]}
    BY <1>1, <1>3, <1>5, <2>2 DEF Mirrored
  <2>6. to \in {"rename", "unpend"} => LinksAre(op.next)'
    BY <1>1, <1>5, <2>2 DEF LinksAre
  <2>7. link'["current"] = op'.old.current BY <1>1, <2>2, <2>3 DEF LinksAre
  <2> QED BY <1>2, <2>2, <2>4, <2>5, <2>6, <2>7
          DEF Bootable, DiskOK, Unjournalled, Recovering, Mutating
<1> QED BY <1>4, <1>5

LEMMA StageBoots == Typed /\ Bootable /\ (StageDecide \/ StageRename \/ StagePend) => Bootable'
<1> SUFFICES ASSUME Typed, Bootable, StageDecide \/ StageRename \/ StagePend PROVE Bootable'
  OBVIOUS
<1>1. op \in Calls /\ state_without_operation \in SlotState
  BY StateTypes DEF Typed, TypeOK
<1>2. CASE StageDecide
  <2> DEFINE s == state_without_operation
             next == [s EXCEPT !.pending = op.arg]
  <2>1. op.pc = "run" /\ op.cmd = "stage" BY <1>2 DEF StageDecide, Decide
  <2>2. LinksAre(s) BY <2>1, ReadFacts DEF Bootable, Unjournalled
  <2>3. LinksAre(next) BY <1>1, <2>2 DEF LinksAre, SlotState
  <2>4. op.arg # None BY <2>1, VersionFacts DEF Typed
  <2> QED BY <1>2, <2>3, <2>4, DecideBoots DEF StageDecide
<1>3. CASE StageRename
  <2>1. op.pc = "rename" /\ slots \subseteq slots' /\ UNCHANGED <<link, stateFile, journal>>
    BY <1>3 DEF StageRename
  <2>2. ~Journalled /\ Mirrored BY <2>1 DEF Bootable, Unjournalled
  <2>3. DiskOK' /\ ~Journalled' BY <2>1, <2>2 DEF DiskOK, Journalled, Mirrored, LinksAre
  <2>4. CASE Goto("idle") BY <1>1, <2>3, <2>4, GotoFacts, Quiet DEF PCs
  <2>5. CASE Goto("pend")
    <3>1. op'.pc = "pend" /\ op'.arg = op.arg /\ op'.next = op.next
      BY <1>1, <2>5, GotoFacts DEF PCs
    <3> QED BY <2>1, <2>3, <3>1
            DEF Bootable, DiskOK, Unjournalled, Recovering, Mutating, LinksAre
  <2> QED BY <1>3, <2>4, <2>5 DEF StageRename
<1>4. CASE StagePend
  <2>1. /\ op.pc = "pend" /\ slots \ {op.arg} \subseteq slots' /\ UNCHANGED <<link, journal>>
        /\ stateFile' \in {stateFile, op.next}
    BY <1>4 DEF StagePend
  <2>2. ~Journalled /\ Mirrored /\ LinksAre(op.next) /\ op.arg \notin {link["current"], link["previous"]}
    BY <2>1 DEF Bootable, Unjournalled
  <2>3. DiskOK' BY <2>1, <2>2 DEF DiskOK, Journalled, Mirrored, LinksAre
  <2> QED BY <1>1, <1>4, <2>3, GotoFacts, Quiet DEF StagePend, PCs
<1> QED BY <1>2, <1>3, <1>4

LEMMA OperationBoots ==
  Typed /\ Bootable /\ (activate \/ rollback \/ begin_installation \/ install_baseline) => Bootable'
<1> SUFFICES ASSUME Typed, Bootable, activate \/ rollback \/ begin_installation \/ install_baseline
             PROVE  Bootable'
  OBVIOUS
<1> DEFINE s == state_without_operation
<1>1. op \in Calls /\ s \in SlotState /\ op.pc = "run"
  BY StateTypes DEF Typed, TypeOK, activate, rollback, begin_installation, install_baseline, Decide
<1>2. ~Journalled /\ Mirrored /\ LinksAre(s)
  BY <1>1, ReadFacts DEF Bootable, Unjournalled
<1>3. LinksAre([s EXCEPT !.pending = None])
  BY <1>1, <1>2 DEF LinksAre, SlotState
<1> HIDE DEF s
<1>4. CASE activate
  <2> DEFINE swap == [current |-> op.arg, previous |-> s.current, pending |-> None, minimum |-> op.arg]
             forward == ~UnknownInstalledVersion(s) /\ validate_forward_upgrade(op.arg, upgrade_floor(s))
  <2>1. CASE Decide("activate", op.arg \in slots, "unpend", [s EXCEPT !.pending = None])
    <3> DEFINE next == [s EXCEPT !.pending = None]
               present == op.arg \in slots
    <3>1. LinksAre(next) /\ Decide("activate", present, "unpend", next) BY <1>3, <2>1
    <3>2. present \in BOOLEAN BY SMT
    <3> HIDE DEF next, present
    <3> QED BY <3>1, <3>2, DecideBoots
  <2>2. CASE Decide("activate", op.arg \in slots /\ forward, "journal", swap)
    <3>1. (op.arg \in slots /\ forward) \in BOOLEAN OBVIOUS
    <3> HIDE DEF swap, forward
    <3> QED BY <2>2, <3>1, DecideBoots
  <2> QED BY <1>4, <2>1, <2>2 DEF activate, s
<1>5. CASE rollback
  BY <1>5, DecideBoots DEF rollback
<1>6. CASE begin_installation
  <2>1. installation_minimum_allowed(s, op.minimum) \in BOOLEAN
    BY DEF installation_minimum_allowed, AtLeast
  <2> QED BY <1>6, <2>1, DecideBoots DEF begin_installation, s
<1>7. CASE install_baseline
  <2>1. slots \subseteq slots' /\ UNCHANGED <<link, stateFile, journal>>
    BY <1>7 DEF install_baseline
  <2>2. DiskOK' /\ ~Journalled' BY <1>2, <2>1 DEF DiskOK, Journalled, Mirrored, LinksAre
  <2>3. CASE op' = NoCall BY <2>2, <2>3, Quiet, VersionFacts
  <2>4. CASE op' = [op EXCEPT !.pc = "journal", !.old = s,
                    !.next = [EmptyState EXCEPT !.current = op.arg, !.minimum = op.minimum]]
    <3>1. op'.pc = "journal" /\ op'.old = s BY <1>1, <2>4 DEF Calls
    <3>2. link'["current"] = op'.old.current BY <1>2, <2>1, <3>1 DEF LinksAre
    <3> QED BY <2>2, <3>1, <3>2 DEF Bootable, DiskOK, Unjournalled, Recovering, Mutating
  <2> QED BY <1>7, <2>3, <2>4 DEF install_baseline, s
<1> QED BY <1>4, <1>5, <1>6, <1>7

LEMMA BeginBoots == Typed /\ Bootable /\ begin_operation => Bootable'
<1> SUFFICES ASSUME Typed, Bootable, begin_operation PROVE Bootable'
  OBVIOUS
<1> DEFINE o == [kind |-> op.cmd, old |-> op.old, next |-> op.next]
<1>1. /\ op \in Calls /\ op.pc = "journal" /\ UNCHANGED <<slots, link, stateFile>>
      /\ op.cmd \in Commands /\ op.cmd # "none"
  BY DEF Typed, TypeOK, Calls, Commands, Kinds, begin_operation
<1>2. CASE UNCHANGED journal /\ Goto("idle")
  BY <1>1, <1>2, DiskKept, GotoFacts, Quiet DEF PCs
<1>3. CASE validate_operation(o) /\ journal' = o
  <2>1. validate_operation(journal)' BY <1>1, <1>3, ValidGrows
  <2>2. link["current"] = op.old.current BY <1>1 DEF Bootable
  <2>3. DiskOK' /\ Journalled'
    BY <1>1, <1>3, <2>1, <2>2 DEF DiskOK, Journalled, Projectable
  <2>4. Goto("linkA") \/ Goto("idle") BY DEF begin_operation, Attempt
  <2>5. CASE Goto("idle") BY <1>1, <2>3, <2>5, GotoFacts, Quiet DEF PCs
  <2>6. CASE Goto("linkA")
    <3>1. op'.pc = "linkA" /\ op'.old = op.old /\ op'.next = op.next
      BY <1>1, <2>6, GotoFacts DEF PCs
    <3> QED BY <1>3, <2>3, <3>1 DEF Bootable, DiskOK, Unjournalled, Recovering, Mutating
  <2> QED BY <2>4, <2>5, <2>6
<1> QED BY <1>2, <1>3 DEF begin_operation, Attempt

LEMMA MutateBoots ==
  ASSUME Typed, Bootable,
         \/ mutate("linkA", IF op.cmd = "rollback" THEN "current" ELSE "previous", "linkB")
         \/ mutate("linkB", IF op.cmd = "rollback" THEN "previous" ELSE "current", "save")
  PROVE  Bootable'
<1>1. /\ op \in Calls /\ link \in [Links -> OptVersion] /\ UNCHANGED <<slots, journal, stateFile>>
      /\ op.pc \in {"linkA", "linkB"}
  BY DEF Typed, TypeOK, mutate
<1>2. Journalled /\ journal.old = op.old /\ journal.next = op.next
  BY <1>1 DEF Bootable, Mutating
<1>3. PICK name \in Links :
        /\ link' \in {link, [link EXCEPT ![name] = op.next[name]]}
        /\ name = "current" <=> (op.pc = "linkA" <=> op.cmd = "rollback")
        /\ \/ Goto("abCurrent")
           \/ /\ Goto(IF op.pc = "linkA" THEN "linkB" ELSE "save")
              /\ link' = [link EXCEPT ![name] = op.next[name]]
  BY <1>1 DEF mutate, Attempt, write_link, Links
<1>4. link'["current"] \in {link["current"], op.next.current}
  BY <1>1, <1>3 DEF Links
<1>5. DiskOK' /\ Journalled'
  BY <1>1, <1>2, <1>4, JournalFacts, PointerMoves
<1>6. CASE Goto("abCurrent")
  <2>1. op'.pc = "abCurrent" /\ op'.old = op.old /\ op'.next = op.next
    BY <1>1, <1>6, GotoFacts DEF PCs
  <2> QED BY <1>1, <1>2, <1>5, <2>1 DEF Bootable, DiskOK, Unjournalled, Recovering, Mutating
<1>7. CASE op.pc = "linkA" /\ Goto("linkB") /\ link' = [link EXCEPT ![name] = op.next[name]]
  <2>1. op'.pc = "linkB" /\ op'.old = op.old /\ op'.next = op.next /\ op'.cmd = op.cmd
    BY <1>1, <1>7, GotoFacts DEF PCs
  <2>2. IF op'.cmd = "rollback" THEN link'["current"] = op'.next.current
                                ELSE link'["previous"] = op'.next.previous
    BY <1>1, <1>3, <1>7, <2>1 DEF Links
  <2> QED BY <1>1, <1>2, <1>5, <2>1, <2>2 DEF Bootable, DiskOK, Unjournalled, Recovering, Mutating
<1>8. CASE op.pc = "linkB" /\ Goto("save") /\ link' = [link EXCEPT ![name] = op.next[name]]
  <2>1. op'.pc = "save" /\ op'.old = op.old /\ op'.next = op.next
    BY <1>1, <1>8, GotoFacts DEF PCs
  <2>2. LinksAre(op.next)'
    BY <1>1, <1>3, <1>8, <2>1 DEF Links, LinksAre, Bootable
  <2> QED BY <1>1, <1>2, <1>5, <2>1, <2>2 DEF Bootable, DiskOK, Unjournalled, Recovering, Mutating
<1> QED BY <1>1, <1>3, <1>6, <1>7, <1>8

LEMMA NextBoots == Typed /\ Bootable /\ [Next]_vars => Bootable'
<1> SUFFICES ASSUME Typed, Bootable, [Next]_vars PROVE Bootable'
  OBVIOUS
<1>1. op \in Calls BY DEF Typed, TypeOK
<1>2. CASE CallAny
  <2>1. PICK cmd, v, m : Call(cmd, v, m) BY <1>2 DEF CallAny
  <2>2. op'.pc = "recover" BY <2>1 DEF Call, NoCall
  <2> QED BY <2>1, <2>2, DiskKept, Quiet DEF Call
<1>3. CASE recover_operation
  BY <1>3, RecoverBoots, RestoreCurrentBoots, RestorePreviousBoots, SaveBoots, ClearBoots
  DEF recover_operation
<1>4. CASE commit_operation
  BY <1>4, BeginBoots, MutateBoots, SaveBoots, ClearBoots DEF commit_operation
<1>5. CASE abort_operation
  BY <1>5, RestoreCurrentBoots, RestorePreviousBoots, SaveBoots, ClearBoots DEF abort_operation
<1>6. CASE WriteFence \/ RemoveFence
  <2>1. Goto("idle") /\ UNCHANGED <<slots, link, stateFile, journal>>
    BY <1>6 DEF WriteFence, RemoveFence, Attempt
  <2> QED BY <1>1, <2>1, DiskKept, GotoFacts, Quiet DEF PCs
<1>7. CASE save_state("unpend", op.next, "idle", "idle")
  <2>1. /\ op.pc = "unpend" /\ Goto("idle") /\ UNCHANGED <<slots, link, journal>>
        /\ stateFile' \in {stateFile, op.next}
    BY <1>7 DEF save_state, Attempt
  <2>2. ~Journalled /\ Mirrored /\ LinksAre(op.next)
    BY <2>1 DEF Bootable, Unjournalled
  <2>3. DiskOK' BY <2>1, <2>2 DEF DiskOK, Journalled, Mirrored, LinksAre
  <2> QED BY <1>1, <2>1, <2>3, GotoFacts, Quiet DEF PCs
<1>8. CASE Crash
  BY <1>8, DiskKept, Quiet, VersionFacts DEF Crash
<1>9. CASE UNCHANGED vars
  BY SMT, <1>9 DEF vars, Bootable, Journalled, Mirrored, LinksAre, Projectable,
              validate_operation, validate_journal_state
<1> QED BY <1>2, <1>3, <1>4, <1>5, <1>6, <1>7, <1>8, <1>9, StageBoots, OperationBoots DEF Next

LEMMA InitBoots == Init => Bootable
<1> SUFFICES ASSUME Init PROVE Bootable
  OBVIOUS
<1>1. PICK v \in OptVersion, m \in Releases \cup {None} :
        /\ slots = {v} \ {None}
        /\ link = [n \in Links |-> IF n = "current" THEN v ELSE None]
        /\ stateFile = [EmptyState EXCEPT !.current = v, !.minimum = m]
  BY DEF Init
<1>2. link["current"] = v /\ link["previous"] = None /\ stateFile.current = v /\ stateFile.previous = None
  BY <1>1 DEF Links, EmptyState
<1>3. Mirrored BY SMT, <1>1, <1>2 DEF Mirrored, LinksAre
<1>4. ~Journalled /\ op.pc = "idle" BY VersionFacts DEF Init, Journalled, NoOperation
<1> QED BY <1>3, <1>4 DEF Bootable, Unjournalled, Recovering, Mutating

\* Once a release is installed the boot pointer names a complete slot and
\* agrees with the journal: for every set of versions, wherever the slot
\* manager stops and however often its recovery is itself interrupted.
THEOREM SlotsAlwaysBootable == Spec => []AlwaysBootable
<1>1. Init => Typed /\ Bootable BY InitTyped, InitBoots
<1>2. Typed /\ Bootable /\ [Next]_vars => (Typed /\ Bootable)' BY NextTyped, NextBoots
<1>3. Typed /\ Bootable => AlwaysBootable
  <2> SUFFICES ASSUME Typed, Bootable, Settled.current # None PROVE link["current"] \in slots
    BY DEF AlwaysBootable, Bootable, Journalled
  <2>1. CASE Undecided
    <3>1. Journalled /\ journal.old = op.old BY <2>1 DEF Undecided, Bootable, Mutating
    <3>2. op.old.current # None BY <2>1 DEF Settled
    <3> QED BY <3>1, <3>2, JournalFacts
  <2>2. CASE ~Undecided /\ ~Journalled
    <3>1. Mirrored BY <2>2 DEF Bootable
    <3>2. Settled = state_without_operation BY <2>2 DEF Settled, state, Journalled
    <3>3. link["current"] # None BY <3>1, <3>2, ReadFacts DEF LinksAre
    <3> QED BY <3>1, <3>3 DEF Mirrored
  <2>3. CASE ~Undecided /\ Journalled
    <3>1. Settled = apply_installation_floor(project_operation_state(journal))
      BY <2>3 DEF Settled, state, Journalled
    <3>2. \A s : apply_installation_floor(s).current = s.current
      BY SMT DEF apply_installation_floor
    <3>3. project_operation_state(journal).current = link["current"]
      BY <2>3, JournalFacts DEF project_operation_state
    <3> QED BY <2>3, <3>1, <3>2, <3>3, JournalFacts
  <2> QED BY <2>1, <2>2, <2>3
<1> QED BY <1>1, <1>2, <1>3, PTL DEF Spec

\* At rest with no journal, state.json and the symlinks agree and a rollback
\* returns to a complete slot, for every set of versions.
THEOREM SlotsMirrorAgrees == Spec => []MirrorAgrees
<1>1. Init => Typed /\ Bootable BY InitTyped, InitBoots
<1>2. Typed /\ Bootable /\ [Next]_vars => (Typed /\ Bootable)' BY NextTyped, NextBoots
<1>3. Bootable => MirrorAgrees
  BY DEF Bootable, MirrorAgrees, Mirrored, LinksAre, Journalled
<1> QED BY <1>1, <1>2, <1>3, PTL DEF Spec

-----------------------------------------------------------------------------
(***************************************************************************)
(* The refinement. Every step of a command, of an interruption or of a     *)
(* recovery is a whole operation of the table or changes nothing of it.    *)
(* What a journal is going to do (Shape) is fixed when it is written, so   *)
(* that the step that publishes it is the step of the table, and a         *)
(* recovery leaves what the journal says.                                  *)
(***************************************************************************)

(* A rollback never returns to a release above the floor. *)
Covered(s) ==
  s.previous \in Releases => upgrade_floor(s) # None /\ Rank(upgrade_floor(s)) >= Rank(s.previous)

\* What a floor may be.
Floor == Releases \cup {None}

(* The floor an announced installation has recorded is below m. *)
IntentBelow(m) == intent.pending => AtLeast(m, intent.minimum)

(* What the operations write into their journal. *)
Shape(kind, old, next) ==
  /\ kind = "activate" => next.minimum = next.current
  /\ kind = "rollback" => next.minimum = upgrade_floor(old)
  /\ kind = "install" => next.current \in Baselines /\ next.minimum \in Floor /\ IntentBelow(next.minimum)
  /\ kind \in {"activate", "rollback"} => ~intent.pending
  /\ Covered(old) /\ Covered(next)

\* What a command has read before it began.
CallKept ==
  /\ intent.minimum \in Floor
  /\ op.pc # "idle" => op.minimum \in Floor /\ (op.cmd = "install" => op.arg \in Baselines)
  /\ op.pc # "idle" /\ op.cmd \in {"stage", "activate", "rollback"} => ~intent.pending

\* The state on disk, with or without a journal.
DiskShape ==
  /\ ~Journalled => Covered(state_without_operation)
  /\ Journalled => Shape(journal.kind, journal.old, journal.next)

\* What a command relies on at each of its steps.
StepShape ==
  /\ op.pc \in Recovering => op.old = project_operation_state(journal)
  /\ op.pc = "journal" => op.old = state_without_operation /\ Shape(op.cmd, op.old, op.next)
  /\ op.pc \in Mutating => apply_installation_floor(op.old) = op.old /\ journal.kind = op.cmd
  /\ op.pc = "unfence" => IntentBelow(stateFile.minimum)
  /\ op.pc = "fence" => installation_minimum_allowed(state_without_operation, op.minimum)
  /\ op.pc \in {"rename", "pend", "unpend"} => op.next.minimum = stateFile.minimum /\ op.cmd \in {"stage", "activate"}

Atomic == CallKept /\ DiskShape /\ StepShape

(* What the table may do between two settled states. *)
Moves(s, t) ==
  \/ /\ t.current \in Version /\ t.current # s.current /\ t.previous = s.current
     /\ upgrade_floor(t) = t.current
     /\ upgrade_floor(s) = None \/ Rank(t.current) > Rank(upgrade_floor(s))
  \/ /\ s.previous # None /\ t.current = s.previous /\ t.previous = s.current
     /\ upgrade_floor(t) = upgrade_floor(s)
  \/ /\ t.current \in Baselines /\ t.previous = None
     /\ upgrade_floor(t) \in Floor /\ AtLeast(upgrade_floor(t), upgrade_floor(s))
  \/ /\ t.current = s.current /\ t.previous = s.previous
     /\ upgrade_floor(t) \in Releases /\ AtLeast(upgrade_floor(t), upgrade_floor(s))
  \/ /\ t.current = s.current /\ t.previous = s.previous
     /\ upgrade_floor(t) = upgrade_floor(s)

LEMMA MovesAreSteps ==
  ASSUME Moves(Settled, Settled')
  PROVE  Table!Next \/ UNCHANGED <<Settled.current, Settled.previous, upgrade_floor(Settled)>>
BY DEF Moves, Table!Next, Table!Activate, Table!Rollback, Table!Install, Table!Announce,
       Table!AtLeast, Table!Rank, Table!None, AtLeast, Rank, None, Floor, Version

LEMMA VersionNumbers ==
  /\ \A v \in OptVersion : v \in Int
  /\ \A v \in Releases : v \in Int /\ v > 0 /\ v \in OptVersion
  /\ \A v \in Baselines : v \in Int /\ v < 0 /\ v \in OptVersion
  /\ None = 0 /\ None \in OptVersion
BY SMT, VersionAssumption DEF OptVersion, Version, None

LEMMA FloorFacts ==
  ASSUME NEW s \in SlotState
  PROVE  /\ upgrade_floor(s) \in {s.minimum, s.current}
         /\ s.minimum # None => upgrade_floor(s) # None /\ Rank(upgrade_floor(s)) >= Rank(s.minimum)
         /\ s.current \in Releases => upgrade_floor(s) # None /\ Rank(upgrade_floor(s)) >= Rank(s.current)
         /\ upgrade_floor(s) = s.current /\ s.current # None => s.current \in Releases \/ s.minimum = s.current
<1>1. s.current \in OptVersion /\ s.minimum \in OptVersion
  BY DEF SlotState
<1>2. s.current \in Int /\ s.minimum \in Int /\ None = 0 /\ \A v \in Releases : v > 0
  BY <1>1, VersionNumbers
<1>3. upgrade_floor(s) \in {s.minimum, s.current}
  BY DEF upgrade_floor
<1>4. s.minimum # None => upgrade_floor(s) # None /\ Rank(upgrade_floor(s)) >= Rank(s.minimum)
  BY SMT, <1>2 DEF upgrade_floor, Rank
<1>5. s.current \in Releases => upgrade_floor(s) # None /\ Rank(upgrade_floor(s)) >= Rank(s.current)
  BY SMT, <1>2 DEF upgrade_floor, Rank
<1>6. upgrade_floor(s) = s.current /\ s.current # None => s.current \in Releases \/ s.minimum = s.current
  BY DEF upgrade_floor
<1> QED
  BY <1>3, <1>4, <1>5, <1>6

(* Two states that agree on the pointers and the minimum are one to the table. *)
LEMMA SameTable ==
  ASSUME NEW s, NEW t, s.current = t.current, s.previous = t.previous, s.minimum = t.minimum
  PROVE  /\ upgrade_floor(s) = upgrade_floor(t) /\ UnknownInstalledVersion(s) = UnknownInstalledVersion(t)
         /\ Covered(s) = Covered(t) /\ Moves(s, t)
BY DEF upgrade_floor, UnknownInstalledVersion, Covered, Moves

LEMMA RaiseFacts ==
  ASSUME Typed, intent.minimum \in Floor, NEW s \in SlotState, NEW t, t = apply_installation_floor(s)
  PROVE  /\ t \in SlotState /\ t.current = s.current /\ t.previous = s.previous
         /\ apply_installation_floor(t) = t /\ IntentBelow(t.minimum)
         /\ IntentBelow(s.minimum) => t = s
         /\ s.minimum \in Floor => t.minimum \in Floor
         /\ s.minimum # None => t.minimum # None /\ Rank(t.minimum) >= Rank(s.minimum)
         /\ Covered(s) => Covered(t)
<1>0. /\ s.current \in OptVersion /\ s.minimum \in OptVersion /\ s.previous \in OptVersion
      /\ intent.minimum \in OptVersion
  BY DEF Typed, TypeOK, SlotState
<1>1. /\ s.current \in Int /\ s.minimum \in Int /\ s.previous \in Int /\ intent.minimum \in Int
      /\ intent.minimum \in OptVersion /\ (\A v \in Releases : v > 0)
  BY <1>0, VersionNumbers
<1>2. CASE ~(intent.pending /\ intent.minimum # None /\ ~AtLeast(s.minimum, intent.minimum))
  <2>1. t = s
    BY <1>2 DEF apply_installation_floor
  <2>2. IntentBelow(s.minimum)
    BY <1>2 DEF IntentBelow, AtLeast
  <2>3. Rank(s.minimum) >= Rank(s.minimum)
    BY SMT, <1>1 DEF Rank
  <2> QED
    BY <2>1, <2>2, <2>3
<1>3. CASE intent.pending /\ intent.minimum # None /\ ~AtLeast(s.minimum, intent.minimum)
  <2>1. t = [s EXCEPT !.minimum = intent.minimum]
    BY <1>3 DEF apply_installation_floor
  <2>2. t \in SlotState /\ t.current = s.current /\ t.previous = s.previous /\ t.minimum = intent.minimum
    BY <1>1, <2>1 DEF SlotState
  <2>3. AtLeast(t.minimum, intent.minimum)
    BY SMT, <1>1, <1>3, <2>2 DEF AtLeast, Rank
  <2>4. apply_installation_floor(t) = t /\ IntentBelow(t.minimum)
    BY <2>3 DEF apply_installation_floor, IntentBelow
  <2>5. ~IntentBelow(s.minimum)
    BY <1>3 DEF IntentBelow
  <2>6. s.minimum # None => Rank(t.minimum) >= Rank(s.minimum)
    BY SMT, <1>1, <1>3, <2>2 DEF AtLeast, Rank, None
  <2>7. t.minimum # None /\ t.minimum \in Floor
    BY <1>3, <2>2
  <2>8. Covered(s) => Covered(t)
    <3> SUFFICES ASSUME Covered(s), s.previous \in Releases
                 PROVE  upgrade_floor(t) # None /\ Rank(upgrade_floor(t)) >= Rank(s.previous)
      BY <2>2 DEF Covered
    <3>1. upgrade_floor(s) # None /\ Rank(upgrade_floor(s)) >= Rank(s.previous)
      BY DEF Covered
    <3>2. upgrade_floor(t) # None /\ Rank(upgrade_floor(t)) >= Rank(t.minimum)
      BY <2>2, <2>7, FloorFacts
    <3>3. /\ t.minimum \in Int /\ upgrade_floor(t) \in Int /\ upgrade_floor(s) \in Int
      BY <1>1, <2>2, FloorFacts
    <3>4. CASE upgrade_floor(s) = s.minimum
      BY SMT, <1>1, <2>6, <3>1, <3>2, <3>3, <3>4 DEF Rank
    <3>5. CASE upgrade_floor(s) = s.current /\ s.current \in Releases
      <4>1. Rank(upgrade_floor(t)) >= Rank(s.current)
        BY <2>2, <3>5, FloorFacts
      <4> QED
        BY SMT, <1>1, <3>1, <3>2, <3>3, <3>5, <4>1 DEF Rank
    <3> QED
      BY <3>1, <3>4, <3>5, FloorFacts
  <2> QED
    BY <2>2, <2>4, <2>5, <2>6, <2>7, <2>8
<1> QED
  BY <1>2, <1>3

(* A valid journal, once it takes effect, is one step of the table. *)
LEMMA Takes ==
  ASSUME Typed, intent.minimum \in Floor, NEW o \in SlotOperation, validate_operation(o),
         Shape(o.kind, o.old, o.next), NEW t, t = apply_installation_floor(o.next)
  PROVE  Moves(o.old, t)
<1>1. /\ o.old \in SlotState /\ o.next \in SlotState /\ o.kind \in Kinds \cup {"none"}
  BY DEF SlotOperation
<1>2. o.kind \in Kinds /\ o.next.current # None
  <2>1. o \in [kind : Commands \cup {"none"}, old : SlotState, next : SlotState]
    BY DEF SlotOperation, Commands
  <2> QED BY <2>1, ValidFacts
<1>3. IntentBelow(o.next.minimum) => t = o.next
  BY <1>1, RaiseFacts
<1>4. CASE o.kind = "activate"
  <2>1. t = o.next
    BY <1>3, <1>4 DEF Shape, IntentBelow
  <2>2. /\ t.current \in Version /\ t.current # o.old.current /\ t.previous = o.old.current
        /\ t.minimum = t.current
    BY <1>1, <1>2, <1>4, <2>1 DEF validate_operation, Shape, SlotState, OptVersion
  <2>3. upgrade_floor(t) = t.current
    BY <2>2 DEF upgrade_floor
  <2>4. upgrade_floor(o.old) = None \/ Rank(t.current) > Rank(upgrade_floor(o.old))
    BY <1>4, <2>1 DEF validate_operation, validate_forward_upgrade
  <2> QED BY <2>2, <2>3, <2>4 DEF Moves
<1>5. CASE o.kind = "rollback"
  <2>1. t = o.next
    BY <1>3, <1>5 DEF Shape, IntentBelow
  <2>2. /\ o.old.previous # None /\ t.current = o.old.previous /\ t.previous = o.old.current
        /\ t.minimum = upgrade_floor(o.old)
    BY <1>5, <2>1 DEF validate_operation, Shape
  <2>3. t.current \in OptVersion /\ t.minimum \in OptVersion
    BY <1>1, <2>1 DEF SlotState
  <2>4. t.current \in Releases => t.minimum # None /\ Rank(t.minimum) >= Rank(t.current)
    BY <2>2 DEF Shape, Covered
  <2>5. t.current \in Int /\ t.minimum \in Int
    BY <2>3, VersionNumbers
  <2>6. ~(t.current \in Releases /\ (t.minimum = None \/ Rank(t.current) > Rank(t.minimum)))
    BY SMT, <2>4, <2>5 DEF Rank
  <2>7. upgrade_floor(t) = upgrade_floor(o.old)
    BY <2>2, <2>6 DEF upgrade_floor
  <2> QED BY <2>2, <2>7 DEF Moves
<1>6. CASE o.kind = "install"
  <2>1. t = o.next /\ t.current \in Baselines /\ t.minimum \in Floor /\ t.previous = None
    BY <1>3, <1>6 DEF Shape, validate_operation
  <2>2. upgrade_floor(t) = t.minimum
    <3>1. t.current \notin Releases
      BY SMT, <2>1, VersionNumbers
    <3> QED BY <3>1 DEF upgrade_floor
  <2>3. AtLeast(t.minimum, upgrade_floor(o.old))
    BY <2>1 DEF validate_operation
  <2> QED BY <2>1, <2>2, <2>3 DEF Moves
<1> QED BY <1>2, <1>4, <1>5, <1>6 DEF Kinds

\* The inductive invariant of the refinement.
AtomicInv == Typed /\ Bootable /\ Atomic

LEMMA AtomicTypes ==
  ASSUME AtomicInv
  PROVE  /\ op \in Calls /\ op.old \in SlotState /\ op.next \in SlotState /\ stateFile \in SlotState
         /\ op.cmd \in Commands /\ journal \in SlotOperation /\ journal.old \in SlotState /\ journal.next \in SlotState
         /\ state_without_operation \in SlotState /\ project_operation_state(journal) \in {journal.old, journal.next}
         /\ intent.minimum \in Floor
BY StateTypes DEF AtomicInv, Typed, TypeOK, Calls, SlotOperation, Atomic, CallKept

LEMMA CallGoesOn ==
  ASSUME Atomic, UNCHANGED intent,
         op'.pc = "idle" \/ (op.pc # "idle" /\ op'.cmd = op.cmd /\ op'.arg = op.arg /\ op'.minimum = op.minimum)
  PROVE  CallKept'
BY DEF Atomic, CallKept

LEMMA NoStep == ASSUME op'.pc \in {"idle", "recover", "run"} PROVE StepShape'
BY DEF StepShape, Recovering, Mutating

LEMMA JournalStill ==
  ASSUME Atomic, Journalled, UNCHANGED <<journal, intent>>
  PROVE  DiskShape' /\ Journalled'
BY DEF Atomic, DiskShape, Journalled, Shape, IntentBelow

LEMMA DiskStill ==
  ASSUME Atomic, UNCHANGED <<link, stateFile, journal, intent>>
  PROVE  /\ DiskShape' /\ state_without_operation' = state_without_operation
         /\ ~Undecided /\ ~Undecided' => Moves(Settled, Settled')
<1>1. state_without_operation' = state_without_operation
  BY DEF state_without_operation, apply_installation_floor
<1>2. DiskShape'
  BY <1>1 DEF Atomic, DiskShape, Journalled, Shape, IntentBelow
<1>3. state' = state
  BY <1>1 DEF state, apply_installation_floor, project_operation_state
<1>4. ~Undecided /\ ~Undecided' => Settled' = Settled
  BY <1>3 DEF Settled
<1> QED BY <1>1, <1>2, <1>4, SameTable

LEMMA UndecidedFacts ==
  ASSUME AtomicInv, Undecided
  PROVE  /\ Journalled /\ journal.old = op.old /\ journal.next = op.next /\ journal.kind = op.cmd
         /\ apply_installation_floor(op.old) = op.old /\ Settled = op.old
         /\ Shape(journal.kind, journal.old, journal.next) /\ validate_operation(journal)
<1>1. op.pc \in Mutating
  BY DEF Undecided, Mutating
<1> QED
  BY <1>1 DEF AtomicInv, Atomic, StepShape, DiskShape, Bootable, Settled

(* The call ends, or is past its last write, with the journal still there: the
   operation has happened or it has not. *)
LEMMA Interrupted ==
  ASSUME AtomicInv, Undecided, ~Undecided', UNCHANGED <<journal, intent>>
  PROVE  Moves(Settled, Settled') /\ DiskShape'
<1>1. /\ Journalled /\ journal.old = op.old /\ apply_installation_floor(op.old) = op.old /\ Settled = op.old
      /\ Shape(journal.kind, journal.old, journal.next) /\ validate_operation(journal)
  BY UndecidedFacts
<1>2. DiskShape' /\ Journalled'
  BY <1>1, JournalStill DEF AtomicInv
<1>3. Settled' \in {apply_installation_floor(journal.old), apply_installation_floor(journal.next)}
  BY <1>2 DEF Settled, state, Journalled, project_operation_state, apply_installation_floor
<1>4. Moves(journal.old, apply_installation_floor(journal.next))
  BY <1>1, AtomicTypes, Takes DEF AtomicInv
<1> QED
  BY <1>1, <1>2, <1>3, <1>4, SameTable

LEMMA StillUndecided ==
  ASSUME AtomicInv, Undecided, Undecided', UNCHANGED <<journal, intent>>, op.pc # "idle",
         op'.old = op.old, op'.cmd = op.cmd, op'.arg = op.arg, op'.minimum = op.minimum
  PROVE  Moves(Settled, Settled') /\ Atomic'
<1>1. /\ Journalled /\ journal.kind = op.cmd /\ Settled = op.old /\ apply_installation_floor(op.old) = op.old
  BY UndecidedFacts
<1>2. Settled' = op.old
  BY DEF Settled
<1>3. DiskShape' /\ CallKept'
  BY <1>1, JournalStill, CallGoesOn DEF AtomicInv
<1>4. apply_installation_floor(op.old)' = op'.old /\ journal'.kind = op'.cmd
  BY <1>1 DEF apply_installation_floor
<1>5. StepShape'
  BY <1>4 DEF StepShape, Undecided, Recovering, Mutating
<1> QED
  BY <1>1, <1>2, <1>3, <1>5, SameTable DEF Atomic

(* A recovery that goes on, or gives up: the journal reads as before. *)
LEMMA StillRecovering ==
  ASSUME AtomicInv, op.pc \in Recovering, UNCHANGED <<journal, intent>>,
         link'["current"] \in {link["current"], op.old.current},
         \/ op'.pc = "idle"
         \/ /\ op'.pc \in Recovering /\ op'.old = op.old
            /\ op'.cmd = op.cmd /\ op'.arg = op.arg /\ op'.minimum = op.minimum
  PROVE  Moves(Settled, Settled') /\ Atomic'
<1>1. Journalled /\ op.old = project_operation_state(journal) /\ Projectable(journal) /\ op.pc # "idle"
  BY DEF AtomicInv, Bootable, Atomic, StepShape, Recovering
<1>2. project_operation_state(journal)' = project_operation_state(journal)
  BY <1>1 DEF project_operation_state, Projectable
<1>3. ~Undecided /\ ~Undecided'
  BY DEF Undecided, Recovering
<1>4. Settled' = Settled
  BY <1>1, <1>2, <1>3 DEF Settled, state, Journalled, apply_installation_floor
<1>5. DiskShape' /\ CallKept'
  BY <1>1, JournalStill, CallGoesOn DEF AtomicInv
<1>6. StepShape'
  BY <1>1, <1>2 DEF StepShape, Recovering, Mutating
<1> QED
  BY <1>4, <1>5, <1>6, SameTable DEF Atomic

(* The journal is cleared once the files say what it said. *)
LEMMA Cleared ==
  ASSUME AtomicInv, Typed', Bootable', ~Journalled', ~Undecided', UNCHANGED <<link, stateFile, intent>>,
         Covered(stateFile), NEW t, t = apply_installation_floor(stateFile), Settled.current = t.current,
         Settled.previous = t.previous, Settled.minimum = t.minimum
  PROVE  Moves(Settled, Settled') /\ DiskShape'
<1> DEFINE s == state_without_operation'
<1>1. Settled' = s
  BY DEF Settled, state, Journalled
<1>2. s.current = t.current /\ s.previous = t.previous /\ s.minimum = t.minimum
  <2>1. LinksAre(stateFile)
    BY DEF Bootable, Mirrored, LinksAre
  <2> QED BY SMT, <2>1 DEF state_without_operation, apply_installation_floor, LinksAre
<1>3. Covered(t)
  BY AtomicTypes, RaiseFacts DEF AtomicInv
<1> HIDE DEF s
<1>4. Moves(Settled, s) /\ Covered(s)
  BY <1>2, <1>3, SameTable
<1>5. Covered(state_without_operation)'
  BY <1>4 DEF s, Covered
<1> QED BY <1>1, <1>4, <1>5 DEF DiskShape

LEMMA ClearIsAtomic ==
  ASSUME AtomicInv, Typed', Bootable', NEW from \in {"recClear", "clear", "abClear"},
         NEW ok \in {"run", "idle", "unfence"}, clear_operation(from, ok),
         ok = "unfence" => from = "clear" /\ op.cmd = "install"
  PROVE  Moves(Settled, Settled') /\ Atomic'
<1>1. /\ op.pc = from /\ UNCHANGED <<slots, link, stateFile, intent>> /\ op.pc # "idle"
      /\ \/ journal' = NoOperation /\ (Goto(ok) \/ Goto("idle"))
         \/ UNCHANGED journal /\ Goto("idle")
  BY DEF clear_operation, Attempt
<1>2. op \in Calls /\ ok \in PCs /\ "idle" \in PCs
  BY AtomicTypes DEF PCs
<1>3. /\ op'.pc \in {ok, "idle"}
      /\ op'.pc = "idle" \/ (op'.cmd = op.cmd /\ op'.arg = op.arg /\ op'.minimum = op.minimum /\ op'.next = op.next)
  BY <1>1, <1>2, GotoFacts
<1>4. CallKept' /\ ~Undecided'
  BY <1>1, <1>3, CallGoesOn DEF AtomicInv, Undecided
<1>5. /\ stateFile = IF from = "clear" THEN op.next ELSE op.old
      /\ Journalled /\ LinksAre(stateFile) /\ validate_operation(journal)
      /\ Shape(journal.kind, journal.old, journal.next)
      /\ from = "recClear" => op.old = project_operation_state(journal)
      /\ from # "recClear" => journal.old = op.old /\ journal.next = op.next /\ journal.kind = op.cmd
                              /\ apply_installation_floor(op.old) = op.old
  BY <1>1 DEF AtomicInv, Bootable, Recovering, Mutating, Atomic, StepShape, DiskShape
<1>6. Settled = apply_installation_floor(stateFile) /\ Covered(stateFile)
  <2>1. CASE from = "recClear"
    <3>1. Settled = apply_installation_floor(project_operation_state(journal))
      BY <1>1, <1>5, <2>1 DEF Settled, Undecided, state, Journalled
    <3>2. Covered(project_operation_state(journal))
      BY <1>5 DEF Shape, project_operation_state
    <3> QED BY <1>5, <2>1, <3>1, <3>2
  <2>2. CASE from = "clear"
    <3>1. project_operation_state(journal) = op.next
      BY <1>5, <2>2 DEF project_operation_state, LinksAre
    <3>2. Settled = apply_installation_floor(project_operation_state(journal))
      BY <1>1, <1>5, <2>2 DEF Settled, Undecided, state, Journalled
    <3> QED BY <1>5, <2>2, <3>1, <3>2 DEF Shape
  <2>3. CASE from = "abClear"
    BY <1>1, <1>5, <2>3 DEF Settled, Undecided, Shape
  <2> QED BY <2>1, <2>2, <2>3
<1>7. CASE journal' = NoOperation
  <2>1. ~Journalled'
    BY <1>7 DEF Journalled, NoOperation
  <2>2. Moves(Settled, Settled') /\ DiskShape'
    BY <1>1, <1>4, <1>6, <2>1, Cleared
  <2>3. StepShape'
    <3>1. CASE op'.pc \in {"idle", "run"}
      BY <3>1, NoStep
    <3>2. CASE op'.pc = "unfence"
      <4>1. ok = "unfence" /\ from = "clear" /\ op.cmd = "install"
        BY <1>3, <3>2
      <4>2. IntentBelow(stateFile.minimum)
        BY <1>5, <4>1 DEF Shape
      <4>3. IntentBelow(stateFile.minimum)'
        BY <1>1, <4>2 DEF IntentBelow
      <4> QED BY <3>2, <4>3 DEF StepShape, Recovering, Mutating
    <3> QED BY <1>3, <3>1, <3>2
  <2> QED BY <1>4, <2>2, <2>3 DEF Atomic
<1>8. CASE UNCHANGED journal /\ Goto("idle")
  <2>1. op'.pc = "idle"
    BY <1>2, <1>8, GotoFacts
  <2>2. StepShape'
    BY <2>1, NoStep
  <2>3. CASE Undecided
    BY <1>1, <1>4, <1>8, <2>2, <2>3, Interrupted DEF Atomic
  <2>4. CASE ~Undecided
    BY <1>1, <1>4, <1>8, <2>2, <2>4, DiskStill DEF Atomic, AtomicInv
  <2> QED BY <2>3, <2>4
<1> QED BY <1>1, <1>7, <1>8

LEMMA RestoreIsAtomic ==
  ASSUME AtomicInv,
         \/ restore_current("recCurrent", "recPrevious") \/ restore_current("abCurrent", "abPrevious")
         \/ restore_previous("recPrevious", "recSave") \/ restore_previous("abPrevious", "abSave")
  PROVE  Moves(Settled, Settled') /\ Atomic'
<1>1. /\ op \in Calls /\ link \in [Links -> OptVersion] /\ UNCHANGED <<journal, intent>>
      /\ op.pc \in {"recCurrent", "recPrevious", "abCurrent", "abPrevious"}
  BY AtomicTypes DEF AtomicInv, Typed, TypeOK, restore_current, restore_previous
<1>2. link'["current"] \in {link["current"], op.old.current}
  BY <1>1 DEF restore_current, restore_previous, Attempt, write_link, Links
<1>3. \/ op'.pc = "idle"
      \/ /\ op'.old = op.old /\ op'.cmd = op.cmd /\ op'.arg = op.arg /\ op'.minimum = op.minimum
         /\ op'.pc \in IF op.pc \in Recovering THEN {"recPrevious", "recSave"} ELSE {"abPrevious", "abSave"}
  <2>1. CASE restore_current("recCurrent", "recPrevious") \/ restore_current("abCurrent", "abPrevious")
    BY ZenonT(30), <1>1, <2>1 DEF restore_current, Calls, Recovering
  <2>2. CASE restore_previous("recPrevious", "recSave") \/ restore_previous("abPrevious", "abSave")
    <3>1. Goto("idle") \/ Goto(IF op.pc = "recPrevious" THEN "recSave" ELSE "abSave")
      BY <2>2 DEF restore_previous, Attempt
    <3>2. op.pc \in {"recPrevious", "abPrevious"} /\ {"idle", "recSave", "abSave"} \subseteq PCs
      BY <2>2 DEF restore_previous, PCs
    <3> QED BY <1>1, <3>1, <3>2, GotoFacts DEF Recovering
  <2> QED BY ZenonT(30), <2>1, <2>2
<1>4. CASE op.pc \in Recovering
  BY <1>1, <1>2, <1>3, <1>4, StillRecovering DEF Recovering
<1>5. CASE op.pc \notin Recovering
  <2>1. Undecided
    BY <1>1, <1>5 DEF Undecided, Recovering
  <2>2. CASE op'.pc = "idle"
    <3>1. ~Undecided' /\ CallKept' /\ StepShape'
      BY <1>1, <2>2, CallGoesOn, NoStep DEF Undecided, AtomicInv
    <3> QED BY <1>1, <2>1, <3>1, Interrupted DEF Atomic
  <2>3. CASE op'.pc # "idle"
    <3>1. Undecided'
      BY <1>3, <1>5, <2>3 DEF Undecided
    <3> QED BY <1>1, <1>3, <2>1, <2>3, <3>1, StillUndecided
  <2> QED BY <2>2, <2>3
<1> QED BY <1>4, <1>5

LEMMA SaveIsAtomic ==
  ASSUME AtomicInv,
         \/ save_state("recSave", op.old, "recClear", "idle") \/ save_state("abSave", op.old, "abClear", "idle")
         \/ save_state("save", op.next, "clear", "abCurrent")
  PROVE  Moves(Settled, Settled') /\ Atomic'
<1>1. /\ op \in Calls /\ UNCHANGED <<link, journal, intent>> /\ op.pc \in {"recSave", "abSave", "save"}
      /\ op.pc = "recSave" => Goto("recClear") \/ Goto("idle")
      /\ op.pc = "abSave" => Goto("abClear") \/ Goto("idle")
      /\ op.pc = "save" => Goto("clear") \/ Goto("abCurrent")
  BY AtomicTypes DEF save_state, Attempt
<1>2. {"recClear", "idle", "abClear", "clear", "abCurrent"} \subseteq PCs
  BY DEF PCs
<1>3. /\ \/ op'.pc = "idle"
         \/ /\ op'.old = op.old /\ op'.cmd = op.cmd /\ op'.arg = op.arg /\ op'.minimum = op.minimum
      /\ op.pc = "recSave" => op'.pc \in {"recClear", "idle"}
      /\ op.pc = "abSave" => op'.pc \in {"abClear", "idle"}
      /\ op.pc = "save" => op'.pc \in {"clear", "abCurrent"}
  BY <1>1, <1>2, GotoFacts
<1>4. CASE op.pc = "recSave"
  BY <1>1, <1>3, <1>4, StillRecovering DEF Recovering
<1>5. CASE op.pc # "recSave" /\ op'.pc \in {"abClear", "abCurrent"}
  BY <1>1, <1>3, <1>5, StillUndecided DEF Undecided
<1>6. CASE op.pc # "recSave" /\ op'.pc \in {"idle", "clear"}
  <2>1. Undecided /\ ~Undecided' /\ CallKept'
    BY <1>1, <1>3, <1>6, CallGoesOn DEF Undecided, AtomicInv
  <2>2. StepShape'
    <3>1. apply_installation_floor(op.old) = op.old /\ journal.kind = op.cmd
      BY <2>1, UndecidedFacts
    <3>2. op'.pc = "clear" => apply_installation_floor(op.old)' = op'.old /\ journal'.kind = op'.cmd
      BY <1>1, <1>3, <3>1 DEF apply_installation_floor
    <3> QED BY <1>6, <3>2 DEF StepShape, Recovering, Mutating
  <2> QED BY <1>1, <2>1, <2>2, Interrupted DEF Atomic
<1> QED BY <1>1, <1>3, <1>4, <1>5, <1>6

LEMMA MutateIsAtomic ==
  ASSUME AtomicInv,
         \/ mutate("linkA", IF op.cmd = "rollback" THEN "current" ELSE "previous", "linkB")
         \/ mutate("linkB", IF op.cmd = "rollback" THEN "previous" ELSE "current", "save")
  PROVE  Moves(Settled, Settled') /\ Atomic'
<1>1. /\ op \in Calls /\ UNCHANGED <<journal, intent>> /\ op.pc \in {"linkA", "linkB"}
      /\ Goto("linkB") \/ Goto("save") \/ Goto("abCurrent")
  BY AtomicTypes DEF mutate, Attempt
<1>2. {"linkB", "save", "abCurrent"} \subseteq PCs
  BY DEF PCs
<1>3. /\ op'.pc \in {"linkB", "save", "abCurrent"} /\ op'.old = op.old /\ op'.cmd = op.cmd /\ op'.arg = op.arg
      /\ op'.minimum = op.minimum
  BY <1>1, <1>2, GotoFacts
<1> QED BY <1>1, <1>3, StillUndecided DEF Undecided

(* Steps that touch no file the slot state is read from. *)
LEMMA RecoverIsAtomic ==
  ASSUME AtomicInv, Recover
  PROVE  Moves(Settled, Settled') /\ Atomic'
<1>1. /\ op \in Calls /\ op.pc = "recover" /\ UNCHANGED <<link, stateFile, journal, intent>>
      /\ \/ Goto("run") \/ Goto("idle")
         \/ /\ op' = [op EXCEPT !.pc = "recCurrent", !.old = project_operation_state(journal)]
  BY AtomicTypes DEF Recover
<1>2. /\ op'.pc \in {"run", "idle", "recCurrent"}
      /\ op'.pc = "idle" \/ (op'.cmd = op.cmd /\ op'.arg = op.arg /\ op'.minimum = op.minimum)
      /\ op'.pc = "recCurrent" => op'.old = project_operation_state(journal)
  BY ZenonT(30), <1>1, GotoFacts DEF PCs, Calls
<1>3. CallKept' /\ ~Undecided /\ ~Undecided'
  BY <1>1, <1>2, CallGoesOn DEF Undecided, AtomicInv
<1>4. StepShape'
  BY <1>1, <1>2 DEF StepShape, Recovering, Mutating, project_operation_state
<1> QED BY <1>1, <1>3, <1>4, DiskStill DEF Atomic, AtomicInv

LEMMA DecideIsAtomic ==
  ASSUME AtomicInv, NEW cmd, NEW allowed \in BOOLEAN, NEW to \in {"rename", "unpend", "journal", "fence"},
         NEW next, Decide(cmd, allowed, to, next),
         allowed /\ to = "journal" => Shape(cmd, state_without_operation, next),
         allowed /\ to \in {"rename", "unpend"} => next.minimum = stateFile.minimum /\ cmd \in {"stage", "activate"},
         allowed /\ to = "fence" => installation_minimum_allowed(state_without_operation, op.minimum)
  PROVE  Moves(Settled, Settled') /\ Atomic'
<1>1. /\ op \in Calls /\ op.pc = "run" /\ op.cmd = cmd /\ UNCHANGED <<link, stateFile, journal, intent>>
      /\ op' = IF allowed THEN [op EXCEPT !.pc = to, !.old = state_without_operation, !.next = next] ELSE NoCall
  BY AtomicTypes DEF Decide
<1>2. IF allowed THEN /\ op'.pc = to /\ op'.cmd = op.cmd /\ op'.arg = op.arg /\ op'.minimum = op.minimum
                      /\ op'.old = state_without_operation /\ op'.next = next
                 ELSE op'.pc = "idle"
  BY <1>1, VersionFacts DEF Calls
<1>3. CallKept' /\ ~Undecided /\ ~Undecided'
  BY <1>1, <1>2, CallGoesOn DEF Undecided, AtomicInv
<1>4. state_without_operation' = state_without_operation /\ DiskShape' /\ Moves(Settled, Settled')
  BY <1>1, <1>3, DiskStill DEF AtomicInv
<1>5. CASE ~allowed
  BY <1>2, <1>3, <1>4, <1>5, NoStep DEF Atomic
<1>6. CASE allowed /\ to = "journal"
  <2>1. Shape(op'.cmd, op'.old, op'.next)
    BY <1>1, <1>2, <1>6
  <2>2. Shape(op.cmd, op.old, op.next)'
    BY <1>1, <2>1 DEF Shape, IntentBelow
  <2>3. StepShape'
    BY <1>2, <1>4, <1>6, <2>2 DEF StepShape, Recovering, Mutating
  <2> QED BY <1>3, <1>4, <2>3 DEF Atomic
<1>7. CASE allowed /\ to = "fence"
  <2>1. installation_minimum_allowed(state_without_operation, op.minimum)'
    BY <1>2, <1>4, <1>7 DEF installation_minimum_allowed
  <2>2. StepShape'
    BY <1>2, <1>7, <2>1 DEF StepShape, Recovering, Mutating
  <2> QED BY <1>3, <1>4, <2>2 DEF Atomic
<1>8. CASE allowed /\ to \in {"rename", "unpend"}
  <2>1. StepShape'
    BY <1>1, <1>2, <1>8 DEF StepShape, Recovering, Mutating
  <2> QED BY <1>3, <1>4, <2>1 DEF Atomic
<1> QED BY <1>5, <1>6, <1>7, <1>8

LEMMA ReadMinimum ==
  ASSUME AtomicInv
  PROVE  /\ state_without_operation.minimum =
              IF intent.pending /\ intent.minimum # None /\ ~AtLeast(stateFile.minimum, intent.minimum)
              THEN intent.minimum ELSE stateFile.minimum
         /\ IntentBelow(state_without_operation.minimum)
         /\ ~intent.pending => state_without_operation.minimum = stateFile.minimum
<1>1. state_without_operation.minimum =
        IF intent.pending /\ intent.minimum # None /\ ~AtLeast(stateFile.minimum, intent.minimum)
        THEN intent.minimum ELSE stateFile.minimum
  BY DEF state_without_operation, apply_installation_floor
<1>2. intent.minimum # None => AtLeast(intent.minimum, intent.minimum)
  <2>1. intent.minimum \in Int
    BY AtomicTypes, VersionNumbers DEF Floor
  <2> QED BY SMT, <2>1 DEF AtLeast, Rank
<1> QED BY <1>1, <1>2 DEF IntentBelow, AtLeast

(* A call runs with no journal and with pointers that state.json repeats. *)
LEMMA RunFacts ==
  ASSUME AtomicInv, op.pc \in Unjournalled
  PROVE  /\ ~Journalled /\ Mirrored /\ LinksAre(state_without_operation)
         /\ Covered(state_without_operation) /\ ~Undecided /\ Settled = state_without_operation
BY ReadFacts DEF AtomicInv, Bootable, Atomic, DiskShape, Undecided, Unjournalled, Settled, state, Journalled

LEMMA AllowedIsAbove ==
  ASSUME AtomicInv, op.minimum \in Floor, installation_minimum_allowed(state_without_operation, op.minimum)
  PROVE  IntentBelow(op.minimum)
<1> DEFINE s == state_without_operation
<1>1. /\ s \in SlotState /\ IntentBelow(s.minimum) /\ intent.minimum \in Floor
  BY AtomicTypes, ReadMinimum
<1>2. s.minimum \in Int /\ op.minimum \in Int /\ intent.minimum \in Int /\ upgrade_floor(s) \in Int
  <2>1. s.minimum \in OptVersion /\ s.current \in OptVersion
    BY <1>1 DEF SlotState
  <2>2. upgrade_floor(s) \in OptVersion
    BY <1>1, <2>1, FloorFacts
  <2> QED BY <1>1, <2>1, <2>2, VersionNumbers DEF Floor
<1>3. s.minimum # None => upgrade_floor(s) # None /\ Rank(upgrade_floor(s)) >= Rank(s.minimum)
  BY <1>1, FloorFacts
<1> HIDE DEF s
<1>4. IF op.minimum = None THEN upgrade_floor(s) = None ELSE AtLeast(op.minimum, upgrade_floor(s))
  BY DEF installation_minimum_allowed, s
<1>5. CASE ~intent.pending \/ intent.minimum = None
  BY <1>5 DEF IntentBelow, AtLeast
<1>6. CASE intent.pending /\ intent.minimum # None
  <2>1. s.minimum # None /\ Rank(s.minimum) >= Rank(intent.minimum)
    BY <1>1, <1>6 DEF IntentBelow, AtLeast
  <2>2. op.minimum # None /\ Rank(op.minimum) >= Rank(upgrade_floor(s))
    BY <1>3, <1>4, <2>1 DEF AtLeast
  <2>3. Rank(op.minimum) >= Rank(intent.minimum)
    BY SMT, <1>2, <1>3, <2>1, <2>2 DEF Rank
  <2> QED BY <2>2, <2>3 DEF IntentBelow, AtLeast
<1> QED BY <1>5, <1>6

LEMMA OperationIsAtomic ==
  ASSUME AtomicInv, StageDecide \/ activate \/ rollback \/ begin_installation
  PROVE  Moves(Settled, Settled') /\ Atomic'
<1> DEFINE s == state_without_operation
<1>1. /\ op.pc = "run" /\ s \in SlotState /\ op \in Calls
  BY AtomicTypes DEF StageDecide, activate, rollback, begin_installation, Decide
<1>2. /\ Covered(s) /\ (op.cmd \in {"stage", "activate", "rollback"} => ~intent.pending)
      /\ op.minimum \in Floor /\ (~intent.pending => s.minimum = stateFile.minimum)
  BY <1>1, RunFacts, ReadMinimum DEF Unjournalled, AtomicInv, Atomic, CallKept
<1>3. s.current \in OptVersion /\ s.previous \in OptVersion /\ s.minimum \in OptVersion /\ upgrade_floor(s) \in OptVersion
  BY <1>1, StateTypes DEF SlotState, AtomicInv, Typed
<1> HIDE DEF s
<1>4. CASE StageDecide
  <2>1. [s EXCEPT !.pending = op.arg].minimum = s.minimum
    BY <1>1 DEF SlotState
  <2>2. op.cmd = "stage"
    BY <1>4 DEF StageDecide, Decide
  <2> QED BY <1>2, <1>4, <2>1, <2>2, DecideIsAtomic DEF StageDecide, s
<1>5. CASE activate
  <2>1. op.cmd = "activate" /\ op.arg \in Version
    BY <1>1, <1>5 DEF activate, Decide, AtomicInv, Typed
  <2>2. [s EXCEPT !.pending = None].minimum = stateFile.minimum
    BY <1>1, <1>2, <2>1 DEF SlotState
  <2> DEFINE next == [current |-> op.arg, previous |-> s.current, pending |-> None, minimum |-> op.arg]
             forward == ~UnknownInstalledVersion(s) /\ validate_forward_upgrade(op.arg, upgrade_floor(s))
  <2>3. ASSUME forward PROVE Shape("activate", s, next)
    <3>1. upgrade_floor(next) = op.arg /\ op.arg # None
      BY <2>1, VersionFacts DEF upgrade_floor
    <3>2. s.current \in Releases => Rank(op.arg) >= Rank(s.current)
      <4> SUFFICES ASSUME s.current \in Releases PROVE Rank(op.arg) >= Rank(s.current)
        OBVIOUS
      <4>1. upgrade_floor(s) # None /\ Rank(upgrade_floor(s)) >= Rank(s.current)
        BY <1>1, FloorFacts DEF s
      <4>2. Rank(op.arg) > Rank(upgrade_floor(s))
        BY <2>3, <4>1 DEF validate_forward_upgrade
      <4>3. op.arg \in Int /\ s.current \in Int /\ upgrade_floor(s) \in Int
        BY <1>3, <2>1, VersionNumbers, VersionFacts
      <4> QED BY SMT, <4>1, <4>2, <4>3 DEF Rank
    <3>3. Covered(next)
      BY <3>1, <3>2 DEF Covered
    <3>4. next.minimum = next.current
      OBVIOUS
    <3> HIDE DEF next
    <3> QED BY <1>2, <2>1, <3>3, <3>4 DEF Shape
  <2>4. CASE s.current = op.arg
    <3> DEFINE same == [s EXCEPT !.pending = None]
    <3>1. Decide("activate", op.arg \in slots, "unpend", same)
      BY <1>5, <2>4 DEF activate, s
    <3>2. same.minimum = stateFile.minimum /\ (op.arg \in slots) \in BOOLEAN
      BY SMT, <2>2
    <3> HIDE DEF same
    <3> QED BY <3>1, <3>2, DecideIsAtomic
  <2>5. CASE s.current # op.arg
    <3>1. Decide("activate", op.arg \in slots /\ forward, "journal", next)
      BY <1>5, <2>5 DEF activate, s
    <3>2. op.arg \in slots /\ forward => Shape("activate", state_without_operation, next)
      BY <2>3 DEF s
    <3>3. (op.arg \in slots /\ forward) \in BOOLEAN
      OBVIOUS
    <3> HIDE DEF next, forward
    <3> QED BY <3>1, <3>2, <3>3, DecideIsAtomic
  <2> QED BY <2>4, <2>5
<1>6. CASE rollback
  <2> DEFINE next == [current |-> s.previous, previous |-> s.current, pending |-> None, minimum |-> upgrade_floor(s)]
  <2>1. op.cmd = "rollback"
    BY <1>6 DEF rollback, Decide
  <2>2. next \in SlotState /\ next.minimum = upgrade_floor(s) /\ next.previous = s.current
    BY <1>3, VersionFacts DEF SlotState
  <2>3. s.current \in Releases => upgrade_floor(s) # None /\ Rank(upgrade_floor(s)) >= Rank(s.current)
    BY <1>1, FloorFacts
  <2>4. upgrade_floor(s) # None => upgrade_floor(next) # None /\ Rank(upgrade_floor(next)) >= Rank(upgrade_floor(s))
    BY <2>2, FloorFacts
  <2> HIDE DEF next
  <2>5. Covered(next)
    <3>1. next.current \in OptVersion /\ next.minimum \in OptVersion
      BY <2>2 DEF SlotState
    <3>2. upgrade_floor(next) \in OptVersion
      BY <2>2, <3>1, FloorFacts
    <3>3. upgrade_floor(next) \in Int /\ upgrade_floor(s) \in Int /\ s.current \in Int
      BY <1>3, <3>2, VersionNumbers
    <3> QED BY SMT, <2>2, <2>3, <2>4, <3>3 DEF Covered, Rank
  <2>6. Shape("rollback", s, next)
    BY <1>2, <2>1, <2>2, <2>5 DEF Shape
  <2>7. Decide("rollback", s.previous \in slots /\ ~UnknownInstalledVersion(s), "journal", next)
    BY <1>6 DEF rollback, s, next
  <2>8. (s.previous \in slots /\ ~UnknownInstalledVersion(s)) \in BOOLEAN
    OBVIOUS
  <2> QED BY <2>6, <2>7, <2>8, DecideIsAtomic DEF s
<1>7. CASE begin_installation
  <2>1. Decide("begin", installation_minimum_allowed(s, op.minimum), "fence", s)
    BY <1>7 DEF begin_installation, s
  <2>2. installation_minimum_allowed(s, op.minimum) \in BOOLEAN
    BY DEF installation_minimum_allowed, AtLeast
  <2> QED BY <2>1, <2>2, DecideIsAtomic DEF s
<1> QED BY <1>4, <1>5, <1>6, <1>7

LEMMA InstallIsAtomic ==
  ASSUME AtomicInv, install_baseline
  PROVE  Moves(Settled, Settled') /\ Atomic'
<1> DEFINE s == state_without_operation
           next == [EmptyState EXCEPT !.current = op.arg, !.minimum = op.minimum]
<1>1. /\ op \in Calls /\ op.pc = "run" /\ op.cmd = "install" /\ UNCHANGED <<link, stateFile, journal, intent>>
      /\ IF installation_minimum_allowed(s, op.minimum)
         THEN op' = [op EXCEPT !.pc = "journal", !.old = s, !.next = next] ELSE op' = NoCall
  BY AtomicTypes DEF install_baseline
<1>2. /\ Covered(s) /\ op.minimum \in Floor /\ op.arg \in Baselines
  BY <1>1, RunFacts DEF Unjournalled, AtomicInv, Atomic, CallKept
<1>3. next.current = op.arg /\ next.minimum = op.minimum /\ next.previous = None
  BY DEF EmptyState
<1> HIDE DEF s, next
<1>4. IF installation_minimum_allowed(s, op.minimum)
      THEN /\ op'.pc = "journal" /\ op'.cmd = op.cmd /\ op'.arg = op.arg /\ op'.minimum = op.minimum
           /\ op'.old = s /\ op'.next = next
      ELSE op'.pc = "idle"
  BY <1>1, VersionFacts DEF Calls
<1>5. CallKept' /\ ~Undecided /\ ~Undecided'
  BY <1>1, <1>4, CallGoesOn DEF Undecided, AtomicInv
<1>6. state_without_operation' = s /\ DiskShape' /\ Moves(Settled, Settled')
  BY <1>1, <1>5, DiskStill DEF AtomicInv, s
<1>7. CASE ~installation_minimum_allowed(s, op.minimum)
  BY <1>4, <1>5, <1>6, <1>7, NoStep DEF Atomic
<1>8. CASE installation_minimum_allowed(s, op.minimum)
  <2>1. IntentBelow(op.minimum)
    BY <1>2, <1>8, AllowedIsAbove DEF s
  <2>2. Covered(next)
    BY SMT, <1>3, VersionNumbers DEF Covered
  <2>3. Shape("install", s, next)
    BY <1>2, <1>3, <2>1, <2>2 DEF Shape
  <2>4. Shape(op.cmd, op.old, op.next)'
    BY <1>1, <1>4, <1>8, <2>3 DEF Shape, IntentBelow
  <2>5. StepShape'
    BY <1>4, <1>6, <1>8, <2>4 DEF StepShape, Recovering, Mutating
  <2> QED BY <1>5, <1>6, <2>5 DEF Atomic
<1> QED BY <1>7, <1>8

LEMMA BeginIsAtomic ==
  ASSUME AtomicInv, begin_operation
  PROVE  Moves(Settled, Settled') /\ Atomic'
<1> DEFINE o == [kind |-> op.cmd, old |-> op.old, next |-> op.next]
<1>1. /\ op \in Calls /\ op.pc = "journal" /\ UNCHANGED <<slots, link, stateFile, intent>>
      /\ op.old \in SlotState /\ op.next \in SlotState /\ op.cmd \in Commands
      /\ \/ UNCHANGED journal /\ Goto("idle")
         \/ validate_operation(o) /\ journal' = o /\ (Goto("linkA") \/ Goto("idle"))
  BY AtomicTypes DEF begin_operation, Attempt
<1>2. /\ Settled = state_without_operation /\ op.old = state_without_operation
      /\ Shape(op.cmd, op.old, op.next) /\ ~Undecided
  BY <1>1, RunFacts DEF Unjournalled, AtomicInv, Atomic, StepShape
<1>3. apply_installation_floor(op.old) = op.old
  BY SMT, <1>1, <1>2, AtomicTypes, ReadMinimum, RaiseFacts DEF AtomicInv
<1>4. /\ Goto("idle") => op'.pc = "idle"
      /\ Goto("linkA") => /\ op'.pc = "linkA" /\ op'.cmd = op.cmd /\ op'.arg = op.arg /\ op'.minimum = op.minimum
                          /\ op'.old = op.old
  BY <1>1, GotoFacts DEF PCs
<1>5. CallKept'
  BY <1>1, <1>4, CallGoesOn DEF AtomicInv
<1>6. CASE UNCHANGED journal /\ Goto("idle")
  <2>1. ~Undecided' /\ StepShape'
    BY <1>4, <1>6, NoStep DEF Undecided
  <2> QED BY <1>1, <1>2, <1>5, <1>6, <2>1, DiskStill DEF Atomic, AtomicInv
<1>7. CASE validate_operation(o) /\ journal' = o /\ (Goto("linkA") \/ Goto("idle"))
  <2>1. /\ o.kind = op.cmd /\ o.old = op.old /\ o.next = op.next
        /\ o \in [kind : Commands \cup {"none"}, old : SlotState, next : SlotState]
    BY <1>1
  <2>2. o.kind \in Kinds
    BY <1>7, <2>1, ValidFacts
  <2>3. o \in SlotOperation /\ journal'.kind = op.cmd /\ journal'.old = op.old /\ journal'.next = op.next
    BY <1>1, <1>7, <2>1, <2>2 DEF SlotOperation
  <2> HIDE DEF o
  <2>4. Journalled' /\ DiskShape'
    <3>1. Journalled'
      BY <2>1, <2>2, <2>3 DEF Journalled, Kinds
    <3>2. Shape(journal'.kind, journal'.old, journal'.next)
      BY <1>2, <2>3
    <3>3. Shape(journal.kind, journal.old, journal.next)'
      BY <1>1, <3>2 DEF Shape, IntentBelow
    <3> QED BY <3>1, <3>3 DEF DiskShape
  <2>5. CASE Goto("idle")
    <3>1. ~Undecided' /\ StepShape'
      BY <1>4, <2>5, NoStep DEF Undecided
    <3>2. Settled' \in {apply_installation_floor(o.old), apply_installation_floor(o.next)}
      BY <1>1, <1>7, <2>4, <3>1 DEF Settled, state, Journalled, project_operation_state, apply_installation_floor
    <3>3. Moves(o.old, apply_installation_floor(o.next))
      BY <1>2, <1>7, <2>1, <2>3, AtomicTypes, Takes DEF AtomicInv
    <3>4. Moves(Settled, Settled')
      BY <1>2, <1>3, <2>1, <3>2, <3>3, SameTable
    <3> QED BY <1>5, <2>4, <3>1, <3>4 DEF Atomic
  <2>6. CASE Goto("linkA")
    <3>1. Settled' = op.old
      BY <1>4, <2>6 DEF Settled, Undecided
    <3>2. apply_installation_floor(op.old)' = op'.old
      BY <1>1, <1>3, <1>4, <2>6 DEF apply_installation_floor
    <3>3. StepShape'
      BY <1>4, <2>3, <2>6, <3>2 DEF StepShape, Recovering, Mutating
    <3> QED BY <1>2, <1>5, <2>4, <3>1, <3>3, SameTable DEF Atomic
  <2> QED BY <1>7, <2>5, <2>6
<1> QED BY <1>1, <1>6, <1>7

(* state.json is written with what it said, but for the staged version. *)
LEMMA PendIsAtomic ==
  ASSUME AtomicInv, Typed', Bootable', StagePend \/ save_state("unpend", op.next, "idle", "idle")
  PROVE  Moves(Settled, Settled') /\ Atomic'
<1>1. /\ op \in Calls /\ op.pc \in {"pend", "unpend"} /\ UNCHANGED <<link, journal, intent>> /\ Goto("idle")
      /\ stateFile' \in {stateFile, op.next}
  BY AtomicTypes DEF StagePend, save_state, Attempt
<1>2. op'.pc = "idle"
  BY <1>1, GotoFacts DEF PCs
<1>3. /\ ~Undecided' /\ StepShape' /\ CallKept'
  BY <1>1, <1>2, NoStep, CallGoesOn DEF Undecided, AtomicInv
<1>4. /\ ~Journalled /\ ~Journalled' /\ Mirrored /\ Mirrored' /\ Settled = state_without_operation
      /\ Covered(state_without_operation)
  BY <1>1, RunFacts DEF Unjournalled, Journalled, Bootable
<1>5. stateFile'.minimum = stateFile.minimum /\ ~intent.pending
  BY <1>1 DEF AtomicInv, Atomic, StepShape, CallKept
<1> DEFINE s == state_without_operation
           t == state_without_operation'
<1>6. s.current = t.current /\ s.previous = t.previous /\ s.minimum = t.minimum
  BY <1>1, <1>4, <1>5 DEF state_without_operation, apply_installation_floor, Mirrored, LinksAre
<1>7. Settled' = t
  BY <1>3, <1>4 DEF Settled, state, Journalled
<1> HIDE DEF s, t
<1>8. Moves(s, t) /\ Covered(t)
  BY <1>4, <1>6, SameTable DEF s
<1>9. Covered(state_without_operation)'
  BY <1>8 DEF Covered, t
<1> QED BY <1>3, <1>4, <1>7, <1>8, <1>9 DEF Atomic, DiskShape, s

LEMMA FenceIsAtomic ==
  ASSUME AtomicInv, WriteFence \/ RemoveFence
  PROVE  Moves(Settled, Settled') /\ Atomic'
<1>1. /\ op \in Calls /\ op.pc \in {"fence", "unfence"} /\ UNCHANGED <<link, stateFile, journal>> /\ Goto("idle")
      /\ \/ UNCHANGED intent
         \/ op.pc = "fence" /\ intent' = [pending |-> TRUE, minimum |-> op.minimum]
         \/ op.pc = "unfence" /\ intent' = [pending |-> FALSE, minimum |-> None]
  BY AtomicTypes DEF WriteFence, RemoveFence, Attempt
<1>2. op'.pc = "idle"
  BY <1>1, GotoFacts DEF PCs
<1>3. ~Undecided /\ ~Undecided' /\ StepShape'
  BY <1>1, <1>2, NoStep DEF Undecided
<1>4. /\ ~Journalled /\ ~Journalled' /\ Settled = state_without_operation /\ Covered(state_without_operation)
  BY <1>1, RunFacts DEF Unjournalled, Journalled
<1>5. op.minimum \in Floor /\ intent.minimum \in Floor
  BY <1>1 DEF AtomicInv, Atomic, CallKept
<1>6. intent'.minimum \in Floor
  BY SMT, <1>1, <1>5 DEF Floor
<1>7. CallKept'
  BY <1>2, <1>6 DEF CallKept
<1> DEFINE s == state_without_operation
           t == state_without_operation'
<1>8. s.current = t.current /\ s.previous = t.previous
  BY <1>1 DEF state_without_operation, apply_installation_floor
<1>9. /\ s.minimum = IF intent.pending /\ intent.minimum # None /\ ~AtLeast(stateFile.minimum, intent.minimum)
                     THEN intent.minimum ELSE stateFile.minimum
      /\ t.minimum = IF intent'.pending /\ intent'.minimum # None /\ ~AtLeast(stateFile.minimum, intent'.minimum)
                     THEN intent'.minimum ELSE stateFile.minimum
  BY <1>1 DEF state_without_operation, apply_installation_floor
<1>10. s \in SlotState
  BY AtomicTypes
<1>11. Settled' = t
  BY <1>3, <1>4 DEF Settled, state, Journalled
<1> HIDE DEF s, t
<1>12. Moves(s, t) /\ Covered(t)
  <2>1. CASE UNCHANGED intent
    BY <1>4, <1>8, <1>9, <2>1, SameTable DEF s
  <2>2. CASE op.pc = "unfence" /\ intent' = [pending |-> FALSE, minimum |-> None]
    <3>1. IntentBelow(stateFile.minimum)
      BY <2>2 DEF AtomicInv, Atomic, StepShape
    <3>2. s.minimum = t.minimum
      BY <1>9, <2>2, <3>1 DEF IntentBelow
    <3> QED BY <1>4, <1>8, <3>2, SameTable DEF s
  <2>3. CASE op.pc = "fence" /\ intent' = [pending |-> TRUE, minimum |-> op.minimum]
    <3>1. IF op.minimum = None THEN upgrade_floor(s) = None ELSE AtLeast(op.minimum, upgrade_floor(s))
      BY <2>3 DEF AtomicInv, Atomic, StepShape, installation_minimum_allowed, s
    <3>2. /\ s.minimum # None => upgrade_floor(s) # None /\ Rank(upgrade_floor(s)) >= Rank(s.minimum)
          /\ s.current \in Releases => upgrade_floor(s) # None /\ Rank(upgrade_floor(s)) >= Rank(s.current)
      BY <1>10, FloorFacts
    <3>3. CASE op.minimum = None
      <4>1. s.minimum = t.minimum
        BY <1>9, <2>3, <3>1, <3>2, <3>3
      <4> QED BY <1>4, <1>8, <4>1, SameTable DEF s
    <3>4. CASE op.minimum # None
      <4>1. /\ s.current \in OptVersion /\ stateFile.minimum \in OptVersion /\ s.minimum \in OptVersion
            /\ upgrade_floor(s) \in OptVersion
        BY <1>10, AtomicTypes, FloorFacts DEF SlotState
      <4>2. /\ s.current \in Int /\ stateFile.minimum \in Int /\ upgrade_floor(s) \in Int
            /\ op.minimum \in Releases /\ op.minimum \in Int /\ op.minimum > 0
        BY <1>5, <3>4, <4>1, VersionNumbers DEF Floor
      <4>3. t.minimum \in Releases /\ t.minimum \in Int /\ Rank(t.minimum) >= Rank(op.minimum)
        <5>1. CASE ~AtLeast(stateFile.minimum, op.minimum)
          BY SMT, <1>9, <2>3, <3>4, <4>2, <5>1 DEF Rank
        <5>2. CASE AtLeast(stateFile.minimum, op.minimum)
          <6>1. t.minimum = stateFile.minimum /\ Rank(stateFile.minimum) >= Rank(op.minimum)
            BY <1>9, <2>3, <3>4, <5>2 DEF AtLeast
          <6>2. stateFile.minimum > 0
            BY SMT, <4>2, <6>1 DEF Rank
          <6>3. stateFile.minimum \in Releases
            BY SMT, <4>1, <6>2, VersionNumbers DEF OptVersion, Version
          <6> QED BY <4>2, <6>1, <6>3
        <5> QED BY <5>1, <5>2
      <4>4. upgrade_floor(s) = None \/ Rank(op.minimum) >= Rank(upgrade_floor(s))
        BY <3>1, <3>4 DEF AtLeast
      <4>5. t.minimum # None
        BY SMT, <4>3, VersionNumbers
      <4>6. s.current \in Releases => Rank(t.minimum) >= Rank(s.current)
        BY SMT, <3>2, <4>2, <4>3, <4>4 DEF Rank
      <4>7. upgrade_floor(t) = t.minimum
        <5>1. ~(t.current \in Releases /\ (t.minimum = None \/ Rank(t.current) > Rank(t.minimum)))
          BY SMT, <1>8, <4>2, <4>3, <4>5, <4>6 DEF Rank
        <5> QED BY <5>1 DEF upgrade_floor
      <4>8. upgrade_floor(s) # None => Rank(t.minimum) >= Rank(upgrade_floor(s))
        BY SMT, <4>2, <4>3, <4>4 DEF Rank
      <4>9. AtLeast(upgrade_floor(t), upgrade_floor(s))
        BY <4>5, <4>7, <4>8 DEF AtLeast
      <4>10. Covered(t)
        <5>1. s.previous \in Releases => s.previous \in Int
          BY VersionNumbers
        <5>2. s.previous \in Releases => upgrade_floor(s) # None /\ Rank(upgrade_floor(s)) >= Rank(s.previous)
          BY <1>4 DEF Covered, s
        <5> QED BY SMT, <1>8, <4>2, <4>3, <4>5, <4>7, <4>8, <5>1, <5>2 DEF Covered, Rank
      <4> QED BY <1>8, <4>3, <4>7, <4>9, <4>10 DEF Moves
    <3> QED BY <3>3, <3>4
  <2> QED BY <1>1, <2>1, <2>2, <2>3
<1>13. Covered(state_without_operation)'
  BY <1>12 DEF Covered, t
<1> QED BY <1>3, <1>4, <1>7, <1>11, <1>12, <1>13 DEF Atomic, DiskShape, s

LEMMA CallIsAtomic ==
  ASSUME AtomicInv, CallAny
  PROVE  Moves(Settled, Settled') /\ Atomic'
<1>1. PICK cmd \in Commands, v \in OptVersion, m \in Floor :
        Call(cmd, v, m) /\ (cmd = "install" => v \in Baselines)
  BY SMT, VersionFacts DEF CallAny, Commands, Kinds, OptVersion, Floor
<1>2. /\ op.pc = "idle" /\ UNCHANGED <<link, stateFile, journal, intent>>
      /\ cmd \in {"stage", "activate", "rollback"} => ~intent.pending
      /\ op' = [NoCall EXCEPT !.pc = "recover", !.cmd = cmd, !.arg = v, !.minimum = m]
  BY <1>1 DEF Call
<1>3. op'.pc = "recover" /\ op'.cmd = cmd /\ op'.arg = v /\ op'.minimum = m
  BY <1>2 DEF NoCall
<1>4. CallKept'
  BY <1>1, <1>2, <1>3 DEF AtomicInv, Atomic, CallKept
<1>5. ~Undecided /\ ~Undecided' /\ StepShape'
  BY <1>2, <1>3, NoStep DEF Undecided
<1> QED BY <1>2, <1>4, <1>5, DiskStill DEF Atomic, AtomicInv

LEMMA RenameIsAtomic ==
  ASSUME AtomicInv, StageRename
  PROVE  Moves(Settled, Settled') /\ Atomic'
<1>1. /\ op \in Calls /\ op.pc = "rename" /\ UNCHANGED <<link, stateFile, journal, intent>>
      /\ Goto("pend") \/ Goto("idle")
  BY AtomicTypes DEF StageRename
<1>2. \/ op'.pc = "idle"
      \/ /\ op'.pc = "pend" /\ op'.cmd = op.cmd /\ op'.arg = op.arg /\ op'.minimum = op.minimum
         /\ op'.next = op.next
  BY <1>1, GotoFacts DEF PCs
<1>3. CallKept' /\ ~Undecided /\ ~Undecided'
  BY <1>1, <1>2, CallGoesOn DEF Undecided, AtomicInv
<1>4. StepShape'
  BY <1>1, <1>2 DEF AtomicInv, Atomic, StepShape, Recovering, Mutating
<1> QED BY <1>1, <1>3, <1>4, DiskStill DEF Atomic, AtomicInv

LEMMA CrashIsAtomic ==
  ASSUME AtomicInv, Crash
  PROVE  Moves(Settled, Settled') /\ Atomic'
<1>1. op'.pc = "idle" /\ UNCHANGED <<link, stateFile, journal, intent>>
  BY VersionFacts DEF Crash
<1>2. ~Undecided' /\ CallKept' /\ StepShape'
  BY <1>1, CallGoesOn, NoStep DEF Undecided, AtomicInv
<1>3. CASE Undecided
  BY <1>1, <1>2, <1>3, Interrupted DEF Atomic
<1>4. CASE ~Undecided
  BY <1>1, <1>2, <1>4, DiskStill DEF Atomic, AtomicInv
<1> QED BY <1>3, <1>4

LEMMA StepIsAtomic ==
  ASSUME AtomicInv, Typed', Bootable', [Next]_vars
  PROVE  Moves(Settled, Settled') /\ Atomic'
<1>1. CASE UNCHANGED vars
  <2>1. UNCHANGED <<link, stateFile, journal, intent, op>>
    BY <1>1 DEF vars
  <2>2. state_without_operation' = state_without_operation /\ DiskShape'
    BY <2>1, DiskStill DEF AtomicInv
  <2>3. Settled' = Settled
    BY <2>1, <2>2 DEF Settled, Undecided, state, apply_installation_floor, project_operation_state
  <2>4. CallKept'
    BY <2>1 DEF AtomicInv, Atomic, CallKept
  <2>5. StepShape'
    BY SMT, <2>1, <2>2 DEF AtomicInv, Atomic, StepShape, Shape, IntentBelow, project_operation_state,
         apply_installation_floor, installation_minimum_allowed
  <2> QED BY <2>2, <2>3, <2>4, <2>5, SameTable DEF Atomic
<1>2. CASE recover_operation
  BY <1>2, RecoverIsAtomic, RestoreIsAtomic, SaveIsAtomic, ClearIsAtomic DEF recover_operation
<1>3. CASE commit_operation
  <2>1. CASE clear_operation("clear", IF op.cmd = "install" THEN "unfence" ELSE "idle")
    BY <2>1, ClearIsAtomic
  <2> QED BY <1>3, <2>1, BeginIsAtomic, MutateIsAtomic, SaveIsAtomic DEF commit_operation
<1>4. CASE abort_operation
  BY <1>4, RestoreIsAtomic, SaveIsAtomic, ClearIsAtomic DEF abort_operation
<1> QED
  BY <1>1, <1>2, <1>3, <1>4, CallIsAtomic, OperationIsAtomic, RenameIsAtomic, PendIsAtomic, FenceIsAtomic,
     InstallIsAtomic, CrashIsAtomic DEF Next

LEMMA InitIsAtomic == Init => Atomic /\ Table!Init
<1> SUFFICES ASSUME Init PROVE Atomic /\ Table!Init
  OBVIOUS
<1>1. PICK v \in OptVersion, m \in Floor :
        /\ v \notin Releases
        /\ link = [n \in Links |-> IF n = "current" THEN v ELSE None]
        /\ stateFile = [EmptyState EXCEPT !.current = v, !.minimum = m]
  BY DEF Init, Floor
<1>2. /\ journal = NoOperation /\ intent = [pending |-> FALSE, minimum |-> None] /\ op = NoCall
  BY DEF Init
<1>3. /\ ~Journalled /\ op.pc = "idle" /\ ~Undecided
  BY <1>2, VersionFacts DEF Journalled, NoOperation, Undecided
<1>4. /\ state_without_operation.current = v /\ state_without_operation.previous = None
      /\ state_without_operation.minimum = m
  BY <1>1, <1>2 DEF state_without_operation, apply_installation_floor, Links, EmptyState
<1>5. upgrade_floor(state_without_operation) = m
  BY <1>1, <1>4 DEF upgrade_floor
<1>6. Settled = state_without_operation
  BY <1>2, <1>3 DEF Settled, state, NoOperation
<1>7. Covered(state_without_operation)
  BY SMT, <1>4, VersionNumbers DEF Covered
<1>8. Atomic
  BY <1>2, <1>3, <1>7 DEF Atomic, CallKept, DiskShape, StepShape, Recovering, Mutating, Floor
<1>9. Table!Init
  BY <1>1, <1>4, <1>5, <1>6 DEF Table!Init, Table!None, None, OptVersion, Version, Floor
<1> QED BY <1>8, <1>9

\* The slot files, links and journal implement the table of SlotTable, in
\* which activate, rollback and an installation are single steps: wherever a
\* command of router-updater is interrupted, the next one finds the table as
\* it was before the operation or as the operation leaves it, and the floor
\* never goes down.
THEOREM SlotsAreAtomic == Spec => AtomicOperations
<1>1. Init => AtomicInv /\ Table!Init
  BY InitTyped, InitBoots, InitIsAtomic DEF AtomicInv
<1>2. AtomicInv /\ [Next]_vars => AtomicInv'
  BY NextTyped, NextBoots, StepIsAtomic DEF AtomicInv
<1>3. AtomicInv /\ [Next]_vars => [Table!Next]_<<Settled.current, Settled.previous, upgrade_floor(Settled)>>
  <2> SUFFICES ASSUME AtomicInv, [Next]_vars
               PROVE  Table!Next \/ UNCHANGED <<Settled.current, Settled.previous, upgrade_floor(Settled)>>
    OBVIOUS
  <2>1. Moves(Settled, Settled')
    BY NextTyped, NextBoots, StepIsAtomic DEF AtomicInv
  <2> QED BY <2>1, MovesAreSteps
<1> QED BY <1>1, <1>2, <1>3, PTL DEF Spec, AtomicOperations, Table!Spec

-----------------------------------------------------------------------------
(***************************************************************************)
(* HelperStartup. The property speaks of a helper that serves or has given *)
(* up; in between, every step may rely on the core steps before it         *)
(* (CanonicalSoFar, FirstRunSoFar), which is what a proved core means when *)
(* the sockets are bound.                                                  *)
(***************************************************************************)

(* The steps of a start-up that come after a core step has taken effect. *)
WithResolver == {"services", "verify", "clear"}
WithTunnel == {"dnsmasq"} \cup WithResolver
WithForwarding == {"wireguard"} \cup WithTunnel
WithPolicy == {"forward"} \cup WithForwarding
WithAddress == {"nft"} \cup WithPolicy

FirstClosed == {"first stop", "first lan", "first nft", "first dnsmasq", "first verify", "first clear"}
FirstAddressed == {"first nft", "first dnsmasq", "first verify", "first clear"}
FirstRuled == {"first dnsmasq", "first verify", "first clear"}
FirstResolved == {"first verify", "first clear"}

StartupTyped ==
  /\ lastGood \in {"missing", "invalid", "good"} /\ access \in {"lan", "wireguard_only"}
  /\ boot \in CanonicalSteps \cup FirstRunSteps \cup {"down", "load", "failing", "serving"}
  /\ ruleset \in Owners \cup {"emergency"} /\ address \in Owners /\ dnsmasq \in Owners
  /\ tunnel \in Owners /\ uplink \in Owners
  /\ marker \in BOOLEAN /\ forwarding \in BOOLEAN /\ routerd \in BOOLEAN /\ leaky \in BOOLEAN
  /\ failures \in 0 .. MaxFailures

(* What every step of restore_last_good_runtime may rely on. *)
CanonicalSoFar ==
  /\ boot \in CanonicalSteps => lastGood = "good"
  /\ boot \in WithAddress => address = "canonical"
  /\ boot \in WithPolicy => ruleset = "canonical"
  /\ boot \in WithForwarding => forwarding
  /\ boot \in WithTunnel /\ access = "wireguard_only" => tunnel = "canonical"
  /\ boot \in WithResolver => dnsmasq = "canonical"

(* And of restore_first_run_runtime. *)
FirstRunSoFar ==
  /\ boot \in FirstRunSteps => lastGood = "missing"
  /\ boot \in FirstClosed => ~forwarding
  /\ boot \in FirstAddressed => address = "first-run"
  /\ boot \in FirstRuled => ruleset = "first-run"
  /\ boot \in FirstResolved => dnsmasq = "first-run"

StartupInv ==
  /\ StartupTyped /\ ForwardingGuarded /\ CanonicalSoFar /\ FirstRunSoFar /\ ServesRestored /\ FailsClosed

LEMMA StartupBegins == StartupInit => StartupInv
<1> SUFFICES ASSUME StartupInit PROVE StartupInv
  OBVIOUS
<1>1. StartupTyped
  <2>1. failures \in 0 .. MaxFailures
    BY SMT, StartupAssumption DEF StartupInit
  <2> QED
    BY <2>1 DEF StartupInit, StartupTyped, Owners
<1> QED
  BY <1>1 DEF StartupInit, StartupInv, ForwardingGuarded, CanonicalSoFar, FirstRunSoFar, ServesRestored,
     FailsClosed, WithResolver, WithTunnel, WithForwarding, WithPolicy, WithAddress, CanonicalSteps,
     FirstClosed, FirstAddressed, FirstRuled, FirstResolved, FirstRunSteps

LEMMA FailureCounted ==
  ASSUME StartupTyped, Failure
  PROVE  failures' \in 0 .. MaxFailures
BY SMT, StartupAssumption DEF StartupTyped, Failure

(* A start-up that stops where it was, with the plane as it was or one change of
   it further on, has nothing to show but that forwarding is still guarded. *)
LEMMA StopKeeps ==
  ASSUME StartupTyped', ForwardingGuarded', boot' = "failing"
  PROVE  StartupInv'
BY DEF StartupInv, CanonicalSoFar, FirstRunSoFar, ServesRestored, FailsClosed,
     WithResolver, WithTunnel, WithForwarding, WithPolicy, WithAddress, CanonicalSteps,
     FirstClosed, FirstAddressed, FirstRuled, FirstResolved, FirstRunSteps

LEMMA LoadKeeps ==
  ASSUME StartupInv, Respawn \/ LoadLastGood
  PROVE  StartupInv'
<1>1. UNCHANGED <<lastGood, access, marker, forwarding, ruleset, address, dnsmasq, tunnel, uplink, routerd, leaky>>
  BY DEF Respawn, LoadLastGood, unchangedByBoot, plane
<1>2. /\ boot' \in {"load", "failing", "first preflight", "preflight"}
      /\ boot' = "first preflight" => lastGood = "missing"
      /\ boot' = "preflight" => lastGood = "good"
  BY DEF Respawn, LoadLastGood, StartupInv, StartupTyped
<1>3. failures' \in 0 .. MaxFailures
  BY FailureCounted DEF StartupInv, StartupTyped, Respawn, LoadLastGood
<1>4. StartupTyped'
  BY ZenonT(30), <1>1, <1>2, <1>3 DEF StartupInv, StartupTyped, CanonicalSteps, FirstRunSteps
<1>5. ForwardingGuarded'
  BY <1>1 DEF StartupInv, ForwardingGuarded
<1>6. CanonicalSoFar' /\ FirstRunSoFar' /\ ServesRestored' /\ FailsClosed'
  BY <1>1, <1>2 DEF CanonicalSoFar, FirstRunSoFar, ServesRestored, FailsClosed,
     WithResolver, WithTunnel, WithForwarding, WithPolicy, WithAddress, CanonicalSteps,
     FirstClosed, FirstAddressed, FirstRuled, FirstResolved, FirstRunSteps
<1> QED
  BY <1>4, <1>5, <1>6 DEF StartupInv

LEMMA RestoreKeeps ==
  ASSUME StartupInv, restore_last_good_runtime \/ activate_wireguard \/ StartServices \/ VerifyAndClear
  PROVE  StartupInv'
<1>1. UNCHANGED <<lastGood, access, routerd, leaky>>
  BY DEF restore_last_good_runtime, activate_wireguard, StartServices, VerifyAndClear, Same, Core, unchangedByBoot
<1>2. StartupTyped'
  <2>1. failures' \in 0 .. MaxFailures
    BY FailureCounted DEF StartupInv, StartupTyped, restore_last_good_runtime, activate_wireguard, StartServices,
       VerifyAndClear, Same, Core
  <2>2. boot' \in CanonicalSteps \cup {"failing", "serving"} /\ marker' \in BOOLEAN /\ forwarding' \in BOOLEAN
    BY DEF StartupInv, StartupTyped, restore_last_good_runtime, activate_wireguard, StartServices,
       VerifyAndClear, Same, Core, CanonicalSteps, plane
  <2>3. /\ ruleset' \in Owners \cup {"emergency"} /\ address' \in Owners /\ dnsmasq' \in Owners
        /\ tunnel' \in Owners /\ uplink' \in Owners
    BY DEF StartupInv, StartupTyped, restore_last_good_runtime, activate_wireguard, StartServices,
       VerifyAndClear, Same, Core, Owners, plane
  <2> QED
    BY <1>1, <2>1, <2>2, <2>3 DEF StartupInv, StartupTyped
<1>3. ForwardingGuarded'
  BY DEF StartupInv, ForwardingGuarded, CanonicalSoFar, restore_last_good_runtime, activate_wireguard,
     StartServices, VerifyAndClear, Same, Core, plane, WithResolver, WithTunnel, WithForwarding, WithPolicy, WithAddress, CanonicalSteps,
     FirstClosed, FirstAddressed, FirstRuled, FirstResolved, FirstRunSteps
<1>4. CASE boot' = "failing"
  BY <1>2, <1>3, <1>4, StopKeeps
<1>5. CASE boot' # "failing"
  <2>1. CanonicalSoFar'
    BY <1>5 DEF StartupInv, CanonicalSoFar, restore_last_good_runtime, activate_wireguard,
       StartServices, VerifyAndClear, Same, Core, unchangedByBoot, plane,
     WithResolver, WithTunnel, WithForwarding, WithPolicy, WithAddress, CanonicalSteps,
     FirstClosed, FirstAddressed, FirstRuled, FirstResolved, FirstRunSteps
  <2>2. boot' \in CanonicalSteps \cup {"serving"}
    BY <1>5 DEF restore_last_good_runtime, activate_wireguard, StartServices, VerifyAndClear, Same, Core,
       CanonicalSteps
  <2>3. FirstRunSoFar' /\ FailsClosed'
    BY <2>2 DEF FirstRunSoFar, FailsClosed, WithResolver, WithTunnel, WithForwarding, WithPolicy, WithAddress, CanonicalSteps,
     FirstClosed, FirstAddressed, FirstRuled, FirstResolved, FirstRunSteps
  <2>4. ServesRestored'
    BY <1>5 DEF StartupInv, CanonicalSoFar, ServesRestored, restore_last_good_runtime, activate_wireguard,
       StartServices, VerifyAndClear, Same, Core, unchangedByBoot, plane,
     WithResolver, WithTunnel, WithForwarding, WithPolicy, WithAddress, CanonicalSteps,
     FirstClosed, FirstAddressed, FirstRuled, FirstResolved, FirstRunSteps
  <2> QED
    BY <1>2, <1>3, <2>1, <2>3, <2>4 DEF StartupInv
<1> QED
  BY <1>4, <1>5

LEMMA FirstRunKeeps ==
  ASSUME StartupInv, restore_first_run_runtime
  PROVE  StartupInv'
<1>1. UNCHANGED <<lastGood, access, routerd, leaky>>
  BY DEF restore_first_run_runtime, Same, Core, unchangedByBoot
<1>2. StartupTyped'
  <2>1. failures' \in 0 .. MaxFailures
    BY FailureCounted DEF StartupInv, StartupTyped, restore_first_run_runtime, Same, Core
  <2>2. boot' \in FirstRunSteps \cup {"failing", "serving"} /\ marker' \in BOOLEAN /\ forwarding' \in BOOLEAN
    BY DEF StartupInv, StartupTyped, restore_first_run_runtime, Same, Core, FirstRunSteps, plane
  <2>3. /\ ruleset' \in Owners \cup {"emergency"} /\ address' \in Owners /\ dnsmasq' \in Owners
        /\ tunnel' \in Owners /\ uplink' \in Owners
    BY DEF StartupInv, StartupTyped, restore_first_run_runtime, Same, Core, Owners, plane
  <2> QED
    BY <1>1, <2>1, <2>2, <2>3 DEF StartupInv, StartupTyped
<1>3. ForwardingGuarded'
  BY DEF StartupInv, ForwardingGuarded, FirstRunSoFar, restore_first_run_runtime, Same, Core, plane,
     WithResolver, WithTunnel, WithForwarding, WithPolicy, WithAddress, CanonicalSteps,
     FirstClosed, FirstAddressed, FirstRuled, FirstResolved, FirstRunSteps
<1>4. CASE boot' = "failing"
  BY <1>2, <1>3, <1>4, StopKeeps
<1>5. CASE boot' # "failing"
  <2>1. FirstRunSoFar'
    <3>1. boot \in FirstRunSteps
      BY DEF restore_first_run_runtime, Same, Core, FirstRunSteps
    <3>2. lastGood' = "missing"
      BY <1>1, <3>1 DEF StartupInv, FirstRunSoFar
    <3>3. boot' \in FirstClosed => ~forwarding'
      BY <1>5 DEF StartupInv, FirstRunSoFar, restore_first_run_runtime, Same, Core, plane, FirstClosed
    <3>4. boot' \in FirstAddressed => address' = "first-run"
      BY <1>5 DEF StartupInv, FirstRunSoFar, restore_first_run_runtime, Same, Core, plane, FirstAddressed
    <3>5. boot' \in FirstRuled => ruleset' = "first-run"
      BY <1>5 DEF StartupInv, FirstRunSoFar, restore_first_run_runtime, Same, Core, plane, FirstRuled
    <3>6. boot' \in FirstResolved => dnsmasq' = "first-run"
      BY <1>5 DEF StartupInv, FirstRunSoFar, restore_first_run_runtime, Same, Core, plane, FirstResolved
    <3> QED
      BY <3>2, <3>3, <3>4, <3>5, <3>6 DEF FirstRunSoFar
  <2>2. boot' \in FirstRunSteps \cup {"serving"}
    BY <1>5 DEF restore_first_run_runtime, Same, Core, FirstRunSteps
  <2>3. CanonicalSoFar' /\ FailsClosed'
    BY <2>2 DEF CanonicalSoFar, FailsClosed, WithResolver, WithTunnel, WithForwarding, WithPolicy, WithAddress, CanonicalSteps,
     FirstClosed, FirstAddressed, FirstRuled, FirstResolved, FirstRunSteps
  <2>4. ServesRestored'
    BY <1>5 DEF StartupInv, FirstRunSoFar, ServesRestored, restore_first_run_runtime, Same, Core,
       unchangedByBoot, plane, WithResolver, WithTunnel, WithForwarding, WithPolicy, WithAddress, CanonicalSteps,
     FirstClosed, FirstAddressed, FirstRuled, FirstResolved, FirstRunSteps
  <2> QED
    BY <1>2, <1>3, <2>1, <2>3, <2>4 DEF StartupInv
<1> QED
  BY <1>4, <1>5

LEMMA StopsKeep ==
  ASSUME StartupInv, fail_closed_startup \/ HelperDies \/ PowerCycle \/ LastGoodDamaged
  PROVE  StartupInv'
<1>1. boot' = "down"
  BY DEF fail_closed_startup, HelperDies, PowerCycle, LastGoodDamaged
<1>2. StartupTyped'
  <2>1. failures' \in 0 .. MaxFailures
    BY FailureCounted DEF StartupInv, StartupTyped, fail_closed_startup, HelperDies, PowerCycle, LastGoodDamaged
  <2>2. marker' \in BOOLEAN /\ forwarding' \in BOOLEAN /\ routerd' \in BOOLEAN /\ leaky' \in BOOLEAN
    BY DEF StartupInv, StartupTyped, fail_closed_startup, HelperDies, PowerCycle, LastGoodDamaged, plane
  <2>3. /\ ruleset' \in Owners \cup {"emergency"} /\ address' \in Owners /\ dnsmasq' \in Owners
        /\ tunnel' \in Owners /\ uplink' \in Owners
    BY DEF StartupInv, StartupTyped, fail_closed_startup, HelperDies, PowerCycle, LastGoodDamaged, Owners, plane
  <2>4. lastGood' \in {"missing", "invalid", "good"} /\ access' \in {"lan", "wireguard_only"}
    BY DEF StartupInv, StartupTyped, fail_closed_startup, HelperDies, PowerCycle, LastGoodDamaged
  <2> QED
    BY <1>1, <2>1, <2>2, <2>3, <2>4 DEF StartupTyped
<1>3. ForwardingGuarded'
  BY DEF StartupInv, StartupTyped, ForwardingGuarded, fail_closed_startup, HelperDies, PowerCycle,
     LastGoodDamaged, plane
<1>4. CanonicalSoFar' /\ FirstRunSoFar' /\ ServesRestored'
  BY <1>1 DEF CanonicalSoFar, FirstRunSoFar, ServesRestored, WithResolver, WithTunnel, WithForwarding, WithPolicy, WithAddress, CanonicalSteps,
     FirstClosed, FirstAddressed, FirstRuled, FirstResolved, FirstRunSteps
<1>5. FailsClosed'
  BY DEF StartupInv, FailsClosed, fail_closed_startup, HelperDies, PowerCycle, LastGoodDamaged, plane
<1> QED
  BY <1>2, <1>3, <1>4, <1>5 DEF StartupInv

LEMMA ServingKeeps ==
  ASSUME StartupInv, DaemonStarts \/ LiveChange
  PROVE  StartupInv'
<1>1. StartupTyped'
  <2>1. marker' \in BOOLEAN /\ forwarding' \in BOOLEAN /\ routerd' \in BOOLEAN /\ leaky' \in BOOLEAN
    BY DEF StartupInv, StartupTyped, DaemonStarts, LiveChange, plane
  <2>2. /\ ruleset' \in Owners \cup {"emergency"} /\ address' \in Owners /\ dnsmasq' \in Owners
        /\ tunnel' \in Owners /\ uplink' \in Owners
    BY DEF StartupInv, StartupTyped, DaemonStarts, LiveChange, Owners, plane
  <2>3. /\ lastGood' \in {"missing", "invalid", "good"} /\ access' \in {"lan", "wireguard_only"}
        /\ boot' \in {"serving", "down"} /\ failures' = failures
    BY DEF StartupInv, StartupTyped, DaemonStarts, LiveChange
  <2> QED
    BY <2>1, <2>2, <2>3 DEF StartupInv, StartupTyped
<1>2. ForwardingGuarded' /\ FailsClosed'
  BY SMT DEF StartupInv, StartupTyped, ForwardingGuarded, FailsClosed, DaemonStarts, LiveChange, plane
<1>3. CanonicalSoFar' /\ FirstRunSoFar'
  BY DEF CanonicalSoFar, FirstRunSoFar, DaemonStarts, LiveChange,
     WithResolver, WithTunnel, WithForwarding, WithPolicy, WithAddress, CanonicalSteps,
     FirstClosed, FirstAddressed, FirstRuled, FirstResolved, FirstRunSteps
<1>4. ServesRestored'
  BY DEF StartupInv, ServesRestored, DaemonStarts, LiveChange, plane
<1> QED
  BY <1>1, <1>2, <1>3, <1>4 DEF StartupInv

LEMMA StartupStep == StartupInv /\ [StartupNext]_startupVars => StartupInv'
<1> SUFFICES ASSUME StartupInv, [StartupNext]_startupVars
             PROVE  StartupInv'
  OBVIOUS
<1>1. CASE BootStep
  BY <1>1, LoadKeeps, RestoreKeeps, FirstRunKeeps, StopsKeep DEF BootStep
<1>2. CASE HelperDies \/ PowerCycle \/ LastGoodDamaged
  BY <1>2, StopsKeep
<1>3. CASE DaemonStarts \/ LiveChange
  BY <1>3, ServingKeeps
<1>4. CASE UNCHANGED startupVars
  BY SMT, <1>4 DEF startupVars, StartupInv, StartupTyped, ForwardingGuarded, CanonicalSoFar, FirstRunSoFar,
     ServesRestored, FailsClosed
<1> QED
  BY <1>1, <1>2, <1>3, <1>4 DEF StartupNext

\* Whichever command of a start-up fails and wherever the helper or the machine
\* stops, packets are forwarded only under a configured policy, the sockets are
\* bound only on a proved core, and a start that gives up leaves nothing open.
THEOREM StartupIsSound == StartupSpec => []StartupSound
<1>1. StartupInv => StartupSound
  <2>1. StartupTyped => StartupTypeOK
    BY DEF StartupTyped, StartupTypeOK
  <2> QED
    BY <2>1 DEF StartupInv, StartupSound
<1> QED
  BY <1>1, StartupBegins, StartupStep, PTL DEF StartupSpec

-----------------------------------------------------------------------------
(***************************************************************************)
(* DaemonShutdown, for every limit on connections. WakersRunOnce says what *)
(* holds once trigger has returned; what makes it true is who holds the    *)
(* wakers' mutex, and that a thread either finds the flag set under that   *)
(* mutex and runs its waker, or leaves it where the signal thread will     *)
(* find it. WakerCount states it at every point.                           *)
(***************************************************************************)

Threads == {"signal", "sleeper", "waiter", "notifier", "main"}

SignalPlaces == {"blocked", "flagged", "ordered", "notified", "waking", "interrupting", "done", "dead"}
SleeperPlaces == {"unborn", "work", "want", "checked", "asleep", "expired", "ended", "dead"}
WaiterPlaces == SleeperPlaces \union {"register", "registering", "late"}
NotifierPlaces == {"idle", "set", "dead"}
MainPlaces == {"starting", "register", "registering", "late", "next", "accept", "poll",
               "backoff", "drain", "join", "stopped", "dead"}

ShutdownTyped ==
    /\ DOMAIN at = Threads /\ at = [t \in Threads |-> at[t]]
    /\ at["signal"] \in SignalPlaces /\ at["sleeper"] \in SleeperPlaces
    /\ at["waiter"] \in WaiterPlaces /\ at["notifier"] \in NotifierPlaces
    /\ at["main"] \in MainPlaces
    /\ triggered \in BOOLEAN /\ pending \in BOOLEAN /\ registered \in BOOLEAN /\ guarded \in BOOLEAN
    /\ lock \in [{"sleep", "wake", "wakers"} -> {"free"} \union Threads]
    /\ wakers \subseteq Wakers /\ dueWakers \subseteq wakers
    /\ runs \in [Wakers -> Nat]
    /\ backlog \in 0 .. MaxBacklog /\ active \in 0 .. MAX_CONNECTIONS

(* A thread that has its waker still to register. *)
BeforePipe == at["main"] \in {"starting", "register", "registering", "late"}
BeforeWake == at["waiter"] \in {"unborn", "register", "registering", "late"} \/ ~registered

(* Who holds the mutexes of the wakers, of the sleep and of the wake. *)
LocksHeld ==
    /\ lock["wakers"] = "signal" <=> at["signal"] \in {"waking", "interrupting"}
    /\ lock["wakers"] = "main" <=> at["main"] = "registering"
    /\ lock["wakers"] = "waiter" <=> at["waiter"] = "registering"

FlagSet ==
    /\ triggered <=> at["signal"] # "blocked"
    /\ at["signal"] \notin {"waking", "interrupting"} => dueWakers = {}
    /\ at["waiter"] \in {"register", "registering", "late", "want", "checked", "asleep", "expired"} => registered

(* A registered waker has been run exactly when the signal thread has come
   to it, and one that is not registered when its thread is past it. *)
WakerCount ==
    /\ \A w \in wakers :
         runs[w] = IF \/ at["signal"] \in {"blocked", "flagged", "ordered", "notified"}
                      \/ w \in dueWakers THEN 0 ELSE 1
    /\ BeforePipe => "pipe" \notin wakers
    /\ BeforeWake => "wake" \notin wakers
    /\ "pipe" \notin wakers => runs["pipe"] = IF BeforePipe THEN 0 ELSE 1
    /\ "wake" \notin wakers => runs["wake"] = IF BeforeWake THEN 0 ELSE 1

(* The guard is dropped by the last step of main. *)
GuardHeld ==
    /\ ~guarded <=> at["main"] = "stopped"
    /\ at["main"] = "stopped" => at["sleeper"] = "ended" /\ at["waiter"] = "ended"
    /\ at["main"] = "starting" =>
         /\ at["sleeper"] = "unborn" /\ at["waiter"] = "unborn" /\ ~registered
         /\ active = 0 /\ at["notifier"] = "idle"

(* fatal ends all threads before any has registered a waker. *)
Exited ==
    (\A t \in Threads : at[t] = "dead") /\ (\A w \in Wakers : runs[w] = 0) /\ active = 0

Alive == (\A t \in Threads : at[t] # "dead") /\ LocksHeld /\ FlagSet /\ WakerCount /\ GuardHeld

ShutdownInv == ShutdownTyped /\ (Exited \/ Alive)

LEMMA ShutdownStarts == ShutdownInit => ShutdownInv
<1> SUFFICES ASSUME ShutdownInit PROVE ShutdownInv
    OBVIOUS
<1> USE DEF ShutdownInit
<1>1. DOMAIN at = Threads
    BY DEF Threads
<1>2. at = [t \in Threads |-> at[t]]
    BY <1>1
<1>3. at["signal"] = "blocked" /\ at["sleeper"] = "unborn" /\ at["waiter"] = "unborn"
      /\ at["notifier"] = "idle" /\ at["main"] = "starting"
    OBVIOUS
<1>4. lock \in [{"sleep", "wake", "wakers"} -> {"free"} \union Threads]
    BY SMT
<1>5. runs \in [Wakers -> Nat] /\ runs["pipe"] = 0 /\ runs["wake"] = 0
    BY DEF Wakers
<1>6. /\ triggered = FALSE /\ pending = FALSE /\ registered = FALSE /\ guarded = TRUE
      /\ wakers = {} /\ dueWakers = {} /\ backlog = 0 /\ active = 0 /\ lock["wakers"] = "free"
    OBVIOUS
<1> HIDE DEF ShutdownInit
<1>7. ShutdownTyped
    <2>1. /\ at["signal"] \in SignalPlaces /\ at["sleeper"] \in SleeperPlaces
          /\ at["waiter"] \in WaiterPlaces /\ at["notifier"] \in NotifierPlaces
          /\ at["main"] \in MainPlaces
        BY <1>3 DEF SignalPlaces, SleeperPlaces, WaiterPlaces, NotifierPlaces, MainPlaces
    <2>2. backlog \in 0 .. MaxBacklog /\ active \in 0 .. MAX_CONNECTIONS
        BY SMT, <1>6, ShutdownAssumption
    <2>3. wakers \subseteq Wakers /\ dueWakers \subseteq wakers
        BY <1>6
    <2> QED
        BY <1>1, <1>2, <1>4, <1>5, <1>6, <2>1, <2>2, <2>3, Zenon DEF ShutdownTyped
<1>8. Alive
    BY <1>3, <1>5, <1>6
       DEF Alive, LocksHeld, FlagSet, WakerCount, GuardHeld, BeforePipe, BeforeWake, Threads
<1> QED
    BY <1>7, <1>8 DEF ShutdownInv

USE DEF Threads, SignalPlaces, SleeperPlaces, WaiterPlaces, NotifierPlaces, MainPlaces, Wakers,
        threadVars, serverVars, Free, Go, Take, Release, Notify

LEMMA ShutdownKept == ASSUME ShutdownTyped, Alive, ShutdownNext PROVE ShutdownInv'
<1> USE ShutdownAssumption DEF Alive, ShutdownTyped, LocksHeld, FlagSet, WakerCount, GuardHeld, BeforePipe, BeforeWake
<1>1. CASE trigger_on_signals
    <2>1. ShutdownTyped'
        BY <1>1 DEF trigger_on_signals
    <2>2. Alive'
        BY SMT, <1>1 DEF trigger_on_signals
    <2> QED
        BY <2>1, <2>2 DEF ShutdownInv
<1>2. CASE OrderAfterCheck
    <2>1. ShutdownTyped'
        BY ZenonT(30), <1>2 DEF OrderAfterCheck
    <2>2. Alive'
        BY SMT, <1>2 DEF OrderAfterCheck
    <2> QED
        BY <2>1, <2>2 DEF ShutdownInv
<1>3. CASE NotifySleepers
    <2>1. ShutdownTyped'
        BY ZenonT(30), <1>3 DEF NotifySleepers
    <2>2. Alive'
        BY SMT, <1>3 DEF NotifySleepers
    <2> QED
        BY <2>1, <2>2 DEF ShutdownInv
<1>4. CASE LockWakers
    <2>1. ShutdownTyped'
        BY <1>4 DEF LockWakers
    <2>2. Alive'
        BY SMT, <1>4 DEF LockWakers
    <2> QED
        BY <2>1, <2>2 DEF ShutdownInv
<1>5. CASE RunWaker
    <2>1. ShutdownTyped'
        <3>1. runs' \in [Wakers -> Nat]
            BY SMT, <1>5 DEF RunWaker
        <3>2. dueWakers' \subseteq wakers'
            BY <1>5 DEF RunWaker
        <3> QED
            BY ZenonT(30), <1>5, <3>1, <3>2 DEF RunWaker
    <2>2. Alive'
        BY SMT, <1>5 DEF RunWaker
    <2> QED
        BY <2>1, <2>2 DEF ShutdownInv
<1>6. CASE interrupt
    <2>1. ShutdownTyped'
        BY ZenonT(30), <1>6 DEF interrupt
    <2>2. Alive'
        BY SMT, <1>6 DEF interrupt
    <2> QED
        BY <2>1, <2>2 DEF ShutdownInv
<1>7. CASE TriggerReturns
    <2>1. ShutdownTyped'
        BY <1>7 DEF TriggerReturns
    <2>2. Alive'
        BY SMT, <1>7 DEF TriggerReturns
    <2> QED
        BY <2>1, <2>2 DEF ShutdownInv
<1>8. CASE CallSleep
    <2>1. ShutdownTyped'
        BY <1>8 DEF CallSleep
    <2>2. Alive'
        BY SMT, <1>8 DEF CallSleep
    <2> QED
        BY <2>1, <2>2 DEF ShutdownInv
<1>9. CASE sleep
    <2>1. ShutdownTyped'
        BY SMT, <1>9 DEF sleep
    <2>2. Alive'
        BY SMT, <1>9 DEF sleep
    <2> QED
        BY <2>1, <2>2 DEF ShutdownInv
<1>10. CASE SleepBlocks
    <2>1. ShutdownTyped'
        BY <1>10 DEF SleepBlocks
    <2>2. Alive'
        BY SMT, <1>10 DEF SleepBlocks
    <2> QED
        BY <2>1, <2>2 DEF ShutdownInv
<1>11. CASE TimesOut("sleeper")
    <2>1. ShutdownTyped'
        BY ZenonT(30), <1>11 DEF TimesOut
    <2>2. Alive'
        BY SMT, <1>11 DEF TimesOut
    <2> QED
        BY <2>1, <2>2 DEF ShutdownInv
<1>12. CASE CallWait
    <2>1. ShutdownTyped'
        BY <1>12 DEF CallWait
    <2>2. Alive'
        BY SMT, <1>12 DEF CallWait
    <2> QED
        BY <2>1, <2>2 DEF ShutdownInv
<1>13. CASE LockForWaker("waiter")
    <2>1. ShutdownTyped'
        BY <1>13 DEF LockForWaker
    <2>2. Alive'
        BY SMTT(30), <1>13 DEF LockForWaker
    <2> QED
        BY <2>1, <2>2 DEF ShutdownInv
<1>14. CASE on_trigger("waiter", "wake", "want")
    <2>1. ShutdownTyped'
        BY SMT, <1>14 DEF on_trigger
    <2>2. Alive'
        <3>1. (\A t \in Threads : at[t] # "dead")'
            BY SMT, <1>14 DEF on_trigger
        <3>2. LocksHeld'
            BY SMTT(30), <1>14 DEF on_trigger
        <3>3. FlagSet'
            BY SMTT(30), <1>14 DEF on_trigger
        <3>4. WakerCount'
            BY SMT, <1>14 DEF on_trigger
        <3>5. GuardHeld'
            BY SMT, <1>14 DEF on_trigger
        <3> QED
            BY <3>1, <3>2, <3>3, <3>4, <3>5
    <2> QED
        BY <2>1, <2>2 DEF ShutdownInv
<1>15. CASE RunLateWaker("waiter", "wake", "want")
    <2>1. ShutdownTyped'
        <3>1. runs' \in [Wakers -> Nat]
            BY SMTT(30), <1>15 DEF RunLateWaker
        <3> QED
            BY <1>15, <3>1 DEF RunLateWaker
    <2>2. Alive'
        <3>1. (\A t \in Threads : at[t] # "dead")'
            BY SMT, <1>15 DEF RunLateWaker
        <3>2. LocksHeld'
            BY <1>15 DEF RunLateWaker
        <3>3. FlagSet'
            BY <1>15 DEF RunLateWaker
        <3>4. WakerCount'
            BY SMT, <1>15 DEF RunLateWaker
        <3>5. GuardHeld'
            BY <1>15 DEF RunLateWaker
        <3> QED
            BY <3>1, <3>2, <3>3, <3>4, <3>5
    <2> QED
        BY <2>1, <2>2 DEF ShutdownInv
<1>16. CASE wait
    <2>1. ShutdownTyped'
        <3>1. lock' \in [{"sleep", "wake", "wakers"} -> {"free"} \union Threads]
            BY SMT, <1>16 DEF wait
        <3>2. at'["waiter"] \in WaiterPlaces
            BY SMT, <1>16 DEF wait
        <3>3. at' = [at EXCEPT !["waiter"] = at'["waiter"]]
            BY SMTT(30), <1>16 DEF wait
        <3> QED
            BY ZenonT(30), <1>16, <3>1, <3>2, <3>3 DEF wait
    <2>2. Alive'
        BY SMT, <1>16 DEF wait
    <2> QED
        BY <2>1, <2>2 DEF ShutdownInv
<1>17. CASE WaitBlocks
    <2>1. ShutdownTyped'
        BY <1>17 DEF WaitBlocks
    <2>2. Alive'
        BY SMT, <1>17 DEF WaitBlocks
    <2> QED
        BY <2>1, <2>2 DEF ShutdownInv
<1>18. CASE TimesOut("waiter")
    <2>1. ShutdownTyped'
        BY ZenonT(30), <1>18 DEF TimesOut
    <2>2. Alive'
        BY SMT, <1>18 DEF TimesOut
    <2> QED
        BY <2>1, <2>2 DEF ShutdownInv
<1>19. CASE notify
    <2>1. ShutdownTyped'
        BY <1>19 DEF notify
    <2>2. Alive'
        BY SMT, <1>19 DEF notify
    <2> QED
        BY <2>1, <2>2 DEF ShutdownInv
<1>20. CASE NotifyWaiter
    <2>1. ShutdownTyped'
        BY ZenonT(30), <1>20 DEF NotifyWaiter
    <2>2. Alive'
        BY SMT, <1>20 DEF NotifyWaiter
    <2> QED
        BY <2>1, <2>2 DEF ShutdownInv
<1>21. CASE StartWorkers
    <2>1. ShutdownTyped'
        BY <1>21 DEF StartWorkers
    <2>2. Alive'
        BY SMT, <1>21 DEF StartWorkers
    <2> QED
        BY <2>1, <2>2 DEF ShutdownInv
<1>22. CASE LockForWaker("main")
    <2>1. ShutdownTyped'
        BY <1>22 DEF LockForWaker
    <2>2. Alive'
        BY SMTT(30), <1>22 DEF LockForWaker
    <2> QED
        BY <2>1, <2>2 DEF ShutdownInv
<1>23. CASE on_trigger("main", "pipe", "next")
    <2>1. ShutdownTyped'
        BY SMTT(30), <1>23 DEF on_trigger
    <2>2. Alive'
        BY SMT, <1>23 DEF on_trigger
    <2> QED
        BY <2>1, <2>2 DEF ShutdownInv
<1>24. CASE RunLateWaker("main", "pipe", "next")
    <2>1. ShutdownTyped'
        <3>1. runs' \in [Wakers -> Nat]
            BY SMT, <1>24 DEF RunLateWaker
        <3> QED
            BY <1>24, <3>1 DEF RunLateWaker
    <2>2. Alive'
        BY SMT, <1>24 DEF RunLateWaker
    <2> QED
        BY <2>1, <2>2 DEF ShutdownInv
<1>25. CASE CheckStop
    <2>1. ShutdownTyped'
        BY <1>25 DEF CheckStop
    <2>2. Alive'
        BY SMT, <1>25 DEF CheckStop
    <2> QED
        BY <2>1, <2>2 DEF ShutdownInv
<1>26. CASE Accept
    <2>1. ShutdownTyped'
        <3>1. backlog' \in 0 .. MaxBacklog
            BY SMT, <1>26 DEF Accept
        <3>2. active' \in 0 .. MAX_CONNECTIONS
            BY SMT, <1>26 DEF Accept
        <3> QED
            BY <1>26, <3>1, <3>2 DEF Accept
    <2>2. Alive'
        BY SMTT(30), <1>26 DEF Accept
    <2> QED
        BY <2>1, <2>2 DEF ShutdownInv
<1>27. CASE AcceptFails
    <2>1. ShutdownTyped'
        BY SMT, <1>27 DEF AcceptFails
    <2>2. Alive'
        BY SMT, <1>27 DEF AcceptFails
    <2> QED
        BY <2>1, <2>2 DEF ShutdownInv
<1>28. CASE PollReturns
    <2>1. ShutdownTyped'
        BY <1>28 DEF PollReturns
    <2>2. Alive'
        BY SMT, <1>28 DEF PollReturns
    <2> QED
        BY <2>1, <2>2 DEF ShutdownInv
<1>29. CASE BackoffEnds
    <2>1. ShutdownTyped'
        BY <1>29 DEF BackoffEnds
    <2>2. Alive'
        BY SMT, <1>29 DEF BackoffEnds
    <2> QED
        BY <2>1, <2>2 DEF ShutdownInv
<1>30. CASE Drained
    <2>1. ShutdownTyped'
        BY <1>30 DEF Drained
    <2>2. Alive'
        BY SMT, <1>30 DEF Drained
    <2> QED
        BY <2>1, <2>2 DEF ShutdownInv
<1>31. CASE join
    <2>1. ShutdownTyped'
        BY <1>31 DEF join
    <2>2. Alive'
        BY SMTT(30), <1>31 DEF join
    <2> QED
        BY <2>1, <2>2 DEF ShutdownInv
<1>32. CASE Connect
    <2>1. ShutdownTyped'
        BY SMTT(30), <1>32 DEF Connect
    <2>2. Alive'
        BY SMTT(30), <1>32 DEF Connect
    <2> QED
        BY <2>1, <2>2 DEF ShutdownInv
<1>33. CASE ConnectionCloses
    <2>1. ShutdownTyped'
        BY SMTT(30), <1>33 DEF ConnectionCloses
    <2>2. Alive'
        BY SMT, <1>33 DEF ConnectionCloses
    <2> QED
        BY <2>1, <2>2 DEF ShutdownInv
<1>34. CASE fatal
    <2>1. at' = [t \in Threads |-> "dead"] /\ UNCHANGED <<threadVars, backlog, active>> /\ guarded' = FALSE
        BY <1>34 DEF fatal
    <2>2. ShutdownTyped'
        BY <2>1
    <2>3. Exited'
        BY SMT, <1>34, <2>1 DEF fatal, Exited
    <2> QED
        BY <2>2, <2>3 DEF ShutdownInv
<1> HIDE DEF Alive, ShutdownTyped
<1>35. CASE trigger_on_signals \/ SignalStep
    BY <1>35, <1>1, <1>2, <1>3, <1>4, <1>5, <1>6, <1>7, Zenon DEF SignalStep
<1>36. CASE SleeperStep \/ TimesOut("sleeper")
    BY <1>36, <1>8, <1>9, <1>10, <1>11, Zenon DEF SleeperStep
<1>37. CASE WaiterStep \/ TimesOut("waiter")
    BY <1>37, <1>12, <1>13, <1>14, <1>15, <1>16, <1>17, <1>18, Zenon DEF WaiterStep, Registers
<1>38. CASE MainStep
    BY ZenonT(30), <1>38, <1>21, <1>22, <1>23, <1>24, <1>25, <1>26, <1>27, <1>28, <1>29, <1>30, <1>31, <1>34, Zenon
       DEF MainStep, Registers
<1> QED
    BY <1>19, <1>20, <1>32, <1>33, <1>35, <1>36, <1>37, <1>38, Zenon DEF ShutdownNext

(* Nothing happens after fatal. *)
LEMMA ExitedStays == ASSUME ShutdownTyped, Exited, ShutdownNext PROVE FALSE
<1> USE DEF Exited, ShutdownTyped
<1>1. /\ at.signal = "dead" /\ at.sleeper = "dead" /\ at.waiter = "dead"
      /\ at.notifier = "dead" /\ at.main = "dead" /\ active = 0
    OBVIOUS
<1>2. ~trigger_on_signals /\ ~SignalStep
    BY <1>1 DEF trigger_on_signals, SignalStep, OrderAfterCheck, NotifySleepers, LockWakers, RunWaker,
                interrupt, TriggerReturns
<1>3. ~SleeperStep /\ ~TimesOut("sleeper") /\ ~TimesOut("waiter")
    BY <1>1 DEF SleeperStep, CallSleep, sleep, SleepBlocks, TimesOut
<1>4. ~WaiterStep /\ ~notify /\ ~NotifyWaiter
    BY <1>1 DEF WaiterStep, CallWait, Registers, LockForWaker, on_trigger, RunLateWaker, wait, WaitBlocks,
                notify, NotifyWaiter
<1>5. ~MainStep /\ ~Connect /\ ~ConnectionCloses
    BY SMT, <1>1 DEF MainStep, StartWorkers, fatal, Registers, LockForWaker, on_trigger, RunLateWaker, CheckStop,
                Accept, AcceptFails, PollReturns, BackoffEnds, Drained, join, Connect, ConnectionCloses
<1> QED
    BY <1>2, <1>3, <1>4, <1>5, Zenon DEF ShutdownNext

LEMMA ShutdownAlways == ShutdownSpec => []ShutdownInv
<1>1. ShutdownInv /\ [ShutdownNext]_shutdownVars => ShutdownInv'
    <2>1. ASSUME ShutdownInv, ShutdownNext PROVE ShutdownInv'
        BY <2>1, ShutdownKept, ExitedStays DEF ShutdownInv
    <2>2. ASSUME ShutdownInv, UNCHANGED shutdownVars PROVE ShutdownInv'
        BY SMT, <2>2 DEF shutdownVars, ShutdownInv, ShutdownTyped, Exited, Alive, LocksHeld, FlagSet, WakerCount,
                    GuardHeld, BeforePipe, BeforeWake
    <2> QED
        BY <2>1, <2>2
<1> QED
    BY <1>1, ShutdownStarts, PTL DEF ShutdownSpec

-----------------------------------------------------------------------------
(* Types and the limit on connections. *)
THEOREM ShutdownTypeCorrect == ShutdownSpec => []ShutdownTypeOK
<1>1. ShutdownInv => ShutdownTypeOK
    BY SMT DEF ShutdownInv, ShutdownTyped, ShutdownTypeOK
<1> QED
    BY <1>1, ShutdownAlways, PTL

(* No waker is run twice, and once trigger has returned every thread that got
   past on_trigger has had its waker run, wherever the signal found it. *)
THEOREM ShutdownWakesAll == ShutdownSpec => []WakersRunOnce
<1>1. ShutdownInv => WakersRunOnce
    <2>1. ASSUME ShutdownTyped, Exited PROVE WakersRunOnce
        BY SMT, <2>1 DEF Exited, WakersRunOnce
    <2>2. ASSUME ShutdownTyped, Alive PROVE WakersRunOnce
        <3> USE <2>2 DEF Alive, ShutdownTyped, WakerCount
        <3>1. \A w \in Wakers : runs[w] <= 1
            BY SMT
        <3>2. ASSUME at["signal"] = "done", ~BeforePipe PROVE runs["pipe"] = 1
            BY <3>2 DEF FlagSet
        <3>3. ASSUME at["signal"] = "done", ~BeforeWake PROVE runs["wake"] = 1
            BY <3>3 DEF FlagSet
        <3> QED
            BY <3>1, <3>2, <3>3 DEF WakersRunOnce, BeforePipe, BeforeWake, FlagSet
    <2> QED
        BY <2>1, <2>2 DEF ShutdownInv
<1> QED
    BY <1>1, ShutdownAlways, PTL

(* main drops the daemon guard only when both workers have ended. *)
THEOREM ShutdownGuards == ShutdownSpec => []GuardCoversWorkers
<1>1. ShutdownInv => GuardCoversWorkers
    BY DEF ShutdownInv, ShutdownTyped, Exited, Alive, GuardHeld, GuardCoversWorkers
<1> QED
    BY <1>1, ShutdownAlways, PTL

\* ShutdownSound: a shutdown runs every registered waker and none twice, and the
\* guard outlives the workers, wherever the signal arrives.
THEOREM ShutdownsSound == ShutdownSpec => []ShutdownSound
BY ShutdownTypeCorrect, ShutdownWakesAll, ShutdownGuards, PTL DEF ShutdownSound
=============================================================================
