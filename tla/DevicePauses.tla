----------------------------- MODULE DevicePauses -----------------------------
(***************************************************************************)
(* Pausing the Internet access of a device: the helper's committed set of  *)
(* pauses, its undo journal, the copy of the undo kept in memory, and the  *)
(* nft set that enforces them.  Requests run one at a time under the apply *)
(* lock; any write or nft call may fail, and the helper or the whole       *)
(* machine may stop at any step.                                           *)
(***************************************************************************)
EXTENDS Integers, FiniteSets

CONSTANTS
  Devices,
  MAX_DEVICE_PAUSES,
  PauseSeconds,     \* the durations a request may name; 0 is until resumed
  MaxClock,         \* bound on the clock
  MaxFaults         \* bound on failures and stops

ASSUME PauseAssumption ==
  /\ IsFiniteSet(Devices) /\ Devices # {} /\ MAX_DEVICE_PAUSES \in Nat
  /\ PauseSeconds \subseteq Nat /\ MaxClock \in Nat /\ MaxFaults \in Nat

VARIABLES
  clock,        \* seconds
  lan,          \* the devices whose address is in the LAN of last-good
  applied,      \* device-pauses.json
  undo,         \* device-pauses.json.pending; NoPauses if there is none
  uncertain,    \* pause_uncertain, in memory
  blocked,      \* the nft set minimalrouter_pause
  action,       \* the request being carried out
  verdict,      \* the last answer
  promised,     \* history: the pauses the answers so far leave possible
  pauseFaults        \* history: failures and stops so far

pauseFiles == <<applied, undo>>
pauseVars ==
  <<clock, lan, applied, undo, uncertain, blocked, action, verdict, promised, pauseFaults>>

-----------------------------------------------------------------------------
\* A pause ends at a time, with a resume (0), or there is none (-1).
Until == -1 .. MaxClock + 1
Pauses == [Devices -> Until]
NonePaused == [device \in Devices |-> -1]
NoPauses == [device \in {} |-> -1]

ActiveAt(now, pauses) ==
  [device \in DOMAIN pauses |->
     IF pauses[device] > 0 /\ pauses[device] <= now THEN -1 ELSE pauses[device]]

active_pauses(pauses) == ActiveAt(clock, pauses)

Paused(pauses) == {device \in DOMAIN pauses : active_pauses(pauses)[device] # -1}

IdleAction == [step |-> "idle", kind |-> "status", device |-> CHOOSE d \in Devices : TRUE,
         until |-> 0, old |-> NonePaused, new |-> NonePaused]

PauseSteps ==
  {"idle", "reassert", "settle", "settled", "change", "intent", "install", "commit",
   "clear", "undo intent", "undo install", "undo commit", "undo clear"}

\* The variables range over the values the program gives them.
PauseTypeOK ==
  /\ clock \in 0 .. MaxClock /\ lan \subseteq Devices /\ pauseFaults \in 0 .. MaxFaults
  /\ applied \in Pauses /\ blocked \in Pauses
  /\ undo \in Pauses \cup {NoPauses} /\ uncertain \in Pauses \cup {NoPauses}
  /\ action \in [step : PauseSteps, kind : {"status", "pause", "resume"}, device : Devices,
                 until : Until, old : Pauses, new : Pauses]
  /\ verdict \in {"success", "restored", "recovery", "down"}
  /\ promised \subseteq Pauses /\ promised # {}

PauseInit ==
  /\ clock = 0 /\ lan = Devices /\ pauseFaults = 0
  /\ applied = NonePaused /\ undo = NoPauses /\ uncertain = NoPauses /\ blocked = NonePaused
  /\ action = IdleAction /\ verdict = "success" /\ promised = {NonePaused}

-----------------------------------------------------------------------------
Fault == pauseFaults < MaxFaults /\ pauseFaults' = pauseFaults + 1
NoFault == UNCHANGED pauseFaults

\* load_pause_record: the undo in memory, then the journal, then the set.
load_pause_record ==
  IF uncertain # NoPauses THEN uncertain ELSE IF undo # NoPauses THEN undo ELSE applied

StepTo(step) == action' = [action EXCEPT !.step = step]

\* An answer; one that is not certain leaves both sets of a change possible.
Answers(result, pauses) ==
  /\ action' = IdleAction /\ verdict' = result
  /\ promised' = IF result = "recovery" THEN promised \cup pauses ELSE pauses

\* handle_service_action: admitted by guard_service_action_mutation, the
\* request has a valid address, and every operation first reasserts the set.
\* A refused request changes nothing.
Request(kind, device, seconds) ==
  /\ action.step = "idle" /\ verdict # "down"
  /\ kind # "status" => device \in lan
  /\ action' = [IdleAction EXCEPT !.step = "reassert", !.kind = kind, !.device = device,
                            !.until = IF seconds = 0 THEN 0 ELSE clock + seconds]
  /\ UNCHANGED <<clock, lan, pauseFiles, uncertain, blocked, verdict, promised, pauseFaults>>

PauseRequest ==
  \/ \E device \in Devices, seconds \in PauseSeconds :
       clock + seconds <= MaxClock + 1 /\ Request("pause", device, seconds)
  \/ \E device \in Devices : Request("resume", device, 0)

StatusRequest == Request("status", IdleAction.device, 0)

\* apply_device_pause_firewall validates every address against the LAN and
\* replaces the table in one nft transaction.
Renders(pauses) == Paused(pauses) \subseteq lan
Install(pauses) == Renders(pauses) /\ blocked' = active_pauses(pauses)

\* devices_reconcile up to its success.
Reassert ==
  /\ action.step = "reassert"
  /\ LET old == active_pauses(load_pause_record)
     IN \/ /\ Install(load_pause_record) /\ NoFault
           /\ action' = [action EXCEPT !.old = old,
                           !.step = IF undo # NoPauses \/ uncertain # NoPauses THEN "settle" ELSE "change"]
           /\ UNCHANGED <<verdict, promised>>
        \/ /\ ~Renders(load_pause_record) /\ NoFault /\ UNCHANGED blocked
           /\ Answers("recovery", {})
        \/ Fault /\ UNCHANGED blocked /\ Answers("recovery", {})
  /\ UNCHANGED <<clock, lan, pauseFiles, uncertain>>

\* The two writes of finish_pause_record: each may fail before or after its
\* effect.  A write of the old set ends an undo or a reconciliation.
WriteApplied(from, to, pauses, onError) ==
  /\ action.step = from
  /\ \/ applied' = pauses /\ StepTo(to) /\ NoFault /\ UNCHANGED <<verdict, promised>>
     \/ applied' \in {applied, pauses} /\ Fault /\ onError
  /\ UNCHANGED <<clock, lan, undo, uncertain, blocked>>

ClearUndo(from, then, onError) ==
  /\ action.step = from
  /\ \/ undo' = NoPauses /\ uncertain' = NoPauses /\ NoFault /\ then
     \/ undo' \in {undo, NoPauses} /\ Fault /\ onError /\ UNCHANGED uncertain
  /\ UNCHANGED <<clock, lan, applied, blocked>>

Keep == UNCHANGED <<verdict, promised>>

\* A reconciled record is written as it was loaded.
Settle ==
  \/ WriteApplied("settle", "settled", load_pause_record, Answers("recovery", {}))
  \/ ClearUndo("settled", StepTo("change") /\ Keep, Answers("recovery", {}))

\* The rest of device_change: the limit, and the next set.
Change ==
  /\ action.step = "change"
  /\ LET others == Paused(action.old) \ {action.device}
         next == [action.old EXCEPT ![action.device] = IF action.kind = "resume" THEN -1 ELSE action.until]
     IN \/ /\ \/ action.kind = "status"
              \/ action.kind = "pause" /\ Cardinality(others) >= MAX_DEVICE_PAUSES
           /\ Answers("success", {action.old}) /\ UNCHANGED uncertain
        \/ /\ \/ action.kind = "resume"
              \/ action.kind = "pause" /\ Cardinality(others) < MAX_DEVICE_PAUSES
           /\ action' = [action EXCEPT !.step = "intent", !.new = next]
           /\ uncertain' = action.old /\ Keep
  /\ NoFault /\ UNCHANGED <<clock, lan, pauseFiles, blocked>>

Either == {action.old, action.new}

\* device_transition: the undo is durable before nft is touched.
Intent ==
  /\ action.step = "intent"
  /\ \/ undo' = action.old /\ StepTo("install") /\ NoFault /\ Keep
     \/ undo' \in {undo, action.old} /\ Fault /\ Answers("recovery", Either)
  /\ UNCHANGED <<clock, lan, applied, uncertain, blocked>>

InstallNext ==
  /\ action.step = "install"
  /\ \/ Install(action.new) /\ StepTo("commit") /\ NoFault
     \/ ~Renders(action.new) /\ UNCHANGED blocked /\ StepTo("undo intent") /\ NoFault
     \/ blocked' \in {blocked, active_pauses(action.new)} /\ StepTo("undo intent") /\ Fault
  /\ UNCHANGED <<clock, lan, pauseFiles, uncertain, verdict, promised>>

CommitNext ==
  \/ WriteApplied("commit", "clear", action.new, StepTo("undo intent") /\ Keep)
  \/ ClearUndo("clear", Answers("success", {action.new}), StepTo("undo intent") /\ Keep)

\* The rollback goes on with nft even if its intent was not recorded.
UndoIntent ==
  /\ action.step = "undo intent"
  /\ \/ undo' = action.old /\ StepTo("undo install") /\ NoFault /\ Keep /\ UNCHANGED blocked
     \/ /\ undo' \in {undo, action.old} /\ blocked' \in {blocked, active_pauses(action.old)}
        /\ Fault /\ Answers("recovery", Either)
  /\ UNCHANGED <<clock, lan, applied, uncertain>>

\* Mutant: the kernel is taken for unchanged.
UndoFilesOnly ==
  /\ action.step = "undo install" /\ StepTo("undo commit") /\ NoFault
  /\ UNCHANGED <<clock, lan, pauseFiles, uncertain, blocked, verdict, promised>>

UndoInstall ==
  /\ action.step = "undo install"
  /\ \/ Install(action.old) /\ StepTo("undo commit") /\ NoFault /\ Keep
     \/ ~Renders(action.old) /\ UNCHANGED blocked /\ Answers("recovery", Either) /\ NoFault
     \/ blocked' \in {blocked, active_pauses(action.old)} /\ Answers("recovery", Either) /\ Fault
  /\ UNCHANGED <<clock, lan, pauseFiles, uncertain>>

UndoCommit ==
  \/ WriteApplied("undo commit", "undo clear", action.old, Answers("recovery", Either))
  \/ ClearUndo("undo clear", Answers("restored", {action.old}), Answers("recovery", Either))

ActionStep ==
  \/ Reassert \/ Settle \/ Change \/ Intent \/ InstallNext \/ CommitNext
  \/ UndoIntent \/ UndoInstall \/ UndoCommit

\* The helper stops, alone or with the machine, whose nft tables go with it.
PauseHelperStops ==
  /\ Fault
  /\ \E reboot \in BOOLEAN : blocked' = IF reboot THEN NonePaused ELSE blocked
  /\ uncertain' = NoPauses /\ action' = IdleAction /\ verdict' = "down"
  /\ promised' = IF action.step \in {"idle", "reassert", "settle", "settled", "change"}
                 THEN promised ELSE promised \cup Either
  /\ UNCHANGED <<clock, lan, pauseFiles>>

\* restore_device_pauses when the socket is bound: a reconciliation whose
\* failure is only logged.
restore_device_pauses ==
  /\ verdict = "down" /\ action.step = "idle"
  /\ verdict' = "recovery" /\ action' = [IdleAction EXCEPT !.step = "reassert"]
  /\ UNCHANGED <<clock, lan, pauseFiles, uncertain, blocked, promised, pauseFaults>>

\* A committed configuration moves the LAN.
LanMoves ==
  /\ action.step = "idle"
  /\ \E new \in SUBSET Devices : new # lan /\ lan' = new
  /\ UNCHANGED <<clock, pauseFiles, uncertain, blocked, action, verdict, promised, pauseFaults>>

\* Time passes, and the kernel drops the elements that time out.
ClockTick ==
  /\ clock < MaxClock /\ clock' = clock + 1
  /\ blocked' = ActiveAt(clock', blocked)
  /\ UNCHANGED <<lan, pauseFiles, uncertain, action, verdict, promised, pauseFaults>>

PauseNext ==
  \/ PauseRequest \/ StatusRequest \/ ActionStep \/ PauseHelperStops
  \/ restore_device_pauses \/ LanMoves \/ ClockTick

\* OpenRC restarts the helper; a request runs to its end.  Nobody has to make one.
PauseFairness ==
  /\ WF_pauseVars(ActionStep) /\ WF_pauseVars(restore_device_pauses)

PauseSpec == PauseInit /\ [][PauseNext]_pauseVars /\ PauseFairness

-----------------------------------------------------------------------------
(* Properties.                                                             *)

SameNow(a, b) == active_pauses(a) = active_pauses(b)

\* The record the helper would load, now or after a stop at this very step, is
\* one of the sets its answers left possible: a success or a "previous state
\* restored" leaves one, and neither a failed write nor an interrupted undo
\* brings back another.
PauseRecordKept ==
  LET found == IF undo # NoPauses THEN undo ELSE applied
      possible == IF action.step \in {"idle", "reassert", "settle", "settled", "change"}
                  THEN promised ELSE promised \cup Either
  IN /\ \E pauses \in possible : SameNow(found, pauses)
     /\ action.step = "idle" => \E pauses \in promised : SameNow(load_pause_record, pauses)

\* After a certain answer the kernel blocks exactly the devices of the answer.
KernelAsAnswered ==
  action.step = "idle" /\ verdict \in {"success", "restored"} =>
    \A pauses \in promised : SameNow(blocked, pauses)

\* While requests come (the Devices page asks for the status as long as it is
\* open), what a failure left uncertain is settled once failures stop, unless a
\* device paused until resumed is no longer in the LAN.
PauseSettles ==
  []<><<StatusRequest \/ PauseRequest>>_pauseVars =>
    []<>(verdict \in {"success", "restored"} \/ ~Renders(load_pause_record))

\* After a certain answer the kernel blocks the devices of the answer, and the record
\* on disk is one the answers left possible, through failed writes and undos.
PauseSound ==
  /\ PauseTypeOK /\ PauseRecordKept /\ KernelAsAnswered
=============================================================================
