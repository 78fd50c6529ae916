---------------------------- MODULE ApplyProtocol ----------------------------
(***************************************************************************)
(* What routerd and router-applyd share: configurations, requests, the     *)
(* outcomes of apply/ipc.rs and the Unix socket between the two.           *)
(*                                                                         *)
(* A configuration is a revision and one value per section.  Sections      *)
(* differ in how the helper treats them, which the constants say.          *)
(***************************************************************************)
EXTENDS Integers, Sequences

CONSTANTS
  Sections,     \* configuration sections with a runtime of their own
  Lan,          \* the section that carries the management address
  Always,       \* sections every apply activates; the others only when changed
  Disruptive,   \* sections whose change requires_confirmation
  Optional,     \* sections whose failed restoration is only logged
  FileDriven,   \* sections whose service reads its installed file on restart
  Values,       \* values of a section
  DefaultBody,  \* the sections of default_config
  MaxRevision,  \* bound on the revisions explored
  MaxQueue,     \* bound on the connections waiting for the helper's lock
  MaxFaults,    \* bound on the errors, stops and expired deadlines explored
  Ids           \* transaction IDs; 0 stands for none

Body == [Sections -> Values]

ASSUME ProtocolAssumption ==
  /\ Lan \in Always /\ Always \subseteq Sections /\ Lan \notin Optional
  /\ Disruptive \subseteq Sections /\ Optional \subseteq Sections
  /\ FileDriven \subseteq Sections \ {Lan}
  /\ DefaultBody \in Body
  /\ MaxRevision \in Nat \ {0} /\ MaxQueue \in Nat \ {0} /\ MaxFaults \in Nat
  /\ 0 \notin Ids

\* "stamped" tells the copy commit_initial_setup re-dates from the one applied.
Config == [revision : 1..MaxRevision, body : Body, stamped : BOOLEAN]
NoConfig == [revision |-> 0, body |-> DefaultBody, stamped |-> FALSE]
OptConfig == Config \cup {NoConfig}

SameConfig(a, b) == a.revision = b.revision /\ a.body = b.body

requires_confirmation(current, candidate) ==
  \E s \in Disruptive : current.body[s] # candidate.body[s]

\* CONFIRM is served by the helper but never sent by the engine.
Ops == {"APPLY_ALL", "CONFIRM", "COMMIT_CONFIRMED", "RECONCILE"}

ApplyRequest == [id : Ids, op : Ops, config : Config,
                 require_confirmation : BOOLEAN, defer_last_good : BOOLEAN]

\* The four responses ApplyResponse::validate admits: success and verified,
\* plain failure, failure rolled back, failure that requires recovery.
Outcomes == {"success", "failed", "rolled_back", "recovery_required"}

NoRequest == [id |-> 0, op |-> "RECONCILE", config |-> NoConfig,
              require_confirmation |-> FALSE, defer_last_good |-> FALSE]

build_apply_request(id, config) ==
  [NoRequest EXCEPT !.id = id, !.op = "APPLY_ALL", !.config = config]

VARIABLES
  inbox,    \* requests read by the helper that wait for the apply lock
  serving,  \* does a client still wait for the request being executed?
  answer,   \* what the engine's current connection delivered
  faults    \* errors, stops and expired deadlines so far

channelVars == <<inbox, serving, answer>>

\* live: the client has not given up on this connection.
Message == [req : ApplyRequest, live : BOOLEAN]
Answers == Outcomes \cup {"none", "lost", "error"}

ChannelTypeOK ==
  /\ inbox \in Seq(Message) /\ Len(inbox) <= MaxQueue
  /\ serving \in BOOLEAN
  /\ answer \in Answers
  /\ faults \in 0..MaxFaults

ChannelInit == inbox = <<>> /\ serving = FALSE /\ answer = "none" /\ faults = 0

\* A step is either as intended or one of the failures the bound admits.
Fault == faults < MaxFaults /\ faults' = faults + 1
NoFault == UNCHANGED faults

\* Deliver an outcome to the client if it is still there.
respond(live, outcome) == answer' = IF live THEN outcome ELSE answer
=============================================================================
