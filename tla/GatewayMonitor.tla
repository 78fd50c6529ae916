---------------------------- MODULE GatewayMonitor ----------------------------
(***************************************************************************)
(* WAN quality monitoring and the PPPoE auto-recovery observer: the        *)
(* collector thread, the manual check and the settings handler share one   *)
(* live summary and one sample store; the observer polls the summary and   *)
(* restarts PPPoE through the transaction engine.                          *)
(*                                                                         *)
(* Time is counted in polls of the observer (30 s) and kept as capped      *)
(* ages, so that behaviours need no last instant.  A step of the wall      *)
(* clock moves the ages of what is stamped with wall time and no others.   *)
(***************************************************************************)
EXTENDS Integers

CONSTANTS
  OUTAGE_WINDOW,      \* AUTO_RECOVERY_OUTAGE_WINDOW, in polls
  COOLDOWN,           \* AUTO_RECOVERY_COOLDOWN
  SAMPLE_MAX_AGE,     \* AUTO_RECOVERY_SAMPLE_MAX_AGE
  RECENT,             \* the recent_limit of the first collection
  MaxGatewayUpsets           \* bound on faults, operator acts and configuration changes

ASSUME GatewayAssumption ==
  /\ {OUTAGE_WINDOW, COOLDOWN, SAMPLE_MAX_AGE, RECENT} \subseteq Nat \ {0}
  /\ OUTAGE_WINDOW <= COOLDOWN /\ MaxGatewayUpsets \in Nat

VARIABLES
  link,               \* the PPPoE link is up
  wan,                \* cfg.wan.enabled
  engineState,             \* "idle", or "busy": applying, confirming or recovering
  daemon,             \* routerd runs
  enabled,            \* settings.enabled
  writable,           \* nonessential_writes_allowed
  stored,             \* the newest sample: its link and its wall age, or None
  live,               \* Live
  collecting,         \* the collection that holds the collect lock
  observer,           \* run_gateway_auto_recovery
  pollDue,                \* what this poll interval still has: "collect", "poll"
  risen,              \* history: the link rose since the last stored reconnect
  gatewayUpsets,             \* history: upsets so far
  sinceAttempt        \* history: age of the last decision to restart

gatewayVars ==
  <<link, wan, engineState, daemon, enabled, writable, stored, live, collecting,
    observer, pollDue, risen, gatewayUpsets, sinceAttempt>>

None == -2            \* no sample, no instant
Older(age, cap) == IF age = None THEN None ELSE IF age < cap THEN age + 1 ELSE cap

StampCap == SAMPLE_MAX_AGE + 1
RecentCap == RECENT + 1
Far == StampCap + RecentCap
Capped(age, cap) == IF age > cap THEN cap ELSE age

Unknown == [available |-> FALSE, enabled |-> FALSE, known |-> FALSE, age |-> StampCap, up |-> FALSE]
Disabled == [Unknown EXCEPT !.available = TRUE, !.age = 0]

FreshLive == [latest |-> Unknown, initialized |-> FALSE, lastUp |-> FALSE]
Idle == [by |-> "none", up |-> FALSE, counted |-> FALSE, age |-> 0]
FreshObserver == [step |-> "watch", down |-> None, last |-> None]

\* The variables range over the values the program gives them.
GatewayTypeOK ==
  /\ {link, wan, daemon, enabled, writable, risen} \subseteq BOOLEAN
  /\ engineState \in {"idle", "busy"} /\ gatewayUpsets \in 0 .. MaxGatewayUpsets
  /\ stored.age \in {None} \cup -1 .. RecentCap
  /\ live.latest.age \in -1 .. StampCap
  /\ collecting.by \in {"none", "run", "manual"}
  /\ observer.step \in {"watch", "attempt", "restarting"}
  /\ observer.down \in {None} \cup 0 .. OUTAGE_WINDOW /\ observer.last \in {None} \cup 0 .. COOLDOWN
  /\ pollDue \subseteq {"collect", "poll"} /\ sinceAttempt \in 0 .. COOLDOWN

GatewayInit ==
  /\ link = FALSE /\ wan = TRUE /\ engineState = "idle" /\ daemon = TRUE /\ enabled = TRUE
  /\ writable = TRUE /\ stored = [up |-> FALSE, age |-> None]
  /\ live = FreshLive /\ collecting = Idle /\ observer = FreshObserver
  /\ pollDue = {"collect", "poll"} /\ risen = FALSE /\ gatewayUpsets = 0 /\ sinceAttempt = COOLDOWN

GatewayUpset == gatewayUpsets < MaxGatewayUpsets /\ gatewayUpsets' = gatewayUpsets + 1

-----------------------------------------------------------------------------
(* The monitor.                                                            *)

\* A first collection counts a reconnect only after a recent sample that was
\* down; a later one on every rise it sees.
Reconnected ==
  /\ link /\ writable
  /\ IF live.initialized THEN ~live.lastUp
     ELSE stored.age # None /\ ~stored.up /\ stored.age <= RECENT

\* The first half of collect, up to the probes: it holds the collect lock.
BeginCollect(by) ==
  /\ daemon /\ collecting = Idle /\ gatewayUpsets' = gatewayUpsets + (IF by = "manual" THEN 1 ELSE 0)
  /\ IF enabled
     THEN /\ collecting' = [by |-> by, up |-> link, counted |-> Reconnected, age |-> 0]
          /\ risen' = (risen /\ ~Reconnected)
          /\ live' = [live EXCEPT !.initialized = TRUE, !.lastUp = link]
          /\ UNCHANGED pollDue
     ELSE /\ live' = [FreshLive EXCEPT !.latest = Disabled]
          /\ pollDue' = pollDue \ {"collect"}
          /\ UNCHANGED <<collecting, risen>>
  /\ UNCHANGED <<link, wan, engineState, daemon, enabled, writable, stored, observer, sinceAttempt>>

\* collect fails on the store: run and probe_now mark the summary unavailable.
\* A reconnect already counted stays, without its sample.
CollectFails ==
  /\ daemon /\ GatewayUpset /\ (collecting # Idle \/ "collect" \in pollDue)
  /\ live' = [live EXCEPT !.latest.available = FALSE]
  /\ collecting' = Idle
  /\ pollDue' = IF collecting.by = "manual" THEN pollDue ELSE pollDue \ {"collect"}
  /\ risen' = (risen \/ collecting.counted)
  /\ UNCHANGED <<link, wan, engineState, daemon, enabled, writable, stored, observer, sinceAttempt>>

\* The second half: the probes answered; the sample is saved unless the disk is
\* full, and the summary is published.
FinishCollect ==
  /\ daemon /\ collecting # Idle
  /\ collecting' = Idle
  /\ pollDue' = IF collecting.by = "run" THEN pollDue \ {"collect"}
            ELSE IF collecting.up THEN pollDue ELSE pollDue \cup {"collect"}
  /\ live' = [live EXCEPT !.latest =
       [available |-> TRUE, enabled |-> TRUE, known |-> TRUE, up |-> collecting.up,
        age |-> Capped(collecting.age, StampCap)]]
  /\ stored' = IF writable THEN [up |-> collecting.up, age |-> Capped(collecting.age, RecentCap)] ELSE stored
  /\ risen' = (risen \/ (collecting.counted /\ ~writable))
  /\ UNCHANGED <<link, wan, engineState, daemon, enabled, writable, observer, gatewayUpsets, sinceAttempt>>

\* update_settings, under the collect lock; it wakes the collector.
update_settings(on) ==
  /\ daemon /\ collecting = Idle /\ writable
  /\ enabled' = on
  /\ live' = IF on THEN live ELSE [FreshLive EXCEPT !.latest = Disabled]
  /\ GatewayUpset /\ pollDue' = pollDue \cup {"collect"}
  /\ UNCHANGED <<link, wan, engineState, daemon, writable, stored, collecting, observer,
                 risen, sinceAttempt>>

\* probe_now, at most every ten seconds: it wakes the collector when it finds
\* the link down.
probe_now == enabled /\ gatewayUpsets < MaxGatewayUpsets /\ BeginCollect("manual")

-----------------------------------------------------------------------------
(* The observer.                                                           *)

\* Only a fresh, measured, disconnected link is evidence.
usable_outage_evidence(summary) ==
  /\ summary.enabled /\ summary.available /\ summary.known
  /\ summary.age \in 0 .. SAMPLE_MAX_AGE /\ ~summary.up

\* Mutants: the window is not awaited; a second attempt is never due.
DueAtOnce(summary, down, last) ==
  /\ wan /\ usable_outage_evidence(summary) /\ engineState = "idle" /\ down # None
  /\ last = None \/ last >= COOLDOWN

DueOnce(summary, down, last) ==
  /\ wan /\ usable_outage_evidence(summary) /\ engineState = "idle"
  /\ down # None /\ down >= OUTAGE_WINDOW /\ last = None

auto_recovery_due(summary, down, last) ==
  /\ wan /\ usable_outage_evidence(summary) /\ engineState = "idle"
  /\ down # None /\ down >= OUTAGE_WINDOW
  /\ last = None \/ last >= COOLDOWN

\* recovery_status, what the status page answers.
recovery_status(summary, last) ==
  IF ~wan \/ ~summary.enabled THEN "paused"
  ELSE IF \/ ~summary.available \/ summary.age \notin 0 .. SAMPLE_MAX_AGE \/ ~summary.known
       THEN "waiting"
  ELSE IF engineState # "idle" THEN "blocked"
  ELSE IF summary.up THEN "armed"
  ELSE IF last # None /\ last < COOLDOWN THEN "cooldown" ELSE "verifying"

\* Mutant: what the poll saw is trusted.
ActionUnchecked == TRUE

\* run_service_action checks again under the operation lock.
action_allowed == engineState = "idle"

\* One poll.  Evidence that cannot be used restarts the outage clock; an attempt
\* is stamped when it is decided.
Poll ==
  /\ daemon /\ observer.step = "watch" /\ "poll" \in pollDue
  /\ pollDue' = pollDue \ {"poll"}
  /\ IF ~wan \/ ~usable_outage_evidence(live.latest)
     THEN observer' = [observer EXCEPT !.down = None] /\ UNCHANGED sinceAttempt
     ELSE IF observer.down = None
     THEN observer' = [observer EXCEPT !.down = 0] /\ UNCHANGED sinceAttempt
     ELSE IF ~auto_recovery_due(live.latest, observer.down, observer.last)
     THEN UNCHANGED <<observer, sinceAttempt>>
     ELSE observer' = [observer EXCEPT !.step = "attempt", !.last = 0] /\ sinceAttempt' = 0
  /\ UNCHANGED <<link, wan, engineState, daemon, enabled, writable, stored, live, collecting, risen, gatewayUpsets>>

\* run_service_action has waited for the operation lock, however long, and the
\* engine refuses the restart or runs it, holding the lock; a deadline that
\* passed meanwhile stops neither.
Attempt ==
  /\ daemon /\ observer.step = "attempt"
  /\ observer' = [observer EXCEPT !.step = IF action_allowed THEN "restarting" ELSE "watch"]
  /\ UNCHANGED <<link, wan, engineState, daemon, enabled, writable, stored, live, collecting, pollDue, risen,
                 gatewayUpsets, sinceAttempt>>

\* recover_wan answers: verified, or failed with the outage clock still running.
RestartEnds(ok) ==
  /\ daemon /\ observer.step = "restarting"
  /\ observer' = [observer EXCEPT !.step = "watch", !.down = IF ok THEN None ELSE @]
  /\ link' = (ok \/ link) /\ risen' = (risen \/ (ok /\ ~link))
  /\ UNCHANGED <<wan, engineState, daemon, enabled, writable, stored, live, collecting, pollDue, gatewayUpsets, sinceAttempt>>

-----------------------------------------------------------------------------
(* The environment.                                                        *)

LinkChanges ==
  /\ link' = ~link /\ risen' = (risen \/ ~link)
  /\ UNCHANGED <<wan, engineState, daemon, enabled, writable, stored, live, collecting,
                 observer, pollDue, gatewayUpsets, sinceAttempt>>

\* A configuration change is applied and settled; the operation lock keeps it
\* out while a restart runs.
EngineMoves ==
  /\ observer.step # "restarting"
  /\ \/ engineState = "idle" /\ engineState' = "busy" /\ GatewayUpset /\ UNCHANGED wan
     \/ engineState = "busy" /\ engineState' = "idle" /\ wan' \in BOOLEAN /\ UNCHANGED gatewayUpsets
  /\ UNCHANGED <<link, daemon, enabled, writable, stored, live, collecting, observer,
                 pollDue, risen, sinceAttempt>>

DiskPressure ==
  /\ writable' = ~writable /\ (IF writable THEN GatewayUpset ELSE UNCHANGED gatewayUpsets)
  /\ UNCHANGED <<link, wan, engineState, daemon, enabled, stored, live, collecting,
                 observer, pollDue, risen, sinceAttempt>>

\* routerd stops, and starts again: only the store survives.
DaemonRestarts ==
  /\ daemon' = ~daemon /\ (IF daemon THEN GatewayUpset ELSE UNCHANGED gatewayUpsets)
  /\ live' = FreshLive /\ collecting' = Idle /\ observer' = FreshObserver
  /\ pollDue' = IF daemon' THEN {"collect", "poll"} ELSE {}
  /\ risen' = (risen \/ collecting.counted)
  /\ UNCHANGED <<link, wan, engineState, enabled, writable, stored, sinceAttempt>>

\* A poll interval passes, also while the observer waits for the operation lock or
\* for the restart.  The collector owes a sample in each while the last
\* one found the link down or failed (collection_interval); otherwise a longer
\* configured interval, here of up to StampCap polls, may go on.
Tick ==
  /\ pollDue = {} /\ collecting = Idle
  /\ pollDue' \in IF ~daemon THEN {{}}
              ELSE LET poll == IF observer.step = "watch" THEN {"poll"} ELSE {}
                   IN  IF live.latest.up /\ live.latest.available /\ live.latest.age < StampCap THEN {poll, poll \cup {"collect"}}
                       ELSE {poll \cup {"collect"}}
  /\ live' = [live EXCEPT !.latest.age = Older(@, StampCap)]
  /\ stored' = [stored EXCEPT !.age = Older(@, RecentCap)]
  /\ observer' = [observer EXCEPT !.down = Older(@, OUTAGE_WINDOW), !.last = Older(@, COOLDOWN)]
  /\ sinceAttempt' = Older(sinceAttempt, COOLDOWN)
  /\ UNCHANGED <<link, wan, engineState, daemon, enabled, writable, collecting, risen, gatewayUpsets>>

\* The wall clock is stepped: what carries wall time looks older, or comes from
\* the future.
ClockStep(ahead) ==
  /\ GatewayUpset
  /\ live' = [live EXCEPT !.latest.age = IF ahead THEN StampCap ELSE -1]
  /\ stored' = [stored EXCEPT !.age = IF @ = None THEN None ELSE IF ahead THEN RecentCap ELSE -1]
  /\ collecting' = IF collecting = Idle THEN Idle ELSE [collecting EXCEPT !.age = IF ahead THEN Far ELSE -1]
  /\ UNCHANGED <<link, wan, engineState, daemon, enabled, writable, observer, pollDue, risen, sinceAttempt>>

Collector ==
  \/ "collect" \in pollDue /\ BeginCollect("run")
  \/ FinishCollect

GatewayNext ==
  \/ Collector \/ CollectFails \/ probe_now \/ \E on \in BOOLEAN : update_settings(on)
  \/ Poll \/ Attempt \/ \E ok \in BOOLEAN : RestartEnds(ok)
  \/ LinkChanges \/ EngineMoves \/ DiskPressure \/ DaemonRestarts \/ Tick
  \/ \E ahead \in BOOLEAN : ClockStep(ahead)

\* The collector and the observer are threads that wait on a clock.
GatewayFairness ==
  /\ WF_gatewayVars(Collector) /\ WF_gatewayVars(Poll) /\ WF_gatewayVars(Attempt)
  /\ WF_gatewayVars(\E ok \in BOOLEAN : RestartEnds(ok)) /\ WF_gatewayVars(Tick)

GatewaySpec == GatewayInit /\ [][GatewayNext]_gatewayVars /\ GatewayFairness

-----------------------------------------------------------------------------
(* Properties.                                                             *)

\* PPPoE is never restarted by the observer while a configuration change is being
\* applied or confirmed, though the observer looked at the engine long before.
RestartWaitsForChange == observer.step = "restarting" => engineState = "idle"

\* Two decisions to restart PPPoE are at least an outage window apart whatever
\* happens between them: a stepped clock, a restart of routerd, a failed attempt,
\* a long wait for the operation lock; and each leads to one restart at most, the
\* one it decided.  (The restarts themselves may be closer: the cooldown counts
\* from the decision, and a change that is applied and rolled back delays the
\* restart by minutes.)
RestartsPaced ==
  [][/\ observer'.step = "attempt" /\ observer.step # "attempt" => sinceAttempt >= OUTAGE_WINDOW
     /\ observer'.step = "restarting" => observer.step \in {"attempt", "restarting"}]_gatewayVars

\* A reconnect is counted once for a rise of the link, over restarts of routerd
\* and switching the monitoring off and on: routerd alone never makes a link flap.
\* (A rise may be counted again when the collection that counted it stored no
\* sample.)
ReconnectIsReal ==
  [][collecting'.counted /\ ~collecting.counted => risen]_gatewayVars

\* The status page and the observer decide alike: what is due is reported as
\* being verified, and a paused, waiting or blocked recovery is not due.
StatusAgrees ==
  auto_recovery_due(live.latest, observer.down, observer.last)
    => recovery_status(live.latest, observer.last) = "verifying"

\* A measurable outage that lasts is answered: once the link stays down, with
\* monitoring and WAN on, the engine idle, the store working and the clock
\* steady, the observer keeps restarting PPPoE.
OutageAnswered ==
  <>[](~link /\ wan /\ enabled /\ daemon /\ engineState = "idle"
         /\ live.latest.available)
    => []<>(observer.step = "restarting")

\* The observer restarts the uplink only while the engine is idle, and the status
\* page never contradicts what the observer decides from the same samples.
GatewaySound ==
  /\ GatewayTypeOK /\ RestartWaitsForChange /\ StatusAgrees
=============================================================================
