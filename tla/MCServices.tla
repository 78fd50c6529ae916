----------------------------- MODULE MCServices -----------------------------
(***************************************************************************)
(* What routerd does for the administrator, checked in one run: the DNS    *)
(* filter, restore operations, DNS activity and the gateway monitor. They  *)
(* share no state, so a behaviour picks one of them and only that one      *)
(* moves.                                                                  *)
(***************************************************************************)
EXTENDS DnsFilter, RestoreOperation, DnsActivity, GatewayMonitor

VARIABLE focus

suiteVars == <<focus, filterVars, restoreVars, activityVars, gatewayVars>>

SuiteInit ==
    /\ focus \in {"filter", "restore", "activity", "gateway"}
    /\ FilterInit /\ RestoreInit /\ ActivityInit /\ GatewayInit

SuiteNext ==
    /\ IF focus = "filter" THEN FilterNext ELSE UNCHANGED filterVars
    /\ IF focus = "restore" THEN RestoreNext ELSE UNCHANGED restoreVars
    /\ IF focus = "activity" THEN ActivityNext ELSE UNCHANGED activityVars
    /\ IF focus = "gateway" THEN GatewayNext ELSE UNCHANGED gatewayVars
    /\ UNCHANGED focus

SuiteSpec == SuiteInit /\ [][SuiteNext]_suiteVars

\* What no step of these parts may do: activate a DNS policy over a revision it was
\* not based on, replace the recorded outcome of a restore, decide twice within an
\* outage window to restart the uplink, or count a reconnect that was none.
ServiceSteps ==
    RevisionsInOrder /\ OutcomesRetained /\ RestartsPaced /\ ReconnectIsReal
=============================================================================
