----------------------------- MODULE MCDaemons ------------------------------
(***************************************************************************)
(* The processes and what they keep on disk, checked in one run: sign-in   *)
(* limits, the certificate, the helper's start-up, risk lists, traffic     *)
(* accounting, routerd's shutdown, offline recovery, HTTP connections, web *)
(* updates and device pauses. They share no state, so a behaviour picks    *)
(* one of them and only that one moves.                                    *)
(***************************************************************************)
EXTENDS LoginLimiter, ManagementEndpoint, HelperStartup, RiskFeeds, TrafficAccounting,
        DaemonShutdown, OfflineRecovery, HttpConnection, WebUpdate, DevicePauses

MCEndpoint == [lan |-> "l1", wg |-> "w1", enabled |-> FALSE, only |-> FALSE, name |-> "n1"]

(* Risk lists, two of which are under half of an earlier one. *)
MCEntries == <<300, 140, 250, 120>>

VARIABLE focus

suiteVars == <<focus, limiterVars, endpointVars, startupVars, feedVars, trafficVars,
               shutdownVars, recoveryVars, httpVars, updateVars, pauseVars>>

(* A start-up that is not looked at has given up. *)
StartupRests ==
    /\ lastGood = "invalid" /\ access = "lan" /\ boot = "down"
    /\ marker = FALSE /\ forwarding = FALSE /\ ruleset = "none"
    /\ address = "none" /\ dnsmasq = "none" /\ tunnel = "none" /\ uplink = "none"
    /\ routerd = FALSE /\ failures = 0 /\ leaky = FALSE

SuiteInit ==
    /\ focus \in {"limiter", "endpoint", "startup", "feeds", "traffic", "shutdown", "recovery",
                  "http", "update", "pauses"}
    /\ LimiterInit /\ EndpointInit /\ FeedInit /\ TrafficInit /\ ShutdownInit /\ RecoveryInit
    /\ HttpInit /\ UpdateInit /\ PauseInit
    /\ IF focus = "startup" THEN StartupInit ELSE StartupRests
    /\ focus # "update" => slot.current = 1

SuiteNext ==
    /\ IF focus = "limiter" THEN LimiterNext ELSE UNCHANGED limiterVars
    /\ IF focus = "endpoint" THEN EndpointNext ELSE UNCHANGED endpointVars
    /\ IF focus = "startup" THEN StartupNext ELSE UNCHANGED startupVars
    /\ IF focus = "feeds" THEN FeedNext ELSE UNCHANGED feedVars
    /\ IF focus = "traffic" THEN TrafficNext ELSE UNCHANGED trafficVars
    /\ IF focus = "shutdown" THEN ShutdownNext ELSE UNCHANGED shutdownVars
    /\ IF focus = "recovery" THEN RecoveryNext ELSE UNCHANGED recoveryVars
    /\ IF focus = "http" THEN HttpNext ELSE UNCHANGED httpVars
    /\ IF focus = "update" THEN UpdateNext ELSE UNCHANGED updateVars
    /\ IF focus = "pauses" THEN PauseNext ELSE UNCHANGED pauseVars
    /\ UNCHANGED focus

SuiteSpec == SuiteInit /\ [][SuiteNext]_suiteVars

\* What no step of these parts may do: open a new sign-in window before the old one
\* has run, build a migration on anything but the newest configuration, invite a
\* body that was refused already, or stage another release than the confirmed one.
DaemonSteps ==
    WindowRuns /\ BuiltOnNewest /\ NoVainInvitation /\ StagesWhatWasConfirmed
=============================================================================
