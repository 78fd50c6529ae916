----------------------------- MODULE MCProgress -----------------------------
(***************************************************************************)
(* What must eventually happen, for every component with such a promise,   *)
(* on instances small enough for TLC's liveness check. A behaviour picks   *)
(* one component and only that one moves, under the fairness of its own    *)
(* specification.                                                          *)
(***************************************************************************)
EXTENDS HttpConnection, DaemonShutdown, DnsActivity, RiskFeeds, HelperStartup, DevicePauses,
        GatewayMonitor, TrafficAccounting, WebUpdate, OfflineRecovery

VARIABLE focus

(* Risk lists of which the third has under half of the second's entries. *)
MCEntries == <<200, 300, 120>>

suiteVars == <<focus, httpVars, shutdownVars, activityVars, feedVars, startupVars, pauseVars,
               gatewayVars, trafficVars, updateVars, recoveryVars>>

(* What is not looked at has come to rest. *)
HttpRests ==
    /\ wire = <<>> /\ client = [sent |-> 0, todo |-> <<>>, waits |-> FALSE, gone |-> TRUE]
    /\ server = [at |-> "closed", keep |-> FALSE, body |-> NoBody]
    /\ replies = <<>> /\ invited = {} /\ whole = {}

StartupRests ==
    /\ lastGood = "invalid" /\ access = "lan" /\ boot = "down"
    /\ marker = FALSE /\ forwarding = FALSE /\ ruleset = "none"
    /\ address = "none" /\ dnsmasq = "none" /\ tunnel = "none" /\ uplink = "none"
    /\ routerd = FALSE /\ failures = 0 /\ leaky = FALSE

SuiteInit ==
    /\ focus \in {"http", "shutdown", "activity", "feeds", "startup", "pauses", "gateway",
                  "traffic", "update", "recovery"}
    /\ ShutdownInit /\ ActivityInit /\ FeedInit /\ PauseInit /\ GatewayInit /\ TrafficInit
    /\ UpdateInit /\ RecoveryInit
    /\ IF focus = "http" THEN HttpInit ELSE HttpRests
    /\ IF focus = "startup" THEN StartupInit ELSE StartupRests
    /\ focus # "update" => slot.current = 1

SuiteNext ==
    /\ IF focus = "http" THEN HttpNext ELSE UNCHANGED httpVars
    /\ IF focus = "shutdown" THEN ShutdownNext ELSE UNCHANGED shutdownVars
    /\ IF focus = "activity" THEN ActivityNext ELSE UNCHANGED activityVars
    /\ IF focus = "feeds" THEN FeedNext ELSE UNCHANGED feedVars
    /\ IF focus = "startup" THEN StartupNext ELSE UNCHANGED startupVars
    /\ IF focus = "pauses" THEN PauseNext ELSE UNCHANGED pauseVars
    /\ IF focus = "gateway" THEN GatewayNext ELSE UNCHANGED gatewayVars
    /\ IF focus = "traffic" THEN TrafficNext ELSE UNCHANGED trafficVars
    /\ IF focus = "update" THEN UpdateNext ELSE UNCHANGED updateVars
    /\ IF focus = "recovery" THEN RecoveryNext ELSE UNCHANGED recoveryVars
    /\ UNCHANGED focus

(* The fairness of each component, in the behaviours that are about it. *)
SuiteFairness ==
    /\ WF_httpVars(focus = "http" /\ ServerStep)
    /\ WF_shutdownVars(focus = "shutdown" /\ SignalStep)
    /\ WF_shutdownVars(focus = "shutdown" /\ SleeperStep)
    /\ WF_shutdownVars(focus = "shutdown" /\ WaiterStep)
    /\ WF_shutdownVars(focus = "shutdown" /\ NotifyWaiter)
    /\ WF_shutdownVars(focus = "shutdown" /\ MainStep)
    /\ SF_activityVars(focus = "activity" /\ CollectorStep)
    /\ WF_activityVars(focus = "activity" /\ RiskStep)
    /\ WF_activityVars(focus = "activity" /\ (ClearRisk \/ clear_dns))
    /\ WF_feedVars(focus = "feeds" /\ RefreshStep)
    /\ WF_startupVars(focus = "startup" /\ BootStep)
    /\ WF_pauseVars(focus = "pauses" /\ ActionStep)
    /\ WF_pauseVars(focus = "pauses" /\ restore_device_pauses)
    /\ WF_gatewayVars(focus = "gateway" /\ Collector)
    /\ WF_gatewayVars(focus = "gateway" /\ Poll)
    /\ WF_gatewayVars(focus = "gateway" /\ Attempt)
    /\ WF_gatewayVars(focus = "gateway" /\ (\E ok \in BOOLEAN : RestartEnds(ok)))
    /\ WF_gatewayVars(focus = "gateway" /\ Tick)
    /\ WF_trafficVars(focus = "traffic" /\ SamplerStep)
    /\ WF_updateVars(focus = "update" /\ InstallerStep)
    /\ WF_updateVars(focus = "update" /\ UpdaterStep)
    /\ WF_recoveryVars(focus = "recovery" /\ MigrationStep)
    /\ WF_recoveryVars(focus = "recovery" /\ Rerun)
    /\ WF_recoveryVars(focus = "recovery" /\ fence # NoAttempt /\ StopDaemon("routerd"))
    /\ WF_recoveryVars(focus = "recovery" /\ fence # NoAttempt /\ StopDaemon("router-applyd"))

SuiteSpec == SuiteInit /\ [][SuiteNext]_suiteVars /\ SuiteFairness

\* No wake-up is lost in routerd's shutdown protocol: a signal stops the process
\* whatever its threads wait for, and a notification is consumed.
NoWakeupLost == StopsOnSignal /\ NotificationConsumed

\* What was begun ends: a connection, a web update, an offline migration that is run
\* again, and the deletion of what was recorded before recording was switched off.
WorkEnds ==
    /\ ConnectionEnds /\ UpdateEnds /\ RerunFinishes
    /\ DisabledForgets /\ DisableDeletes

\* After a failure the appliance recovers as soon as its surroundings allow it: a
\* risk list arrives if upstream keeps answering, the helper boots, uncertain pauses
\* settle while requests come, and an outage of the uplink is answered.
Recovers == ListArrives /\ Boots /\ PauseSettles /\ OutageAnswered
=============================================================================
