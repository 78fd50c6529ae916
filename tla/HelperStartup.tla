---------------------------- MODULE HelperStartup ----------------------------
(***************************************************************************)
(* The start of router-applyd: every initial start and every respawn       *)
(* restores the last-good configuration, or the first-run plane when there *)
(* is none, before the sockets are bound, and fails closed when a security *)
(* or core step fails.  Each privileged command may fail, and the helper   *)
(* or the machine may stop between any two of them.                        *)
(***************************************************************************)
EXTENDS Integers

CONSTANTS
  MaxFailures     \* bound on failures of core commands and on stops

ASSUME StartupAssumption == MaxFailures \in Nat

VARIABLES
  lastGood,       \* "missing", "invalid" (unreadable or unsafe) or "good"
  access,         \* management_access of last-good
  marker,         \* a pending confirmation is recorded
  boot,           \* the step the start-up is at
  forwarding,     \* net.ipv4.ip_forward
  ruleset,        \* whose nftables policy is loaded
  address,        \* whose LAN address is configured
  dnsmasq,        \* whose configuration dnsmasq runs with
  tunnel,         \* whose WireGuard server is up
  uplink,         \* whose PPPoE session and optional services run
  routerd,        \* the daemon serves management requests
  failures,       \* history: core failures and stops so far
  leaky           \* history: the last end of the helper was not a complete fail-closed

plane == <<forwarding, ruleset, address, dnsmasq, tunnel, uplink>>
startupVars ==
  <<lastGood, access, marker, boot, forwarding, ruleset, address, dnsmasq, tunnel, uplink,
    routerd, failures, leaky>>

Owners == {"none", "first-run", "canonical", "candidate"}

CanonicalSteps ==
  {"preflight", "artifacts", "lan", "nft", "forward", "wireguard", "dnsmasq", "services",
   "verify", "clear"}

FirstRunSteps ==
  {"first preflight", "first artifacts", "first stop", "first lan", "first nft",
   "first dnsmasq", "first verify", "first clear"}

\* The variables range over the values the program gives them.
StartupTypeOK ==
  /\ lastGood \in {"missing", "invalid", "good"} /\ access \in {"lan", "wireguard_only"}
  /\ boot \in CanonicalSteps \cup FirstRunSteps \cup {"down", "load", "failing", "serving"}
  /\ ruleset \in Owners \cup {"emergency"}
  /\ {address, dnsmasq, tunnel, uplink} \subseteq Owners
  /\ {marker, forwarding, routerd, leaky} \subseteq BOOLEAN
  /\ failures \in 0 .. MaxFailures

\* Power-on of a new or of a configured machine.
StartupInit ==
  /\ lastGood \in {"missing", "good"} /\ access \in {"lan", "wireguard_only"}
  /\ marker = FALSE /\ boot = "down" /\ forwarding = FALSE /\ ruleset = "none"
  /\ address = "none" /\ dnsmasq = "none" /\ tunnel = "none" /\ uplink = "none"
  /\ routerd = FALSE /\ failures = 0 /\ leaky = FALSE

-----------------------------------------------------------------------------
Failure == failures < MaxFailures /\ failures' = failures + 1

unchangedByBoot == UNCHANGED <<lastGood, access, routerd, leaky>>

\* A core step: it takes effect, or its error ends the start-up with or
\* without the effect.
Core(step, next, effect, none) ==
  /\ boot = step
  /\ \/ effect /\ boot' = next /\ UNCHANGED failures
     \/ (effect \/ none) /\ boot' = "failing" /\ Failure
  /\ unchangedByBoot

\* run_if_requested and the head of reconcile_startup.
LoadLastGood ==
  /\ boot = "load"
  /\ \/ /\ UNCHANGED failures
        /\ boot' = CASE lastGood = "missing" -> "first preflight"
                     [] lastGood = "invalid" -> "failing"
                     [] lastGood = "good" -> "preflight"
     \/ boot' = "failing" /\ Failure             \* hardening, or a marker that cannot be read
  /\ unchangedByBoot /\ UNCHANGED <<marker, plane>>

Same(step, next) == Core(step, next, UNCHANGED <<marker, plane>>, FALSE)

\* Mutant: forwarding is switched on with the LAN, before the policy.
RestoreForwardsEarly ==
  \/ Same("preflight", "artifacts") \/ Same("artifacts", "lan")
  \/ Core("lan", "nft",
          address' = "canonical" /\ forwarding' = TRUE /\ UNCHANGED <<marker, ruleset, dnsmasq, tunnel, uplink>>,
          UNCHANGED <<marker, plane>>)

\* restore_last_good_runtime; forwarding only once the policy is loaded.
restore_last_good_runtime ==
  \/ Same("preflight", "artifacts") \/ Same("artifacts", "lan")
  \/ Core("lan", "nft",
          address' = "canonical" /\ UNCHANGED <<marker, forwarding, ruleset, dnsmasq, tunnel, uplink>>,
          UNCHANGED <<marker, plane>>)
  \/ Core("nft", "forward",
          ruleset' = "canonical" /\ UNCHANGED <<marker, forwarding, address, dnsmasq, tunnel, uplink>>,
          UNCHANGED <<marker, plane>>)
  \/ Core("forward", "wireguard",
          forwarding' = TRUE /\ UNCHANGED <<marker, ruleset, address, dnsmasq, tunnel, uplink>>,
          UNCHANGED <<marker, plane>>)
  \/ Core("dnsmasq", "services",
          dnsmasq' = "canonical" /\ UNCHANGED <<marker, forwarding, ruleset, address, tunnel, uplink>>,
          UNCHANGED <<marker, plane>>)

\* activate_wireguard is core only for a router managed through the tunnel.
activate_wireguard ==
  /\ boot = "wireguard"
  /\ \/ tunnel' = "canonical" /\ boot' = "dnsmasq" /\ UNCHANGED failures
     \/ access = "lan" /\ tunnel' \in {"none", tunnel} /\ boot' = "dnsmasq" /\ UNCHANGED failures
     \/ access = "wireguard_only" /\ tunnel' \in {"none", tunnel} /\ boot' = "failing" /\ Failure
  /\ unchangedByBoot /\ UNCHANGED <<marker, forwarding, ruleset, address, dnsmasq, uplink>>

\* PPPoE, the WireGuard client, QoS, Wi-Fi, DDNS and the proxy: a failure is
\* logged and the start-up goes on.
StartServices ==
  /\ boot = "services" /\ boot' = "verify"
  /\ uplink' \in {"canonical", "none", uplink}
  /\ unchangedByBoot
  /\ UNCHANGED <<marker, forwarding, ruleset, address, dnsmasq, tunnel, failures>>

\* verify_startup_local, then the end of reconcile_startup: the pending
\* confirmation goes only after the runtime is proved.
VerifyAndClear ==
  \/ Same("verify", "clear")
  \/ Core("clear", "serving", marker' = FALSE /\ UNCHANGED plane, UNCHANGED <<marker, plane>>)

\* restore_first_run_runtime: only the local set-up plane.
restore_first_run_runtime ==
  \/ Same("first preflight", "first artifacts")
  \/ Core("first artifacts", "first stop",
          forwarding' = FALSE /\ UNCHANGED <<marker, ruleset, address, dnsmasq, tunnel, uplink>>,
          UNCHANGED <<marker, plane>>)
  \/ /\ boot = "first stop" /\ boot' = "first lan"
     /\ tunnel' \in {"none", tunnel} /\ uplink' \in {"none", uplink}
     /\ unchangedByBoot /\ UNCHANGED <<marker, forwarding, ruleset, address, dnsmasq, failures>>
  \/ Core("first lan", "first nft",
          address' = "first-run" /\ UNCHANGED <<marker, forwarding, ruleset, dnsmasq, tunnel, uplink>>,
          UNCHANGED <<marker, plane>>)
  \/ Core("first nft", "first dnsmasq",
          ruleset' = "first-run" /\ UNCHANGED <<marker, forwarding, address, dnsmasq, tunnel, uplink>>,
          UNCHANGED <<marker, plane>>)
  \/ Core("first dnsmasq", "first verify",
          dnsmasq' = "first-run" /\ UNCHANGED <<marker, forwarding, ruleset, address, tunnel, uplink>>,
          UNCHANGED <<marker, plane>>)
  \/ Same("first verify", "first clear")
  \/ Core("first clear", "serving", marker' = FALSE /\ UNCHANGED plane, UNCHANGED <<marker, plane>>)

\* fail_closed_startup, run by the armed guard for the last-good configuration
\* and by run_if_requested for the default one: every command is tried whatever
\* became of the others, and a tunnel under a name of its own may be missed.
fail_closed_startup ==
  /\ boot = "failing" /\ boot' = "down" /\ leaky' \in BOOLEAN
  /\ IF leaky'
     THEN /\ forwarding' \in {FALSE, forwarding} /\ ruleset' \in {"emergency", ruleset}
          /\ dnsmasq' \in {"none", dnsmasq} /\ uplink' \in {"none", uplink}
          /\ routerd' \in {FALSE, routerd}
     ELSE /\ forwarding' = FALSE /\ ruleset' = "emergency" /\ dnsmasq' = "none"
          /\ uplink' = "none" /\ routerd' = FALSE
  /\ tunnel' \in {"none", tunnel}
  /\ UNCHANGED <<lastGood, access, marker, address, failures>>

\* supervise-daemon starts the helper again.
Respawn ==
  /\ boot = "down" /\ boot' = "load"
  /\ UNCHANGED <<lastGood, access, marker, plane, routerd, failures, leaky>>

HelperDies ==
  /\ boot # "down" /\ boot' = "down" /\ Failure /\ leaky' = TRUE
  /\ UNCHANGED <<lastGood, access, marker, plane, routerd>>

PowerCycle ==
  /\ boot' = "down" /\ Failure
  /\ forwarding' = FALSE /\ ruleset' = "none" /\ address' = "none" /\ dnsmasq' = "none"
  /\ tunnel' = "none" /\ uplink' = "none" /\ routerd' = FALSE /\ leaky' = FALSE
  /\ UNCHANGED <<lastGood, access, marker>>

DaemonStarts ==
  /\ boot = "serving" /\ ~routerd /\ routerd' = TRUE
  /\ UNCHANGED <<lastGood, access, marker, boot, plane, failures, leaky>>

\* A change of the configuration while the helper serves: its candidate runs,
\* recorded as pending or, if the helper stops first, not; or it is committed.
LiveChange ==
  /\ boot = "serving" /\ routerd
  /\ \/ /\ forwarding' = TRUE /\ ruleset' = "candidate" /\ address' = "candidate"
        /\ dnsmasq' = "candidate" /\ tunnel' = "candidate" /\ uplink' = "candidate"
        /\ marker' \in BOOLEAN /\ boot' = (IF marker' THEN boot ELSE "down")
        /\ leaky' = (leaky \/ ~marker') /\ UNCHANGED <<lastGood, access>>
     \/ /\ marker /\ ruleset = "candidate"
        /\ lastGood' = "good" /\ access' \in {"lan", "wireguard_only"} /\ marker' = FALSE
        /\ forwarding' = TRUE /\ ruleset' = "canonical" /\ address' = "canonical"
        /\ dnsmasq' = "canonical" /\ tunnel' = "canonical" /\ uplink' = "canonical"
        /\ UNCHANGED <<boot, leaky>>
  /\ UNCHANGED <<routerd, failures>>

\* The file of last-good is damaged on disk while the machine is off.
LastGoodDamaged ==
  /\ boot = "down" /\ ruleset = "none" /\ lastGood = "good" /\ lastGood' = "invalid" /\ Failure
  /\ UNCHANGED <<access, marker, boot, plane, routerd, leaky>>

BootStep ==
  \/ Respawn \/ LoadLastGood \/ restore_last_good_runtime \/ activate_wireguard
  \/ StartServices \/ VerifyAndClear \/ restore_first_run_runtime \/ fail_closed_startup

StartupNext ==
  \/ BootStep \/ HelperDies \/ PowerCycle \/ DaemonStarts \/ LiveChange \/ LastGoodDamaged

\* supervise-daemon respawns the helper, and a start-up runs to its end.
StartupSpec == StartupInit /\ [][StartupNext]_startupVars /\ WF_startupVars(BootStep)

-----------------------------------------------------------------------------
(* Properties.                                                             *)

\* Packets are forwarded only under a configured policy or the emergency one:
\* never before a policy is loaded and never under the first-run rules, whatever
\* failed or stopped in between.
ForwardingGuarded == forwarding => ruleset \notin {"none", "first-run"}

\* Sockets are bound only on a proved core: the helper serves with the policy,
\* address and resolver of last-good and forwarding on, or with those of the
\* first run and forwarding off, and whatever candidate ran before the restart is
\* gone from them together with its pending marker.
ServesRestored ==
  boot = "serving" /\ ~marker =>
    \/ /\ lastGood = "good" /\ forwarding /\ {ruleset, address, dnsmasq} = {"canonical"}
       /\ access = "wireguard_only" => tunnel = "canonical"
    \/ lastGood = "missing" /\ ~forwarding /\ {ruleset, address, dnsmasq} = {"first-run"}

\* A start that failed leaves nothing open behind it: when the commands of
\* fail_closed_startup worked, forwarding is off under the emergency firewall and
\* the daemon, resolver and uplink are stopped, at whichever step it failed.
FailsClosed ==
  boot = "down" /\ ~leaky /\ ruleset # "none" =>
    ruleset = "emergency" /\ ~forwarding /\ ~routerd /\ {dnsmasq, uplink} = {"none"}

\* Optional services never keep the router down: once core commands stop
\* failing, every start ends with the helper serving, unless last-good is
\* damaged.
Boots == []<>(boot = "serving" \/ lastGood = "invalid")

\* The start-up forwards packets only under a loaded policy, serves only on a proved
\* core, and leaves nothing open when it gives up, whatever step of it fails.
StartupSound ==
  /\ StartupTypeOK /\ ForwardingGuarded /\ ServesRestored /\ FailsClosed
=============================================================================
