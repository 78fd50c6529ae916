------------------------------ MODULE Firewall ------------------------------
(***************************************************************************)
(* The generated nftables policy at work: a configuration, the rules        *)
(* generate_nftables renders for it, connection tracking, the tunnel's      *)
(* destination NAT, the per-service destination sets of device schedules    *)
(* that survive a table replacement, and the explanation the appliance      *)
(* gives of its own policy (explain_firewall_flow).                         *)
(*                                                                         *)
(* Hosts stand for addresses: d and e on the LAN (d is the managed device), *)
(* w a WireGuard peer, t the remote site of the outbound tunnel, s the      *)
(* service of an isolated segment, i a public address, p a private address  *)
(* beyond the WAN, r the router.  The WAN interface and ppp* get the same   *)
(* rules and are one interface here; ports are services.                    *)
(***************************************************************************)
EXTENDS Integers, Sequences, FiniteSets, FiniteSetsExt

CONSTANTS
    Rules,          \* the custom rules an operator may add
    MaxDeviation    \* bound: settings besides WireGuard that differ from the first configuration

VARIABLES
    policy,     \* the configuration in force
    tracked,    \* connection tracking: at most one accepted flow
    learned,    \* the service's destination set holds i
    known,      \* history: d resolved i since its profile has been active
    open        \* the profile's schedule allows the service now

firewallVars == <<policy, tracked, learned, known, open>>

Hosts == {"d", "e", "w", "t", "s", "i", "p", "r"}
LanHosts == {"d", "e"}
Public == {"i"}
Users == {"none", "squid", "routerd", "root"}
Services == {"https", "ssh", "dns", "dot", "dhcp", "ping", "wg", "proxy", "web", "app"}
Ports == Services \union {"high"}
Interfaces == {"lan", "wan", "wg0", "wg1", "seg", "self"}

(* A custom rule names a host or any, a service or any. *)
CustomRules ==
    [direction : {"input", "forward"}, action : {"allow", "deny"}, source : Hosts \union {"any"},
     service : Services \union {"any"}, scope : {"all", "wan"}]

ASSUME FirewallAssumption == MaxDeviation \in Nat /\ Rules \subseteq CustomRules

-----------------------------------------------------------------------------
(* The configuration and its admission. *)

FirstSettings ==
    [wan |-> TRUE, wg |-> FALSE, wgc |-> FALSE, only |-> FALSE, squid |-> FALSE,
     restricted |-> FALSE, profile |-> FALSE, rules |-> {}, forward |-> FALSE,
     segment |-> "none", peer |-> FALSE, ddns |-> FALSE]

SettingsOf ==
    [f \in DOMAIN FirstSettings |->
        CASE f = "rules" -> {{}} \union {{rule} : rule \in Rules}
          [] f = "segment" -> {"none", "lan", "wg"}
          [] OTHER -> BOOLEAN]

(* WireGuard, which other settings depend on, is not counted. *)
Deviations(c) == Cardinality({f \in DOMAIN c \ {"wg"} : c[f] # FirstSettings[f]})

(* One section is edited at a time. *)
Candidates(c) ==
    UNION {{[c EXCEPT ![f] = v] : v \in SettingsOf[f]} : f \in DOMAIN c}

firewall_rule_scope(rule) ==
    IF rule.direction = "input" THEN "router"
    ELSE IF rule.action = "allow" \/ rule.scope = "wan" THEN "wan" ELSE "all"

validate_firewall(c) ==
    /\ c.forward => c.wg
    /\ \A rule \in c.rules : c.only => ~(rule.direction = "input" /\ rule.action = "allow")

validate(c) ==
    /\ c.wg => c.wan
    /\ c.ddns => c.wan
    /\ c.only => c.wg
    /\ c.segment = "wg" => c.wg
    /\ validate_firewall(c)

(* A custom input deny could cut the connection that administers the router. *)
validate_scenario_safety(c) ==
    \A rule \in c.rules : ~(rule.direction = "input" /\ rule.action = "deny")

(* Mutant: restricting management to WireGuard is not provisional. *)
requires_confirmation_of_tunnel(current, candidate) ==
    \/ /\ current.only \/ candidate.only
       /\ <<current.wg, current.peer>> # <<candidate.wg, candidate.peer>>
    \/ current.wgc # candidate.wgc

requires_confirmation(current, candidate) ==
    \/ current.only # candidate.only
    \/ /\ current.only \/ candidate.only
       /\ <<current.wg, current.peer>> # <<candidate.wg, candidate.peer>>
    \/ current.wgc # candidate.wgc

(* preview_transition and process_locked refuse the rest. *)
Admitted(current, candidate) ==
    /\ candidate.only /\ ~current.only => current.wg
    /\ validate(candidate) /\ validate_scenario_safety(candidate)

-----------------------------------------------------------------------------
(* generate_nftables: chains are sequences of rules, a rule is the sets of   *)
(* values its matches admit and a verdict.                                   *)

AnyPacket ==
    [iif |-> Interfaces, oif |-> Interfaces, src |-> Hosts, dst |-> Hosts,
     dport |-> Ports, sport |-> Ports, ct |-> {"new", "established"}, user |-> Users,
     fib |-> {"ok", "missing"}]

accept(match) == <<[match |-> match, verdict |-> "accept"]>>
drop(match) == <<[match |-> match, verdict |-> "drop"]>>
When(cond, rules) == IF cond THEN rules ELSE <<>>

From(iif, ports) == [AnyPacket EXCEPT !.iif = {iif}, !.dport = ports]
Between(iif, oif) == [AnyPacket EXCEPT !.iif = {iif}, !.oif = {oif}]
By(user, oif, ports) == [AnyPacket EXCEPT !.user = {user}, !.oif = {oif}, !.dport = ports]
Established == [AnyPacket EXCEPT !.ct = {"established"}]

(* RESERVED_WAN_SOURCES and the reverse-path test. *)
write_wan_antispoof ==
    drop([AnyPacket EXCEPT !.iif = {"wan"}, !.src = Hosts \ Public])
    \o drop([AnyPacket EXCEPT !.iif = {"wan"}, !.fib = {"missing"}])

(* The endpoint of a known peer in a reserved range: its socket only. *)
write_known_wg_peer_endpoint_input_rules(c) ==
    When(c.wg /\ c.peer, accept([From("wan", {"wg"}) EXCEPT !.src = {"p"}]))

RuleMatch(rule, direction) ==
    [AnyPacket EXCEPT
        !.iif = {"lan"},
        !.src = IF rule.source = "any" THEN Hosts ELSE {rule.source},
        !.dport = IF rule.service = "any" THEN Ports ELSE {rule.service},
        !.oif = IF direction = "forward" /\ firewall_rule_scope(rule) = "wan" THEN {"wan"} ELSE Interfaces]

(* With at most one custom rule, its order among its peers is immaterial. *)
write_custom_rules(c, direction, action) ==
    LET emitted == {rule \in c.rules :
                      /\ rule.direction = direction /\ rule.action = action
                      /\ direction = "forward" /\ firewall_rule_scope(rule) = "wan" => c.wan}
    IN  IF emitted = {} THEN <<>>
        ELSE LET m == RuleMatch(CHOOSE rule \in emitted : TRUE, direction)
             IN  IF action = "allow" THEN accept(m) ELSE drop(m)

(* The tunnel's source networks. *)
WgNetwork == {"w"}
ExtraLanSources(c) == IF c.segment = "wg" THEN WgNetwork ELSE LanHosts
extra_lan_source_interface(c) == IF c.segment = "wg" THEN "wg0" ELSE "lan"

write_wg_client_input_rules(c) ==
    When(c.wgc, drop([From("wg1", Ports) EXCEPT !.src = Hosts \ {"t"}])
                \o drop([From("wg1", Ports) EXCEPT !.ct = {"new"}]))

write_wg_client_forward_rules(c) ==
    When(c.wgc, accept(Between("lan", "wg1")) \o When(c.wg, accept(Between("wg0", "wg1")))
                \o drop([From("wg1", Ports) EXCEPT !.ct = {"new"}]))

write_wg_client_output_rules(c) ==
    When(c.wgc, accept([AnyPacket EXCEPT !.oif = {"wan"}, !.dport = {"wg"}]))

write_extra_lan_input_rules(c) ==
    When(c.segment # "none", drop([From("seg", Ports) EXCEPT !.src = Hosts \ {"s"}])
                             \o accept(From("seg", {"ping"})))

write_extra_lan_forward_rules(c) ==
    When(c.segment # "none",
         drop([From("seg", Ports) EXCEPT !.src = Hosts \ {"s"}])
         \o accept([Between(extra_lan_source_interface(c), "seg") EXCEPT
                      !.src = ExtraLanSources(c), !.dst = {"s"}, !.dport = {"app"}]))

(* The tunnel's port forward: the service "app" of the router leads to e. *)
ForwardTo == "e"

write_tunnel_port_forward_forward(c) ==
    When(c.forward, accept([Between("wg0", "lan") EXCEPT
                              !.dst = {ForwardTo}, !.dport = {"app"}, !.ct = {"new"}]))

(* write_device_profile_objects: direct DNS is cut, and outside the windows
   the service's known destinations. *)
device_profiles(c, isOpen, isLearned) ==
    When(c.profile,
         drop([AnyPacket EXCEPT !.src = {"d"}, !.dport = {"dns", "dot"}])
         \o When(~isOpen /\ isLearned, drop([AnyPacket EXCEPT !.src = {"d"}, !.dst = {"i"}])))

InputChain(c) ==
    write_known_wg_peer_endpoint_input_rules(c)
    \o write_wan_antispoof
    \o drop([From("lan", Ports) EXCEPT !.src = Hosts \ LanHosts])
    \o write_custom_rules(c, "input", "deny")
    \o accept(Established)
    \o When(c.wg, accept(From("wan", {"wg"}))
                  \o drop([From("wg0", Ports) EXCEPT !.src = Hosts \ WgNetwork])
                  \o accept(From("wg0", {"https", "ssh", "dns"})))
    \o write_wg_client_input_rules(c)
    \o When(c.squid, accept(From("lan", {"proxy"})))
    \o When(~c.only, accept(From("lan", {"https", "ssh"})))
    \o accept(From("lan", {"dns", "dhcp", "ping"}))
    \o write_extra_lan_input_rules(c)
    \o write_custom_rules(c, "input", "allow")

ForwardChain(c, isOpen, isLearned) ==
    write_wan_antispoof
    \o drop([From("lan", Ports) EXCEPT !.src = Hosts \ LanHosts])
    \o device_profiles(c, isOpen, isLearned)
    \o write_custom_rules(c, "forward", "deny")
    \o When(c.squid /\ c.restricted, drop([AnyPacket EXCEPT !.src = {"d"}]))
    \o accept(Established)
    \o write_custom_rules(c, "forward", "allow")
    \o write_extra_lan_forward_rules(c)
    \o When(c.wan, accept(Between("lan", "wan")))
    \o When(c.wg, accept(Between("wg0", "lan")) \o When(c.wan, accept(Between("wg0", "wan"))))
    \o write_tunnel_port_forward_forward(c)
    \o write_wg_client_forward_rules(c)

(* The proxy's isolation precedes the acceptance of established flows. *)
SquidIsolation(c) ==
    LET away(oif) == drop(By("squid", oif, Ports))
    IN  When(c.squid,
             accept([By("squid", "lan", Ports) EXCEPT !.sport = {"proxy"}]) \o away("lan")
             \o When(c.wg, away("wg0")) \o When(c.wgc, away("wg1"))
             \o When(c.segment # "none", away("seg")))

OutputChain(c) ==
    SquidIsolation(c)
    \o accept(Established)
    \o accept([AnyPacket EXCEPT !.oif = {"lan"},
                 !.sport = {"dns", "dhcp"} \union IF c.only THEN {} ELSE {"https"}])
    \o When(c.wg, accept([AnyPacket EXCEPT !.oif = {"wg0"}, !.sport = {"dns", "wg", "https"}]))
    \o write_wg_client_output_rules(c)
    \o accept([AnyPacket EXCEPT !.dst = Public, !.dport = {"dns"}])
    \o accept([AnyPacket EXCEPT !.dport = {"ping"}])
    \o accept(By("routerd", "wan", {"web"}))
    \o When(c.ddns, accept(By("root", "wan", {"web"})))
    \o When(c.squid, accept(By("squid", "wan", {"web"})))

-----------------------------------------------------------------------------
(* Packets. *)

(* Where an address is routed. *)
InterfaceOf(c, h) ==
    CASE h \in LanHosts -> "lan"
      [] h = "w" /\ c.wg -> "wg0"
      [] h = "t" /\ c.wgc -> "wg1"
      [] h = "s" /\ c.segment # "none" -> "seg"
      [] h = "r" -> "self"
      [] OTHER -> "wan"

(* A flow is [src, dst, service, user, via]: who asks whom for what, and
   through which interface it came.  write_tunnel_port_forwards translates
   its destination, which connection tracking keeps. *)
Translated(c, f) ==
    IF c.forward /\ f.via = "wg0" /\ f.service = "app" THEN ForwardTo ELSE f.dst

Ruleset(c, isOpen, isLearned) ==
    [input |-> InputChain(c), forward |-> ForwardChain(c, isOpen, isLearned),
     output |-> OutputChain(c)]

Chain(ruleset, from, to) ==
    IF from = "r" THEN ruleset.output
    ELSE IF to = "r" THEN ruleset.input ELSE ruleset.forward

Matches(m, packet) ==
    /\ packet.iif \in m.iif /\ packet.oif \in m.oif
    /\ packet.dport \in m.dport /\ packet.sport \in m.sport
    /\ packet.src \in m.src /\ packet.dst \in m.dst
    /\ packet.user \in m.user /\ packet.ct \in m.ct /\ packet.fib \in m.fib

Verdict(chain, packet) ==
    LET hits == {n \in DOMAIN chain : Matches(chain[n].match, packet)}
    IN  IF hits = {} THEN "drop" ELSE chain[Min(hits)].verdict

(* The packet a flow's originator sends: its destination after translation. *)
Request(c, f, to, ct) ==
    [iif |-> f.via, oif |-> InterfaceOf(c, to), src |-> f.src, dst |-> to,
     dport |-> f.service, sport |-> IF f.service = "ping" THEN "ping" ELSE "high", ct |-> ct,
     user |-> f.user, fib |-> IF f.via = InterfaceOf(c, f.src) THEN "ok" ELSE "missing"]

(* The answer to an established flow. *)
Reply(c, f, to) ==
    [iif |-> InterfaceOf(c, to), oif |-> InterfaceOf(c, f.src), src |-> to, dst |-> f.src,
     dport |-> IF f.service = "ping" THEN "ping" ELSE "high", sport |-> f.service,
     ct |-> "established", user |-> IF f.service = "proxy" THEN "squid" ELSE "none", fib |-> "ok"]

PassesNew(ruleset, c, f) ==
    LET to == Translated(c, f)
    IN  Verdict(Chain(ruleset, f.src, to), Request(c, f, to, "new")) = "accept"

PassesEstablished(ruleset, c, k) ==
    Verdict(Chain(ruleset, k.flow.src, k.to), Request(c, k.flow, k.to, "established")) = "accept"

-----------------------------------------------------------------------------
(* The explanation. *)

firewall_zone(c, h) ==
    CASE h = "r" -> "router"
      [] h \in LanHosts -> "lan"
      [] h = "w" /\ c.wg -> "wireguard"
      [] h = "s" /\ c.segment # "none" -> "segment"
      [] h = "t" /\ c.wgc -> "tunnel"
      [] h \in Public -> "wan"
      [] OTHER -> "unknown"

firewall_rule_matches(rule, f) ==
    rule.source \in {"any", f.src} /\ rule.service \in {"any", f.service}

RouterVerdict(c, f, src) ==
    LET allowed ==
          CASE src = "tunnel" -> FALSE
            [] src = "segment" -> f.service = "ping"
            [] OTHER ->
                 \/ f.service = "dns"
                 \/ f.service \in {"https", "ssh"} /\ (src = "wireguard" \/ ~c.only)
                 \/ /\ src = "lan"
                    /\ \/ f.service \in {"ping", "dhcp"}
                       \/ c.squid /\ f.service = "proxy"
                       \/ \E rule \in c.rules : /\ rule.direction = "input" /\ rule.action = "allow"
                                                /\ firewall_rule_matches(rule, f)
    IN  IF allowed THEN "allow" ELSE "deny"

Denied(c, f, dst) ==
    \E rule \in c.rules :
        /\ rule.direction = "forward" /\ rule.action = "deny" /\ firewall_rule_matches(rule, f)
        /\ firewall_rule_scope(rule) = "all" \/ (dst = "wan" /\ c.wan)

explain_verdict(c, f, to) ==
    LET src == firewall_zone(c, f.src)
        dst == firewall_zone(c, to)
        allowed ==
          \/ dst = "segment" /\ f.service = "app" /\ f.src \in ExtraLanSources(c)
          \/ dst = "wan" /\ c.wan
          \/ src = "wireguard" /\ dst = "lan"
          \/ dst = "tunnel"
    IN  IF "unknown" \in {src, dst} \/ src = "router" THEN "unknown"
        ELSE IF src = dst /\ src \in {"lan", "segment"} THEN "not_routed"
        ELSE IF src = "wan" THEN "unknown"
        ELSE IF dst = "router" THEN RouterVerdict(c, f, src)
        ELSE IF c.profile /\ f.src = "d" THEN IF f.service \in {"dns", "dot"} THEN "deny" ELSE "unknown"
        ELSE IF src = "lan" /\ Denied(c, f, dst) THEN "deny"
        ELSE IF c.squid /\ c.restricted /\ f.src = "d" THEN "deny"
        ELSE IF src \in {"tunnel", "segment"} THEN "deny"
        ELSE IF allowed THEN "allow" ELSE "deny"

(* Mutant: the tunnel's port forward is not followed. *)
explain_untranslated(c, f) == explain_verdict(c, f, f.dst)

explain_firewall_flow(c, f) ==
    explain_verdict(c, f,
        IF firewall_zone(c, f.src) = "wireguard" /\ c.forward /\ f.service = "app"
        THEN ForwardTo ELSE f.dst)

-----------------------------------------------------------------------------
(* Behaviour. *)

FirewallInit ==
    /\ policy = FirstSettings /\ tracked = {}
    /\ learned = FALSE /\ known = FALSE /\ open = TRUE

(* What can appear: tunnels deliver only their peers' addresses, links may
   deliver any; the router's own processes are its users. *)
LinksOf(c, h) ==
    CASE h = "r" -> {"self"}
      [] InterfaceOf(c, h) \in {"wg0", "wg1"} -> {InterfaceOf(c, h), "wan"}
      [] OTHER -> {"lan", "wan"} \union IF c.segment = "none" THEN {} ELSE {"seg"}

UsersOf(h) == IF h = "r" THEN Users \ {"none"} ELSE {"none"}

Routed(f) == f.src # f.dst /\ ~({f.src, f.dst} \subseteq LanHosts /\ f.via = "lan")

(* A new flow that the policy lets pass is tracked. *)
NewFlow ==
    /\ tracked = {}
    /\ LET ruleset == Ruleset(policy, open, learned) IN
       \E src, dst \in Hosts, service \in Services :
        \E user \in UsersOf(src), via \in LinksOf(policy, src) :
            LET f == [src |-> src, dst |-> dst, service |-> service, user |-> user, via |-> via]
                resolves == src = "d" /\ dst = "r" /\ service = "dns" /\ policy.profile
            IN  /\ Routed(f) /\ PassesNew(ruleset, policy, f)
                /\ tracked' = {[flow |-> f, to |-> Translated(policy, f)]}
                /\ learned' = (learned \/ resolves)
                /\ known' = (known \/ resolves)
    /\ UNCHANGED <<policy, open>>

(* Connection tracking forgets an idle flow. *)
FlowExpires ==
    /\ tracked # {}
    /\ tracked' = {}
    /\ UNCHANGED <<policy, learned, known, open>>

(* Mutant: the new table starts with empty sets. *)
preserve_nothing(candidate, isLearned) == FALSE

(* run_nft_file: the table is replaced in one batch; destination sets the
   new table also has keep their elements. *)
preserve_service_destinations(candidate, isLearned) == candidate.profile /\ isLearned

run_nft_file(candidate) ==
    /\ policy' = candidate
    /\ learned' = preserve_service_destinations(candidate, learned)
    /\ known' = (known /\ candidate.profile)
    /\ UNCHANGED <<tracked, open>>

ApplyPolicy ==
    \E candidate \in Candidates(policy) :
        /\ candidate # policy /\ Deviations(candidate) <= MaxDeviation
        /\ Admitted(policy, candidate)
        /\ run_nft_file(candidate)

(* Elements live for four hours. *)
DestinationExpires ==
    /\ learned
    /\ learned' = FALSE /\ known' = FALSE
    /\ UNCHANGED <<policy, tracked, open>>

ScheduleTurns ==
    /\ policy.profile
    /\ open' = ~open
    /\ UNCHANGED <<policy, tracked, learned, known>>

FirewallNext == NewFlow \/ FlowExpires \/ ApplyPolicy \/ DestinationExpires \/ ScheduleTurns

FirewallSpec == FirewallInit /\ [][FirewallNext]_firewallVars

-----------------------------------------------------------------------------
(* Properties. *)

(* Types, and the policy in force is one that validation admits. *)
FirewallTypeOK ==
    /\ \A f \in DOMAIN policy : policy[f] \in SettingsOf[f]
    /\ validate(policy)
    /\ Cardinality(tracked) <= 1
    /\ {learned, known, open} \subseteq BOOLEAN

(* explain_firewall_flow and generate_nftables agree: whatever the admitted
   configuration, a new flow explained as allowed passes the rendered chains
   and one explained as denied does not. *)
ExplanationAgrees ==
    tracked = {} =>
        LET ruleset == Ruleset(policy, open, learned) IN
        \A src, dst \in Hosts, service \in Services :
            LET f == [src |-> src, dst |-> dst, service |-> service, user |-> "none",
                      via |-> InterfaceOf(policy, src)]
            IN  src # "r" /\ Routed(f) =>
                    LET verdict == explain_firewall_flow(policy, f)
                    IN  /\ verdict = "allow" => PassesNew(ruleset, policy, f)
                        /\ verdict = "deny" => ~PassesNew(ruleset, policy, f)

(* No sequence of admitted changes lets the outside begin a connection: what
   is tracked was begun by the LAN, a WireGuard peer or the router itself,
   apart from the tunnel's own socket and pings of isolated segments, and
   never with a source address of another network. *)
OnlyTrustedInitiates ==
    \A k \in tracked :
        \/ k.flow.via \in {"lan", "wg0", "self"} /\ k.flow.src \in LanHosts \union {"w", "r"}
        \/ k.flow.via = "wan" /\ k.to = "r" /\ k.flow.service = "wg" /\ k.flow.src \in {"i", "p"}
        \/ k.flow.via = "seg" /\ k.to = "r" /\ k.flow.service = "ping" /\ k.flow.src = "s"

(* "expired streams are cut", "runs before established connections": a flow
   that was established under an earlier policy does not outlive a custom
   deny, a proxy restriction, the end of a schedule whose destination is
   known, or the proxy's isolation from private networks. *)
EarlierFlowsAreCut ==
    \A k \in tracked :
        LET f == k.flow
            out == InterfaceOf(policy, k.to)
            cut == \/ /\ f.src \in LanHosts /\ f.via = "lan" /\ k.to # "r"
                      /\ Denied(policy, f, IF out = "wan" THEN "wan" ELSE "other")
                   \/ policy.squid /\ policy.restricted /\ f.src = "d" /\ k.to # "r"
                   \/ policy.profile /\ f.src = "d" /\ k.to = "i" /\ known /\ ~open
                   \/ policy.squid /\ f.user = "squid" /\ out \in {"lan", "wg0", "wg1", "seg"}
        IN  cut => ~PassesEstablished(Ruleset(policy, open, learned), policy, k)

(* A change that is not provisional (requires_confirmation) never cuts an
   open management session of the mode in force, over the LAN, or over
   WireGuard when management is restricted to it, and the session can be
   opened again. *)
ManagementSession(c, k) ==
    k.to = "r" /\ k.flow.service = "https" /\ k.flow.via = IF c.only THEN "wg0" ELSE "lan"

SessionPasses(c, k) ==
    LET ruleset == Ruleset(c, open, learned)
    IN  /\ PassesNew(ruleset, c, k.flow)
        /\ PassesEstablished(ruleset, c, k)
        /\ Verdict(ruleset.output, Reply(c, k.flow, k.to)) = "accept"

UnconfirmedKeepsManagement ==
    [][ \A k \in tracked :
          tracked' = tracked /\ policy' # policy /\ ManagementSession(policy, k) =>
              SessionPasses(policy', k) \/ requires_confirmation(policy, policy') ]_firewallVars

\* The generated ruleset keeps the trust boundary, over every change of the
\* configuration: only trusted zones and forwarded ports start connections, and a
\* flow that an earlier ruleset admitted is cut when the new one does not admit it,
\* as far as EarlierFlowsAreCut says.
FirewallSound ==
  /\ FirewallTypeOK /\ OnlyTrustedInitiates /\ EarlierFlowsAreCut
=============================================================================
