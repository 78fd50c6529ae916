---------------------------- MODULE PolicyProofs ----------------------------
(***************************************************************************)
(* Proofs about two parts that decide what a device may do: Firewall, the  *)
(* chains of the helper and what routerd explains of them, and             *)
(* AccessSchedule, what routerd shows of a schedule the helper has put in  *)
(* force. For every set of rules, every number of changes and every length *)
(* of a day. Each part starts with its inductive invariant.                *)
(***************************************************************************)
EXTENDS Firewall, AccessSchedule, FiniteSetTheorems, WellFoundedInduction, TLAPS

\* Most leaves are first-order reasoning; the others name their prover.
USE Zenon

-----------------------------------------------------------------------------
(***************************************************************************)
(* Firewall. Each chain is first turned into a condition on packets        *)
(* (InputAdmits, ForwardAdmits, ForwardCut and Isolated), because the rule *)
(* that decides is the first that matches; the properties compare these    *)
(* conditions with each other. What is tracked began under some policy     *)
(* that let it begin (TrackedFlow, Begun), which is what FirewallInv adds  *)
(* to the settings in force.                                               *)
(***************************************************************************)

\* What a rule of a chain is made of.
MatchSets ==
    [iif : SUBSET Interfaces, oif : SUBSET Interfaces, src : SUBSET Hosts, dst : SUBSET Hosts,
     dport : SUBSET Ports, sport : SUBSET Ports, ct : SUBSET {"new", "established"},
     user : SUBSET Users, fib : SUBSET {"ok", "missing"}]

Chains == Seq([match : MatchSets, verdict : {"accept", "drop"}])

Packets ==
    [iif : Interfaces, oif : Interfaces, src : Hosts, dst : Hosts, dport : Ports, sport : Ports,
     ct : {"new", "established"}, user : Users, fib : {"ok", "missing"}]

\* A chain decides about a packet, and in which way.
Hits(chain, packet) == \E n \in DOMAIN chain : Matches(chain[n].match, packet)
Accepts(chain, packet) == Verdict(chain, packet) = "accept"

Decides(chain, packet, hit, pass) ==
    /\ chain \in Chains
    /\ Hits(chain, packet) <=> hit
    /\ Accepts(chain, packet) <=> pass

\* The configurations there are: FirstSettings and what SettingsOf adds.
Configs ==
    [wan : BOOLEAN, wg : BOOLEAN, wgc : BOOLEAN, only : BOOLEAN, squid : BOOLEAN,
     restricted : BOOLEAN, profile : BOOLEAN, rules : {{}} \union {{rule} : rule \in Rules},
     forward : BOOLEAN, segment : {"none", "lan", "wg"}, peer : BOOLEAN, ddns : BOOLEAN]

-----------------------------------------------------------------------------
\* A set of numbers that is not empty has a first one.
LEMMA FirstIs ==
    ASSUME NEW S, S \subseteq Nat, S # {}
    PROVE  Min(S) \in S /\ \A y \in S : Min(S) <= y
<1>1. PICK x \in S : \A y \in S : ~ (<<y, x>> \in OpToRel(<, Nat))
  BY WFMin, NatLessThanWellFounded
<1>2. ASSUME NEW y \in S PROVE x <= y
  <2>1. x \in Nat /\ y \in Nat
    OBVIOUS
  <2>2. SUFFICES ASSUME y < x PROVE FALSE
    BY <2>1, SMT
  <2>3. <<y, x>> \in Nat \X Nat /\ <<y, x>>[1] < <<y, x>>[2]
    BY <2>1, <2>2, SMT
  <2>4. <<y, x>> \in OpToRel(<, Nat)
    BY <2>3 DEF OpToRel
  <2> QED
    BY <1>1, <2>4
<1> QED
  BY <1>2 DEF Min

\* The rule that decides is the first that matches.
LEMMA FirstHit ==
    ASSUME NEW chain \in Chains, NEW packet
    PROVE  /\ ~Hits(chain, packet) => Verdict(chain, packet) = "drop"
           /\ Hits(chain, packet) =>
                \E n \in DOMAIN chain :
                    /\ Matches(chain[n].match, packet) /\ Verdict(chain, packet) = chain[n].verdict
                    /\ \A k \in DOMAIN chain : Matches(chain[k].match, packet) => n <= k
<1> DEFINE hits == {n \in DOMAIN chain : Matches(chain[n].match, packet)}
<1>1. hits = {} => Verdict(chain, packet) = "drop"
  BY DEF Verdict
<1>2. hits # {} => Verdict(chain, packet) = chain[Min(hits)].verdict
  BY DEF Verdict
<1>3. hits \subseteq Nat
  BY SMT DEF Chains
<1>4. Hits(chain, packet) <=> hits # {}
  BY DEF Hits
<1>5. hits # {} => Min(hits) \in hits /\ \A k \in hits : Min(hits) <= k
  BY <1>3, FirstIs
<1> QED
  BY <1>1, <1>2, <1>4, <1>5

\* A rule decides about what it matches.
LEMMA AcceptIs ==
    ASSUME NEW m \in MatchSets, NEW packet
    PROVE  /\ accept(m) \in Chains /\ (Hits(accept(m), packet) <=> Matches(m, packet))
           /\ Accepts(accept(m), packet) <=> Matches(m, packet)
<1>1. /\ accept(m) \in Chains /\ DOMAIN accept(m) = {1}
      /\ accept(m)[1].match = m /\ accept(m)[1].verdict = "accept"
  BY SMT DEF accept, Chains
<1>2. Hits(accept(m), packet) <=> Matches(m, packet)
  BY <1>1 DEF Hits
<1> QED
  BY <1>1, <1>2, FirstHit DEF Accepts

LEMMA DropIs ==
    ASSUME NEW m \in MatchSets, NEW packet
    PROVE  /\ drop(m) \in Chains /\ (Hits(drop(m), packet) <=> Matches(m, packet))
           /\ ~Accepts(drop(m), packet)
<1>1. /\ drop(m) \in Chains /\ DOMAIN drop(m) = {1}
      /\ drop(m)[1].match = m /\ drop(m)[1].verdict = "drop"
  BY SMT DEF drop, Chains
<1>2. Hits(drop(m), packet) <=> Matches(m, packet)
  BY <1>1 DEF Hits
<1> QED
  BY <1>1, <1>2, FirstHit DEF Accepts

LEMMA NoRules ==
    ASSUME NEW packet
    PROVE  <<>> \in Chains /\ ~Hits(<<>>, packet) /\ ~Accepts(<<>>, packet)
<1>1. <<>> \in Chains /\ ~Hits(<<>>, packet)
  BY SMT DEF Chains, Hits
<1> QED
  BY <1>1, FirstHit DEF Accepts

\* Of two chains in a row the second decides what the first does not.
LEMMA InARow ==
    ASSUME NEW s \in Chains, NEW t \in Chains, NEW packet
    PROVE  /\ s \o t \in Chains
           /\ Hits(s \o t, packet) <=> Hits(s, packet) \/ Hits(t, packet)
           /\ Accepts(s \o t, packet) <=>
                Accepts(s, packet) \/ (~Hits(s, packet) /\ Accepts(t, packet))
<1>1. /\ s \o t \in Chains /\ Len(s) \in Nat /\ Len(t) \in Nat
      /\ DOMAIN s = 1 .. Len(s) /\ DOMAIN t = 1 .. Len(t)
      /\ DOMAIN (s \o t) = 1 .. Len(s) + Len(t)
      /\ \A n \in 1 .. Len(s) : n \in DOMAIN (s \o t) /\ (s \o t)[n] = s[n]
      /\ \A n \in 1 .. Len(t) : Len(s) + n \in DOMAIN (s \o t) /\ (s \o t)[Len(s) + n] = t[n]
  BY SMT DEF Chains
<1>2. \A n \in DOMAIN (s \o t) : n \in DOMAIN s \/ (n - Len(s) \in DOMAIN t /\ n = Len(s) + (n - Len(s)))
  BY <1>1, SMT
<1>3. Hits(s \o t, packet) <=> Hits(s, packet) \/ Hits(t, packet)
  BY <1>1, <1>2 DEF Hits
<1>4. CASE Hits(s, packet)
  <2>1. PICK n \in DOMAIN s :
          /\ Matches(s[n].match, packet) /\ Verdict(s, packet) = s[n].verdict
          /\ \A k \in DOMAIN s : Matches(s[k].match, packet) => n <= k
    BY <1>4, FirstHit
  <2>2. PICK m \in DOMAIN (s \o t) :
          /\ Matches((s \o t)[m].match, packet) /\ Verdict(s \o t, packet) = (s \o t)[m].verdict
          /\ \A k \in DOMAIN (s \o t) : Matches((s \o t)[k].match, packet) => m <= k
    BY <1>1, <1>3, <1>4, FirstHit
  <2>3. m <= n
    BY <1>1, <2>1, <2>2
  <2>4. m \in DOMAIN s
    BY <1>1, <2>3, SMT
  <2>5. n <= m
    BY <1>1, <2>1, <2>2, <2>4
  <2>6. m = n
    BY <1>1, <2>3, <2>4, <2>5, SMT
  <2>7. Verdict(s \o t, packet) = Verdict(s, packet)
    BY <1>1, <2>1, <2>2, <2>6
  <2> QED
    BY <1>1, <1>3, <1>4, <2>7 DEF Accepts
<1>5. CASE ~Hits(s, packet) /\ Hits(t, packet)
  <2>1. PICK n \in DOMAIN t :
          /\ Matches(t[n].match, packet) /\ Verdict(t, packet) = t[n].verdict
          /\ \A k \in DOMAIN t : Matches(t[k].match, packet) => n <= k
    BY <1>5, FirstHit
  <2>2. PICK m \in DOMAIN (s \o t) :
          /\ Matches((s \o t)[m].match, packet) /\ Verdict(s \o t, packet) = (s \o t)[m].verdict
          /\ \A k \in DOMAIN (s \o t) : Matches((s \o t)[k].match, packet) => m <= k
    BY <1>1, <1>3, <1>5, FirstHit
  <2>3. m <= Len(s) + n
    BY <1>1, <2>1, <2>2
  <2>4. m \notin DOMAIN s
    BY <1>1, <1>5, <2>2 DEF Hits
  <2>5. m - Len(s) \in DOMAIN t /\ m = Len(s) + (m - Len(s))
    BY <1>2, <2>4
  <2>6. n <= m - Len(s)
    BY <1>1, <2>1, <2>2, <2>5
  <2>7. m = Len(s) + n
    BY <1>1, <2>3, <2>5, <2>6, SMT
  <2>8. Verdict(s \o t, packet) = Verdict(t, packet)
    BY <1>1, <2>1, <2>2, <2>7
  <2>9. ~Accepts(s, packet)
    BY <1>5, FirstHit DEF Accepts
  <2> QED
    BY <1>1, <1>3, <1>5, <2>8, <2>9 DEF Accepts
<1>6. CASE ~Hits(s, packet) /\ ~Hits(t, packet)
  BY <1>1, <1>3, <1>6, FirstHit DEF Accepts
<1> QED
  BY <1>4, <1>5, <1>6

-----------------------------------------------------------------------------
\* Admitted configurations.
LEMMA SettingsAre ==
    /\ DOMAIN FirstSettings = {"wan", "wg", "wgc", "only", "squid", "restricted", "profile", "rules",
                               "forward", "segment", "peer", "ddns"}
    /\ SettingsOf["rules"] = {{}} \union {{rule} : rule \in Rules}
    /\ SettingsOf["segment"] = {"none", "lan", "wg"}
    /\ \A f \in DOMAIN FirstSettings \ {"rules", "segment"} : SettingsOf[f] = BOOLEAN
<1>1. DOMAIN FirstSettings = {"wan", "wg", "wgc", "only", "squid", "restricted", "profile", "rules",
                              "forward", "segment", "peer", "ddns"}
  BY SMT DEF FirstSettings
<1> QED
  BY <1>1, SMT DEF SettingsOf

LEMMA ConfigsAre ==
    ASSUME NEW c
    PROVE  c \in Configs <=> /\ c = [f \in DOMAIN FirstSettings |-> c[f]]
                             /\ \A f \in DOMAIN FirstSettings : c[f] \in SettingsOf[f]
  BY SettingsAre, SMT DEF Configs

LEMMA FirstIsConfig == FirstSettings \in Configs
  BY SMT DEF FirstSettings, Configs

LEMMA CandidateIsConfig ==
    ASSUME NEW c \in Configs, NEW candidate \in Candidates(c)
    PROVE  candidate \in Configs
<1>1. DOMAIN c = DOMAIN FirstSettings
  BY ConfigsAre
<1>2. PICK f \in DOMAIN FirstSettings : \E v \in SettingsOf[f] : candidate = [c EXCEPT ![f] = v]
  BY <1>1 DEF Candidates
<1>3. PICK v \in SettingsOf[f] : candidate = [c EXCEPT ![f] = v]
  BY <1>2
<1>4. DOMAIN candidate = DOMAIN FirstSettings
  BY <1>1, <1>3
<1>5. candidate = [g \in DOMAIN FirstSettings |-> candidate[g]]
  BY <1>1, <1>3
<1>6. \A g \in DOMAIN FirstSettings : candidate[g] \in SettingsOf[g]
  BY <1>1, <1>3, ConfigsAre
<1> QED
  BY <1>5, <1>6, ConfigsAre

-----------------------------------------------------------------------------
\* The pieces of the chains.
LEMMA FromIs ==
    ASSUME NEW i \in Interfaces, NEW ports \in SUBSET Ports, NEW p \in Packets
    PROVE  /\ From(i, ports) \in MatchSets
           /\ Matches(From(i, ports), p) <=> p.iif = i /\ p.dport \in ports
  BY DEF From, AnyPacket, MatchSets, Packets, Matches

LEMMA FromOtherIs ==
    ASSUME NEW i \in Interfaces, NEW ports \in SUBSET Ports, NEW hosts \in SUBSET Hosts, NEW p \in Packets
    PROVE  /\ [From(i, ports) EXCEPT !.src = hosts] \in MatchSets
           /\ Matches([From(i, ports) EXCEPT !.src = hosts], p) <=>
                p.iif = i /\ p.dport \in ports /\ p.src \in hosts
  BY DEF From, AnyPacket, MatchSets, Packets, Matches

LEMMA FromNewIs ==
    ASSUME NEW i \in Interfaces, NEW p \in Packets
    PROVE  /\ [From(i, Ports) EXCEPT !.ct = {"new"}] \in MatchSets
           /\ Matches([From(i, Ports) EXCEPT !.ct = {"new"}], p) <=> p.iif = i /\ p.ct = "new"
  BY DEF From, AnyPacket, MatchSets, Packets, Matches

LEMMA BetweenIs ==
    ASSUME NEW i \in Interfaces, NEW o \in Interfaces, NEW p \in Packets
    PROVE  /\ Between(i, o) \in MatchSets
           /\ Matches(Between(i, o), p) <=> p.iif = i /\ p.oif = o
  BY DEF Between, AnyPacket, MatchSets, Packets, Matches

LEMMA ByIs ==
    ASSUME NEW user \in Users, NEW o \in Interfaces, NEW ports \in SUBSET Ports, NEW p \in Packets
    PROVE  /\ By(user, o, ports) \in MatchSets
           /\ Matches(By(user, o, ports), p) <=> p.user = user /\ p.oif = o /\ p.dport \in ports
  BY DEF By, AnyPacket, MatchSets, Packets, Matches

LEMMA EstablishedIs ==
    ASSUME NEW p \in Packets
    PROVE  /\ accept(Established) \in Chains
           /\ Hits(accept(Established), p) <=> p.ct = "established"
           /\ Accepts(accept(Established), p) <=> p.ct = "established"
<1>1. Established \in MatchSets /\ (Matches(Established, p) <=> p.ct = "established")
  BY DEF Established, AnyPacket, MatchSets, Packets, Matches
<1> QED
  BY <1>1, AcceptIs

\* Sets of the values there are.
LEMMA Values ==
    /\ "lan" \in Interfaces /\ "wan" \in Interfaces /\ "wg0" \in Interfaces /\ "wg1" \in Interfaces
    /\ "seg" \in Interfaces /\ "self" \in Interfaces
    /\ {"s", "t", "p", "i", "d", "e", "w", "r"} = Hosts /\ {"new", "established"} \in SUBSET {"new", "established"}
    /\ Users = {"none", "squid", "routerd", "root"}
  BY SMT DEF Interfaces, Hosts, Users

LEMMA PortSets ==
    /\ Ports \in SUBSET Ports /\ Services \in SUBSET Ports
    /\ {"wg"} \in SUBSET Ports /\ {"proxy"} \in SUBSET Ports /\ {"app"} \in SUBSET Ports
    /\ {"web"} \in SUBSET Ports /\ {"ping"} \in SUBSET Ports /\ {"dns"} \in SUBSET Ports
    /\ {"https", "ssh", "dns"} \in SUBSET Ports /\ {"https", "ssh"} \in SUBSET Ports
    /\ {"dns", "dhcp", "ping"} \in SUBSET Ports /\ {"dns", "dot"} \in SUBSET Ports
    /\ {"dns", "dhcp"} \in SUBSET Ports /\ {"https"} \in SUBSET Ports /\ {"dns", "wg", "https"} \in SUBSET Ports
  BY SMT DEF Services, Ports

LEMMA HostSets ==
    /\ Hosts \in SUBSET Hosts /\ LanHosts \in SUBSET Hosts /\ WgNetwork \in SUBSET Hosts /\ Public \in SUBSET Hosts
    /\ \A h \in Hosts : {h} \in SUBSET Hosts /\ Hosts \ {h} \in SUBSET Hosts
    /\ Hosts \ Public \in SUBSET Hosts /\ Hosts \ LanHosts \in SUBSET Hosts /\ Hosts \ WgNetwork \in SUBSET Hosts
  BY SMT DEF LanHosts, WgNetwork, Hosts, Public

LEMMA PacketIs ==
    ASSUME NEW p \in Packets
    PROVE  /\ p.iif \in Interfaces /\ p.oif \in Interfaces /\ p.src \in Hosts /\ p.dst \in Hosts
           /\ p.dport \in Ports /\ p.sport \in Ports /\ p.ct \in {"new", "established"}
           /\ p.user \in Users /\ p.fib \in {"ok", "missing"}
  BY DEF Packets

LEMMA AntispoofIs ==
    ASSUME NEW p \in Packets
    PROVE  /\ write_wan_antispoof \in Chains /\ ~Accepts(write_wan_antispoof, p)
           /\ Hits(write_wan_antispoof, p) <=> p.iif = "wan" /\ (p.src \notin Public \/ p.fib = "missing")
<1> DEFINE m == [AnyPacket EXCEPT !.iif = {"wan"}, !.src = Hosts \ Public]
           n == [AnyPacket EXCEPT !.iif = {"wan"}, !.fib = {"missing"}]
<1>0. "wan" \in Interfaces /\ Hosts \ Public \in SUBSET Hosts
  BY Values, HostSets
<1>1. m \in MatchSets /\ (Matches(m, p) <=> p.iif = "wan" /\ p.src \notin Public)
  BY <1>0 DEF AnyPacket, MatchSets, Packets, Matches
<1>2. n \in MatchSets /\ (Matches(n, p) <=> p.iif = "wan" /\ p.fib = "missing")
  BY <1>0 DEF AnyPacket, MatchSets, Packets, Matches
<1>3. write_wan_antispoof = drop(m) \o drop(n)
  BY DEF write_wan_antispoof
<1> HIDE DEF m, n
<1> QED
  BY <1>1, <1>2, <1>3, DropIs, InARow

\* A packet of another network at an interface.
SpoofDrop(iif, hosts) == drop([From(iif, Ports) EXCEPT !.src = Hosts \ hosts])

LEMMA SpoofIs ==
    ASSUME NEW i \in Interfaces, NEW hosts, NEW p \in Packets
    PROVE  /\ SpoofDrop(i, hosts) \in Chains /\ ~Accepts(SpoofDrop(i, hosts), p)
           /\ Hits(SpoofDrop(i, hosts), p) <=> p.iif = i /\ p.src \notin hosts
<1>1. Ports \in SUBSET Ports /\ Hosts \ hosts \in SUBSET Hosts
  OBVIOUS
<1>2. p.dport \in Ports /\ p.src \in Hosts
  BY PacketIs
<1> DEFINE m == [From(i, Ports) EXCEPT !.src = Hosts \ hosts]
<1>3. m \in MatchSets /\ (Matches(m, p) <=> p.iif = i /\ p.dport \in Ports /\ p.src \in Hosts \ hosts)
  BY <1>1, FromOtherIs
<1>4. SpoofDrop(i, hosts) = drop(m)
  BY DEF SpoofDrop
<1> HIDE DEF m
<1> QED
  BY <1>2, <1>3, <1>4, DropIs

LEMMA AcceptFromIs ==
    ASSUME NEW i \in Interfaces, NEW ports \in SUBSET Ports, NEW p \in Packets
    PROVE  /\ accept(From(i, ports)) \in Chains
           /\ Hits(accept(From(i, ports)), p) <=> p.iif = i /\ p.dport \in ports
           /\ Accepts(accept(From(i, ports)), p) <=> p.iif = i /\ p.dport \in ports
  BY FromIs, AcceptIs

LEMMA AcceptBetweenIs ==
    ASSUME NEW i \in Interfaces, NEW o \in Interfaces, NEW p \in Packets
    PROVE  /\ accept(Between(i, o)) \in Chains
           /\ Hits(accept(Between(i, o)), p) <=> p.iif = i /\ p.oif = o
           /\ Accepts(accept(Between(i, o)), p) <=> p.iif = i /\ p.oif = o
  BY BetweenIs, AcceptIs

LEMMA KnownPeerIs ==
    ASSUME NEW c \in Configs, NEW p \in Packets
    PROVE  LET s == write_known_wg_peer_endpoint_input_rules(c)
               hit == c.wg /\ c.peer /\ p.iif = "wan" /\ p.dport = "wg" /\ p.src = "p"
           IN  s \in Chains /\ (Hits(s, p) <=> hit) /\ (Accepts(s, p) <=> hit)
<1> DEFINE m == [From("wan", {"wg"}) EXCEPT !.src = {"p"}]
<1>1. {"p"} \in SUBSET Hosts /\ "wan" \in Interfaces /\ {"wg"} \in SUBSET Ports
  BY Values, PortSets
<1>2. m \in MatchSets /\ (Matches(m, p) <=> p.iif = "wan" /\ p.dport \in {"wg"} /\ p.src \in {"p"})
  BY <1>1, FromOtherIs
<1>4. write_known_wg_peer_endpoint_input_rules(c) = IF c.wg /\ c.peer THEN accept(m) ELSE <<>>
  BY DEF write_known_wg_peer_endpoint_input_rules, When
<1> HIDE DEF m
<1>5. accept(m) \in Chains /\ (Hits(accept(m), p) <=> Matches(m, p)) /\ (Accepts(accept(m), p) <=> Matches(m, p))
  BY <1>2, AcceptIs
<1> QED
  BY <1>2, <1>4, <1>5, NoRules

\* The input rules of the WireGuard server.
TunnelInput == accept(From("wan", {"wg"})) \o SpoofDrop("wg0", WgNetwork) \o accept(From("wg0", {"https", "ssh", "dns"}))

LEMMA TunnelInputIs ==
    ASSUME NEW p \in Packets
    PROVE  /\ TunnelInput \in Chains
           /\ Hits(TunnelInput, p) <=>
                \/ p.iif = "wan" /\ p.dport = "wg"
                \/ p.iif = "wg0" /\ (p.src \notin WgNetwork \/ p.dport \in {"https", "ssh", "dns"})
           /\ Accepts(TunnelInput, p) <=>
                \/ p.iif = "wan" /\ p.dport = "wg"
                \/ p.iif = "wg0" /\ p.src \in WgNetwork /\ p.dport \in {"https", "ssh", "dns"}
<1> DEFINE a == accept(From("wan", {"wg"}))
           b == SpoofDrop("wg0", WgNetwork)
           d == accept(From("wg0", {"https", "ssh", "dns"}))
<1>0. /\ "wan" \in Interfaces /\ "wg0" \in Interfaces
      /\ {"wg"} \in SUBSET Ports /\ {"https", "ssh", "dns"} \in SUBSET Ports
  BY Values, PortSets
<1>1. a \in Chains /\ (Hits(a, p) <=> p.iif = "wan" /\ p.dport = "wg") /\ (Accepts(a, p) <=> p.iif = "wan" /\ p.dport = "wg")
  BY <1>0, AcceptFromIs
<1>2. b \in Chains /\ (Hits(b, p) <=> p.iif = "wg0" /\ p.src \notin WgNetwork) /\ ~Accepts(b, p)
  BY <1>0, SpoofIs
<1>3. /\ d \in Chains /\ (Hits(d, p) <=> p.iif = "wg0" /\ p.dport \in {"https", "ssh", "dns"})
      /\ Accepts(d, p) <=> p.iif = "wg0" /\ p.dport \in {"https", "ssh", "dns"}
  BY <1>0, AcceptFromIs, SMT
<1>4. TunnelInput = (a \o b) \o d
  BY DEF TunnelInput
<1> HIDE DEF a, b, d
<1>5. a \o b \in Chains /\ (Hits(a \o b, p) <=> Hits(a, p) \/ Hits(b, p)) /\ (Accepts(a \o b, p) <=> Accepts(a, p))
  BY <1>1, <1>2, InARow
<1>6. /\ (a \o b) \o d \in Chains /\ (Hits((a \o b) \o d, p) <=> Hits(a \o b, p) \/ Hits(d, p))
      /\ Accepts((a \o b) \o d, p) <=> Accepts(a \o b, p) \/ (~Hits(a \o b, p) /\ Accepts(d, p))
  BY ZenonT(30), <1>3, <1>5, InARow
<1> QED
  BY <1>1, <1>2, <1>3, <1>4, <1>5, <1>6

\* Where a custom rule decides.
CustomHit(c, p, direction, action) ==
    \E rule \in c.rules :
        /\ rule.direction = direction /\ rule.action = action
        /\ direction = "forward" /\ firewall_rule_scope(rule) = "wan" => c.wan /\ p.oif = "wan"
        /\ p.iif = "lan" /\ rule.source \in {"any", p.src} /\ rule.service \in {"any", p.dport}

LEMMA CustomIs ==
    ASSUME NEW c \in Configs, NEW p \in Packets,
           NEW direction \in {"input", "forward"}, NEW action \in {"allow", "deny"}
    PROVE  Decides(write_custom_rules(c, direction, action), p, CustomHit(c, p, direction, action),
                   action = "allow" /\ CustomHit(c, p, direction, action))
<1> DEFINE emitted == {rule \in c.rules :
                         /\ rule.direction = direction /\ rule.action = action
                         /\ direction = "forward" /\ firewall_rule_scope(rule) = "wan" => c.wan}
           r == CHOOSE rule \in emitted : TRUE
           m == RuleMatch(r, direction)
<1>1. c.rules = {} \/ \E rule \in Rules : c.rules = {rule}
  BY DEF Configs
<1>2. write_custom_rules(c, direction, action) =
        IF emitted = {} THEN <<>> ELSE IF action = "allow" THEN accept(m) ELSE drop(m)
  BY DEF write_custom_rules
<1>3. CASE emitted = {}
  <2>1. ~CustomHit(c, p, direction, action)
    BY <1>3 DEF CustomHit
  <2> QED
    BY <1>2, <1>3, <2>1, NoRules DEF Decides
<1>4. CASE emitted # {}
  <2>1. r \in emitted
    BY <1>4
  <2>2. c.rules = {r} /\ r \in CustomRules
    BY <1>1, <2>1, FirewallAssumption
  <2>3. /\ r.direction = direction /\ r.action = action
        /\ direction = "forward" /\ firewall_rule_scope(r) = "wan" => c.wan
    BY <2>1
  <2> HIDE DEF r, emitted
  <2>4. /\ r.source \in Hosts \union {"any"} /\ r.service \in Services \union {"any"}
        /\ "lan" \in Interfaces /\ "wan" \in Interfaces /\ Services \subseteq Ports
        /\ "any" \notin Hosts /\ "any" \notin Ports
    BY <2>2, SMT DEF CustomRules, Interfaces, Hosts, Services, Ports
  <2> DEFINE S == IF r.source = "any" THEN Hosts ELSE {r.source}
             P == IF r.service = "any" THEN Ports ELSE {r.service}
             O == IF direction = "forward" /\ firewall_rule_scope(r) = "wan" THEN {"wan"} ELSE Interfaces
  <2>5. S \in SUBSET Hosts /\ P \in SUBSET Ports /\ O \in SUBSET Interfaces
    BY <2>4
  <2>6. m = [AnyPacket EXCEPT !.iif = {"lan"}, !.src = S, !.dport = P, !.oif = O]
    BY DEF RuleMatch
  <2>7. /\ p.src \in S <=> r.source \in {"any", p.src}
        /\ p.dport \in P <=> r.service \in {"any", p.dport}
        /\ p.oif \in O <=> (direction = "forward" /\ firewall_rule_scope(r) = "wan" => p.oif = "wan")
    BY <2>4, PacketIs
  <2> HIDE DEF S, P, O, m
  <2>8. m \in MatchSets /\ (Matches(m, p) <=> p.iif = "lan" /\ p.src \in S /\ p.dport \in P /\ p.oif \in O)
    BY <2>4, <2>5, <2>6 DEF AnyPacket, MatchSets, Packets, Matches
  <2>9. Matches(m, p) <=> CustomHit(c, p, direction, action)
    BY <2>2, <2>3, <2>7, <2>8 DEF CustomHit
  <2>10. CASE action = "allow"
    BY <1>2, <1>4, <2>8, <2>9, <2>10, AcceptIs DEF Decides
  <2>11. CASE action # "allow"
    BY <1>2, <1>4, <2>8, <2>9, <2>11, DropIs DEF Decides
  <2> QED
    BY <2>10, <2>11
<1> QED
  BY <1>3, <1>4

\* Several chains in a row.
LEMMA ThreeInARow ==
    ASSUME NEW s \in Chains, NEW t \in Chains, NEW u \in Chains, NEW packet
    PROVE  /\ s \o t \o u \in Chains
           /\ Hits(s \o t \o u, packet) <=> Hits(s, packet) \/ Hits(t, packet) \/ Hits(u, packet)
           /\ Accepts(s \o t \o u, packet) <=>
                Accepts(s, packet) \/ (~Hits(s, packet) /\ (Accepts(t, packet) \/
                                       (~Hits(t, packet) /\ Accepts(u, packet))))
<1> DEFINE a == s \o t
<1>1. /\ a \in Chains /\ (Hits(a, packet) <=> Hits(s, packet) \/ Hits(t, packet))
      /\ Accepts(a, packet) <=> Accepts(s, packet) \/ (~Hits(s, packet) /\ Accepts(t, packet))
  BY InARow
<1> HIDE DEF a
<1>2. /\ a \o u \in Chains /\ (Hits(a \o u, packet) <=> Hits(a, packet) \/ Hits(u, packet))
      /\ Accepts(a \o u, packet) <=> Accepts(a, packet) \/ (~Hits(a, packet) /\ Accepts(u, packet))
  BY <1>1, InARow
<1>3. /\ Hits(a \o u, packet) <=> Hits(s, packet) \/ Hits(t, packet) \/ Hits(u, packet)
      /\ Accepts(a \o u, packet) <=>
           Accepts(s, packet) \/ (~Hits(s, packet) /\ (Accepts(t, packet) \/
                                  (~Hits(t, packet) /\ Accepts(u, packet))))
  BY <1>1, <1>2
<1> QED
  BY <1>2, <1>3 DEF a

LEMMA FourInARow ==
    ASSUME NEW s \in Chains, NEW t \in Chains, NEW u \in Chains, NEW v \in Chains, NEW packet
    PROVE  /\ s \o t \o u \o v \in Chains
           /\ Hits(s \o t \o u \o v, packet) <=>
                Hits(s, packet) \/ Hits(t, packet) \/ Hits(u, packet) \/ Hits(v, packet)
           /\ Accepts(s \o t \o u \o v, packet) <=>
                Accepts(s, packet) \/ (~Hits(s, packet) /\ (Accepts(t, packet) \/
                  (~Hits(t, packet) /\ (Accepts(u, packet) \/ (~Hits(u, packet) /\ Accepts(v, packet))))))
<1> DEFINE b == s \o t \o u
<1>1. /\ b \in Chains /\ (Hits(b, packet) <=> Hits(s, packet) \/ Hits(t, packet) \/ Hits(u, packet))
      /\ Accepts(b, packet) <=>
           Accepts(s, packet) \/ (~Hits(s, packet) /\ (Accepts(t, packet) \/
                                  (~Hits(t, packet) /\ Accepts(u, packet))))
  BY ThreeInARow
<1> HIDE DEF b
<1>2. /\ b \o v \in Chains /\ (Hits(b \o v, packet) <=> Hits(b, packet) \/ Hits(v, packet))
      /\ Accepts(b \o v, packet) <=> Accepts(b, packet) \/ (~Hits(b, packet) /\ Accepts(v, packet))
  BY ZenonT(30), <1>1, InARow
<1>3. /\ Hits(b \o v, packet) <=> Hits(s, packet) \/ Hits(t, packet) \/ Hits(u, packet) \/ Hits(v, packet)
      /\ Accepts(b \o v, packet) <=>
           Accepts(s, packet) \/ (~Hits(s, packet) /\ (Accepts(t, packet) \/
             (~Hits(t, packet) /\ (Accepts(u, packet) \/ (~Hits(u, packet) /\ Accepts(v, packet))))))
  BY <1>1, <1>2
<1> QED
  BY <1>2, <1>3 DEF b

LEMMA NewDropIs ==
    ASSUME NEW i \in Interfaces, NEW p \in Packets
    PROVE  LET s == drop([From(i, Ports) EXCEPT !.ct = {"new"}])
           IN  s \in Chains /\ ~Accepts(s, p) /\ (Hits(s, p) <=> p.iif = i /\ p.ct = "new")
<1> DEFINE m == [From(i, Ports) EXCEPT !.ct = {"new"}]
<1>1. m \in MatchSets /\ (Matches(m, p) <=> p.iif = i /\ p.ct = "new")
  BY FromNewIs
<1> HIDE DEF m
<1>2. drop(m) \in Chains /\ ~Accepts(drop(m), p) /\ (Hits(drop(m), p) <=> p.iif = i /\ p.ct = "new")
  BY <1>1, DropIs
<1> QED
  BY <1>2 DEF m

LEMMA WgClientInputIs ==
    ASSUME NEW c \in Configs, NEW p \in Packets
    PROVE  LET s == write_wg_client_input_rules(c)
           IN  /\ s \in Chains /\ ~Accepts(s, p)
               /\ Hits(s, p) <=> c.wgc /\ p.iif = "wg1" /\ (p.src # "t" \/ p.ct = "new")
<1> DEFINE a == SpoofDrop("wg1", {"t"})
           b == drop([From("wg1", Ports) EXCEPT !.ct = {"new"}])
<1>0. "wg1" \in Interfaces
  BY Values
<1>1. a \in Chains /\ ~Accepts(a, p) /\ (Hits(a, p) <=> p.iif = "wg1" /\ p.src # "t")
  BY <1>0, SpoofIs
<1>2. b \in Chains /\ ~Accepts(b, p) /\ (Hits(b, p) <=> p.iif = "wg1" /\ p.ct = "new")
  BY <1>0, NewDropIs
<1>3. write_wg_client_input_rules(c) = IF c.wgc THEN a \o b ELSE <<>>
  BY DEF write_wg_client_input_rules, When, SpoofDrop
<1> HIDE DEF a, b
<1>4. a \o b \in Chains /\ ~Accepts(a \o b, p) /\ (Hits(a \o b, p) <=> Hits(a, p) \/ Hits(b, p))
  BY ZenonT(30), <1>1, <1>2, InARow
<1> QED
  BY <1>1, <1>2, <1>3, <1>4, NoRules

LEMMA ExtraLanInputIs ==
    ASSUME NEW c \in Configs, NEW p \in Packets
    PROVE  LET s == write_extra_lan_input_rules(c)
           IN  /\ s \in Chains
               /\ Hits(s, p) <=> c.segment # "none" /\ p.iif = "seg" /\ (p.src # "s" \/ p.dport = "ping")
               /\ Accepts(s, p) <=> c.segment # "none" /\ p.iif = "seg" /\ p.src = "s" /\ p.dport = "ping"
<1> DEFINE a == SpoofDrop("seg", {"s"})
           b == accept(From("seg", {"ping"}))
<1>0. "seg" \in Interfaces /\ {"ping"} \in SUBSET Ports
  BY Values, PortSets
<1>1. a \in Chains /\ ~Accepts(a, p) /\ (Hits(a, p) <=> p.iif = "seg" /\ p.src # "s")
  BY <1>0, SpoofIs
<1>2. /\ b \in Chains /\ (Accepts(b, p) <=> p.iif = "seg" /\ p.dport = "ping")
      /\ Hits(b, p) <=> p.iif = "seg" /\ p.dport = "ping"
  BY <1>0, AcceptFromIs
<1>3. write_extra_lan_input_rules(c) = IF c.segment # "none" THEN a \o b ELSE <<>>
  BY DEF write_extra_lan_input_rules, When, SpoofDrop
<1> HIDE DEF a, b
<1>4. /\ a \o b \in Chains /\ (Hits(a \o b, p) <=> Hits(a, p) \/ Hits(b, p))
      /\ Accepts(a \o b, p) <=> Accepts(a, p) \/ (~Hits(a, p) /\ Accepts(b, p))
  BY ZenonT(30), <1>1, <1>2, InARow
<1> QED
  BY <1>1, <1>2, <1>3, <1>4, NoRules

-----------------------------------------------------------------------------
\* What the chains accept.
WanSpoof(p) == p.iif = "wan" /\ (p.src \notin Public \/ p.fib = "missing")
LanSpoof(p) == p.iif = "lan" /\ p.src \notin LanHosts

LanServices(c) ==
    {"dns", "dhcp", "ping"} \union (IF c.squid THEN {"proxy"} ELSE {})
    \union (IF c.only THEN {} ELSE {"https", "ssh"})

InputAdmits(c, p) ==
    \/ c.wg /\ c.peer /\ p.iif = "wan" /\ p.dport = "wg" /\ p.src = "p"
    \/ /\ ~WanSpoof(p) /\ ~LanSpoof(p) /\ ~CustomHit(c, p, "input", "deny")
       /\ \/ p.ct = "established"
          \/ c.wg /\ p.iif = "wan" /\ p.dport = "wg"
          \/ c.wg /\ p.iif = "wg0" /\ p.src \in WgNetwork /\ p.dport \in {"https", "ssh", "dns"}
          \/ p.iif = "lan" /\ p.dport \in LanServices(c)
          \/ c.segment # "none" /\ p.iif = "seg" /\ p.src = "s" /\ p.dport = "ping"
          \/ CustomHit(c, p, "input", "allow")

LEMMA CustomIsLan ==
    ASSUME NEW c, NEW p, NEW direction, NEW action, CustomHit(c, p, direction, action)
    PROVE  p.iif = "lan"
  BY DEF CustomHit

\* The services of the LAN side, one rule after the other.
LEMMA LanServicesAre ==
    ASSUME NEW c \in Configs, NEW p \in Packets
    PROVE  LET x == When(c.squid, accept(From("lan", {"proxy"})))
               y == When(~c.only, accept(From("lan", {"https", "ssh"})))
               z == accept(From("lan", {"dns", "dhcp", "ping"}))
           IN  /\ x \in Chains /\ y \in Chains /\ z \in Chains
               /\ Hits(x, p) <=> Accepts(x, p)
               /\ Hits(y, p) <=> Accepts(y, p)
               /\ Hits(z, p) <=> Accepts(z, p)
               /\ Accepts(x, p) \/ Accepts(y, p) \/ Accepts(z, p) <=> p.iif = "lan" /\ p.dport \in LanServices(c)
<1> DEFINE x == When(c.squid, accept(From("lan", {"proxy"})))
           y == When(~c.only, accept(From("lan", {"https", "ssh"})))
           z == accept(From("lan", {"dns", "dhcp", "ping"}))
           a == accept(From("lan", {"proxy"}))
           b == accept(From("lan", {"https", "ssh"}))
<1>0. /\ "lan" \in Interfaces /\ {"proxy"} \in SUBSET Ports
      /\ {"https", "ssh"} \in SUBSET Ports /\ {"dns", "dhcp", "ping"} \in SUBSET Ports
  BY Values, PortSets
<1>1. /\ a \in Chains /\ (Hits(a, p) <=> p.iif = "lan" /\ p.dport \in {"proxy"})
      /\ Accepts(a, p) <=> p.iif = "lan" /\ p.dport \in {"proxy"}
  BY <1>0, AcceptFromIs
<1>2. /\ b \in Chains /\ (Hits(b, p) <=> p.iif = "lan" /\ p.dport \in {"https", "ssh"})
      /\ Accepts(b, p) <=> p.iif = "lan" /\ p.dport \in {"https", "ssh"}
  BY <1>0, AcceptFromIs, SMT
<1>3. /\ z \in Chains /\ (Hits(z, p) <=> p.iif = "lan" /\ p.dport \in {"dns", "dhcp", "ping"})
      /\ Accepts(z, p) <=> p.iif = "lan" /\ p.dport \in {"dns", "dhcp", "ping"}
  BY <1>0, AcceptFromIs, SMT
<1>4. x = IF c.squid THEN a ELSE <<>>
  BY DEF When
<1>5. y = IF ~c.only THEN b ELSE <<>>
  BY DEF When
<1>6. p.dport \in LanServices(c) <=>
        \/ p.dport \in {"dns", "dhcp", "ping"} \/ (c.squid /\ p.dport \in {"proxy"})
        \/ (~c.only /\ p.dport \in {"https", "ssh"})
  BY DEF LanServices
<1> HIDE DEF x, y, z, a, b
<1>7. /\ x \in Chains /\ (Hits(x, p) <=> c.squid /\ p.iif = "lan" /\ p.dport \in {"proxy"})
      /\ Accepts(x, p) <=> c.squid /\ p.iif = "lan" /\ p.dport \in {"proxy"}
  BY <1>1, <1>4, NoRules
<1>8. /\ y \in Chains /\ (Hits(y, p) <=> ~c.only /\ p.iif = "lan" /\ p.dport \in {"https", "ssh"})
      /\ Accepts(y, p) <=> ~c.only /\ p.iif = "lan" /\ p.dport \in {"https", "ssh"}
  BY <1>2, <1>5, NoRules
<1>9. /\ x \in Chains /\ y \in Chains /\ z \in Chains
      /\ Hits(x, p) <=> Accepts(x, p)
      /\ Hits(y, p) <=> Accepts(y, p)
      /\ Hits(z, p) <=> Accepts(z, p)
      /\ Accepts(x, p) \/ Accepts(y, p) \/ Accepts(z, p) <=> p.iif = "lan" /\ p.dport \in LanServices(c)
  BY <1>3, <1>6, <1>7, <1>8
<1> QED
  BY <1>9 DEF x, y, z

\* The input chain.
LEMMA InputIs ==
    ASSUME NEW c \in Configs, NEW p \in Packets
    PROVE  InputChain(c) \in Chains /\ (Accepts(InputChain(c), p) <=> InputAdmits(c, p))
<1> DEFINE s1 == write_known_wg_peer_endpoint_input_rules(c)
           s2 == write_wan_antispoof
           s3 == SpoofDrop("lan", LanHosts)
           s4 == write_custom_rules(c, "input", "deny")
           s5 == accept(Established)
           s6 == When(c.wg, TunnelInput)
           s7 == write_wg_client_input_rules(c)
           s8 == When(c.squid, accept(From("lan", {"proxy"})))
           s9 == When(~c.only, accept(From("lan", {"https", "ssh"})))
           s10 == accept(From("lan", {"dns", "dhcp", "ping"}))
           s11 == write_extra_lan_input_rules(c)
           s12 == write_custom_rules(c, "input", "allow")
           t1 == s1 \o s2 \o s3 \o s4
           t2 == t1 \o s5 \o s6 \o s7
           t3 == t2 \o s8 \o s9 \o s10
           t4 == t3 \o s11 \o s12
           known1 == c.wg /\ c.peer /\ p.iif = "wan" /\ p.dport = "wg" /\ p.src = "p"
<1>0. InputChain(c) = t4
  BY DEF InputChain, TunnelInput, SpoofDrop
<1>1. s1 \in Chains /\ (Hits(s1, p) <=> known1) /\ (Accepts(s1, p) <=> known1)
  BY KnownPeerIs
<1>2. s2 \in Chains /\ (Hits(s2, p) <=> WanSpoof(p)) /\ ~Accepts(s2, p)
  BY AntispoofIs DEF WanSpoof
<1>3. s3 \in Chains /\ (Hits(s3, p) <=> LanSpoof(p)) /\ ~Accepts(s3, p)
  BY Values, SpoofIs DEF LanSpoof
<1>4. s4 \in Chains /\ (Hits(s4, p) <=> CustomHit(c, p, "input", "deny")) /\ ~Accepts(s4, p)
  BY CustomIs DEF Decides
<1>5. s5 \in Chains /\ (Hits(s5, p) <=> p.ct = "established") /\ (Accepts(s5, p) <=> p.ct = "established")
  BY EstablishedIs
<1>6. /\ s6 \in Chains
      /\ Hits(s6, p) <=>
           c.wg /\ (\/ p.iif = "wan" /\ p.dport = "wg"
                    \/ p.iif = "wg0" /\ (p.src \notin WgNetwork \/ p.dport \in {"https", "ssh", "dns"}))
      /\ Accepts(s6, p) <=>
           c.wg /\ (\/ p.iif = "wan" /\ p.dport = "wg"
                    \/ p.iif = "wg0" /\ p.src \in WgNetwork /\ p.dport \in {"https", "ssh", "dns"})
  BY TunnelInputIs, NoRules DEF When
<1>7. s7 \in Chains /\ ~Accepts(s7, p) /\ (Hits(s7, p) <=> c.wgc /\ p.iif = "wg1" /\ (p.src # "t" \/ p.ct = "new"))
  BY WgClientInputIs
<1>8. /\ s8 \in Chains /\ s9 \in Chains /\ s10 \in Chains
      /\ Hits(s8, p) <=> Accepts(s8, p)
      /\ Hits(s9, p) <=> Accepts(s9, p)
      /\ Hits(s10, p) <=> Accepts(s10, p)
      /\ Accepts(s8, p) \/ Accepts(s9, p) \/ Accepts(s10, p) <=> p.iif = "lan" /\ p.dport \in LanServices(c)
  BY LanServicesAre
<1>9. /\ s11 \in Chains
      /\ Hits(s11, p) <=> c.segment # "none" /\ p.iif = "seg" /\ (p.src # "s" \/ p.dport = "ping")
      /\ Accepts(s11, p) <=> c.segment # "none" /\ p.iif = "seg" /\ p.src = "s" /\ p.dport = "ping"
  BY ExtraLanInputIs
<1>10. /\ s12 \in Chains /\ (Hits(s12, p) <=> CustomHit(c, p, "input", "allow"))
       /\ Accepts(s12, p) <=> CustomHit(c, p, "input", "allow")
  BY CustomIs DEF Decides
<1> HIDE DEF s1, s2, s3, s4, s5, s6, s7, s8, s9, s10, s11, s12
<1>11. /\ t1 \in Chains
       /\ Hits(t1, p) <=> Hits(s1, p) \/ Hits(s2, p) \/ Hits(s3, p) \/ Hits(s4, p)
       /\ Accepts(t1, p) <=>
            Accepts(s1, p) \/ (~Hits(s1, p) /\ (Accepts(s2, p) \/
              (~Hits(s2, p) /\ (Accepts(s3, p) \/ (~Hits(s3, p) /\ Accepts(s4, p))))))
  <2>1. s1 \in Chains /\ s2 \in Chains /\ s3 \in Chains /\ s4 \in Chains
    BY <1>1, <1>2, <1>3, <1>4
  <2> QED
    BY <2>1, FourInARow, SMT
<1> HIDE DEF t1
<1>12. /\ t2 \in Chains
       /\ Hits(t2, p) <=> Hits(t1, p) \/ Hits(s5, p) \/ Hits(s6, p) \/ Hits(s7, p)
       /\ Accepts(t2, p) <=>
            Accepts(t1, p) \/ (~Hits(t1, p) /\ (Accepts(s5, p) \/
              (~Hits(s5, p) /\ (Accepts(s6, p) \/ (~Hits(s6, p) /\ Accepts(s7, p))))))
  <2>1. t1 \in Chains /\ s5 \in Chains /\ s6 \in Chains /\ s7 \in Chains
    BY <1>5, <1>6, <1>7, <1>11
  <2> QED
    BY <2>1, FourInARow, SMT
<1> HIDE DEF t2
<1>13. /\ t3 \in Chains
       /\ Hits(t3, p) <=> Hits(t2, p) \/ Hits(s8, p) \/ Hits(s9, p) \/ Hits(s10, p)
       /\ Accepts(t3, p) <=>
            Accepts(t2, p) \/ (~Hits(t2, p) /\ (Accepts(s8, p) \/
              (~Hits(s8, p) /\ (Accepts(s9, p) \/ (~Hits(s9, p) /\ Accepts(s10, p))))))
  <2>1. t2 \in Chains /\ s8 \in Chains /\ s9 \in Chains /\ s10 \in Chains
    BY <1>8, <1>12
  <2> QED
    BY <2>1, FourInARow, SMT
<1> HIDE DEF t3
<1>14. /\ t4 \in Chains
       /\ Accepts(t4, p) <=>
            Accepts(t3, p) \/ (~Hits(t3, p) /\ (Accepts(s11, p) \/ (~Hits(s11, p) /\ Accepts(s12, p))))
  <2>1. t3 \in Chains /\ s11 \in Chains /\ s12 \in Chains
    BY <1>9, <1>10, <1>13
  <2> QED
    BY <2>1, ThreeInARow, SMT
<1> HIDE DEF t4
<1>15. CustomHit(c, p, "input", "allow") => p.iif = "lan"
  BY CustomIsLan
<1>16. /\ Hits(t1, p) <=> known1 \/ WanSpoof(p) \/ LanSpoof(p) \/ CustomHit(c, p, "input", "deny")
       /\ Accepts(t1, p) <=> known1
  BY <1>1, <1>2, <1>3, <1>4, <1>11
<1> HIDE DEF known1
<1>17. CASE p.iif = "lan"
  BY <1>0, <1>5, <1>6, <1>7, <1>8, <1>9, <1>10, <1>12, <1>13, <1>14, <1>16, <1>17, SMTT(30) DEF InputAdmits, known1
<1>18. CASE p.iif # "lan"
  BY <1>0, <1>5, <1>6, <1>7, <1>8, <1>9, <1>10, <1>12, <1>13, <1>14, <1>15, <1>16, <1>18, SMTT(30) DEF InputAdmits, known1
<1> QED
  BY <1>17, <1>18

-----------------------------------------------------------------------------
\* The forward chain.
ProfileCut(c, isOpen, isLearned, p) ==
    c.profile /\ p.src = "d" /\ (p.dport \in {"dns", "dot"} \/ (~isOpen /\ isLearned /\ p.dst = "i"))

ForwardCut(c, isOpen, isLearned, p) ==
    \/ WanSpoof(p) \/ LanSpoof(p) \/ ProfileCut(c, isOpen, isLearned, p)
    \/ CustomHit(c, p, "forward", "deny") \/ (c.squid /\ c.restricted /\ p.src = "d")

SegmentPass(c, p) ==
    /\ c.segment # "none" /\ p.iif = extra_lan_source_interface(c) /\ p.oif = "seg"
    /\ p.src \in ExtraLanSources(c) /\ p.dst = "s" /\ p.dport = "app"

TunnelPass(c, p) == c.wg /\ p.iif = "wg0" /\ (p.oif = "lan" \/ (c.wan /\ p.oif = "wan"))

PortForwardPass(c, p) ==
    c.forward /\ p.iif = "wg0" /\ p.oif = "lan" /\ p.dst = ForwardTo /\ p.dport = "app" /\ p.ct = "new"

RemoteSitePass(c, p) == c.wgc /\ p.oif = "wg1" /\ (p.iif = "lan" \/ (c.wg /\ p.iif = "wg0"))

ForwardAdmits(c, isOpen, isLearned, p) ==
    /\ ~ForwardCut(c, isOpen, isLearned, p)
    /\ \/ p.ct = "established" \/ CustomHit(c, p, "forward", "allow") \/ SegmentPass(c, p)
       \/ (c.wan /\ p.iif = "lan" /\ p.oif = "wan") \/ TunnelPass(c, p) \/ PortForwardPass(c, p)
       \/ RemoteSitePass(c, p)

LEMMA ProfileIs ==
    ASSUME NEW c \in Configs, NEW isOpen \in BOOLEAN, NEW isLearned \in BOOLEAN, NEW p \in Packets
    PROVE  LET s == device_profiles(c, isOpen, isLearned)
           IN  s \in Chains /\ ~Accepts(s, p) /\ (Hits(s, p) <=> ProfileCut(c, isOpen, isLearned, p))
<1> DEFINE m == [AnyPacket EXCEPT !.src = {"d"}, !.dport = {"dns", "dot"}]
           n == [AnyPacket EXCEPT !.src = {"d"}, !.dst = {"i"}]
           b == IF ~isOpen /\ isLearned THEN drop(n) ELSE <<>>
<1>0. {"d"} \in SUBSET Hosts /\ {"i"} \in SUBSET Hosts /\ {"dns", "dot"} \in SUBSET Ports
  BY Values, PortSets
<1>1. m \in MatchSets /\ (Matches(m, p) <=> p.src = "d" /\ p.dport \in {"dns", "dot"})
  <2> DEFINE q == {"dns", "dot"}
  <2>1. q \in SUBSET Ports
    BY <1>0
  <2> HIDE DEF q
  <2>2. m = [AnyPacket EXCEPT !.src = {"d"}, !.dport = q]
    BY DEF q
  <2> HIDE DEF m
  <2>3. m \in MatchSets /\ (Matches(m, p) <=> p.src = "d" /\ p.dport \in q)
    BY <1>0, <2>1, <2>2 DEF AnyPacket, MatchSets, Packets, Matches
  <2> QED
    BY <2>3 DEF q
<1>2. n \in MatchSets /\ (Matches(n, p) <=> p.src = "d" /\ p.dst = "i")
  BY <1>0 DEF AnyPacket, MatchSets, Packets, Matches
<1>3. device_profiles(c, isOpen, isLearned) = IF c.profile THEN drop(m) \o b ELSE <<>>
  BY DEF device_profiles, When
<1> HIDE DEF m, n
<1>4. b \in Chains /\ ~Accepts(b, p) /\ (Hits(b, p) <=> ~isOpen /\ isLearned /\ p.src = "d" /\ p.dst = "i")
  BY <1>2, DropIs, NoRules
<1> HIDE DEF b
<1>5. drop(m) \in Chains /\ ~Accepts(drop(m), p) /\ (Hits(drop(m), p) <=> p.src = "d" /\ p.dport \in {"dns", "dot"})
  BY <1>1, DropIs
<1>6. /\ drop(m) \o b \in Chains /\ ~Accepts(drop(m) \o b, p)
      /\ Hits(drop(m) \o b, p) <=> Hits(drop(m), p) \/ Hits(b, p)
  BY <1>4, <1>5, InARow
<1> QED
  BY <1>3, <1>4, <1>5, <1>6, NoRules DEF ProfileCut

LEMMA RestrictedIs ==
    ASSUME NEW c \in Configs, NEW p \in Packets
    PROVE  LET s == When(c.squid /\ c.restricted, drop([AnyPacket EXCEPT !.src = {"d"}]))
           IN  s \in Chains /\ ~Accepts(s, p) /\ (Hits(s, p) <=> c.squid /\ c.restricted /\ p.src = "d")
<1> DEFINE m == [AnyPacket EXCEPT !.src = {"d"}]
<1>0. {"d"} \in SUBSET Hosts
  BY Values
<1>1. m \in MatchSets /\ (Matches(m, p) <=> p.src = "d")
  BY <1>0 DEF AnyPacket, MatchSets, Packets, Matches
<1> HIDE DEF m
<1>2. drop(m) \in Chains /\ ~Accepts(drop(m), p) /\ (Hits(drop(m), p) <=> p.src = "d")
  BY <1>1, DropIs
<1>3. LET s == IF c.squid /\ c.restricted THEN drop(m) ELSE <<>>
      IN  s \in Chains /\ ~Accepts(s, p) /\ (Hits(s, p) <=> c.squid /\ c.restricted /\ p.src = "d")
  BY <1>2, NoRules
<1> QED
  BY <1>3 DEF When, m

LEMMA SourcesAre ==
    ASSUME NEW c \in Configs
    PROVE  /\ extra_lan_source_interface(c) \in {"lan", "wg0"} /\ extra_lan_source_interface(c) \in Interfaces
           /\ ExtraLanSources(c) \in SUBSET Hosts
  BY Values, HostSets DEF extra_lan_source_interface, ExtraLanSources

LEMMA ExtraLanForwardIs ==
    ASSUME NEW c \in Configs, NEW p \in Packets
    PROVE  LET s == write_extra_lan_forward_rules(c)
           IN  /\ s \in Chains /\ (Accepts(s, p) <=> SegmentPass(c, p))
               /\ Hits(s, p) <=> \/ SegmentPass(c, p)
                                 \/ c.segment # "none" /\ p.iif = "seg" /\ p.src # "s"
<1> DEFINE i == extra_lan_source_interface(c)
           h == ExtraLanSources(c)
           m == [Between(i, "seg") EXCEPT !.src = h, !.dst = {"s"}, !.dport = {"app"}]
           a == SpoofDrop("seg", {"s"})
           b == accept(m)
<1>0. /\ "seg" \in Interfaces /\ {"app"} \in SUBSET Ports /\ {"s"} \in SUBSET Hosts
      /\ i \in Interfaces /\ i \in {"lan", "wg0"} /\ h \in SUBSET Hosts
  BY Values, PortSets, SourcesAre
<1>1. a \in Chains /\ ~Accepts(a, p) /\ (Hits(a, p) <=> p.iif = "seg" /\ p.src # "s")
  BY <1>0, SpoofIs
<1>2. write_extra_lan_forward_rules(c) = IF c.segment # "none" THEN a \o b ELSE <<>>
  BY DEF write_extra_lan_forward_rules, When, SpoofDrop
<1>3. SegmentPass(c, p) <=>
        c.segment # "none" /\ p.iif = i /\ p.oif = "seg" /\ p.src \in h /\ p.dst = "s" /\ p.dport = "app"
  BY DEF SegmentPass
<1> HIDE DEF i, h
<1>4. m \in MatchSets /\ (Matches(m, p) <=>
        p.iif = i /\ p.oif = "seg" /\ p.src \in h /\ p.dst = "s" /\ p.dport = "app")
  BY <1>0 DEF Between, AnyPacket, MatchSets, Packets, Matches
<1> HIDE DEF m
<1>5. b \in Chains /\ (Hits(b, p) <=> Matches(m, p)) /\ (Accepts(b, p) <=> Matches(m, p))
  BY <1>4, AcceptIs
<1> HIDE DEF a, b
<1>6. /\ a \o b \in Chains /\ (Hits(a \o b, p) <=> Hits(a, p) \/ Hits(b, p))
      /\ Accepts(a \o b, p) <=> Accepts(a, p) \/ (~Hits(a, p) /\ Accepts(b, p))
  BY ZenonT(30), <1>1, <1>5, InARow
<1>7. i # "seg"
  BY <1>0
<1> QED
  BY <1>1, <1>2, <1>3, <1>4, <1>5, <1>6, <1>7, NoRules

LEMMA LanForwardIs ==
    ASSUME NEW c \in Configs, NEW p \in Packets
    PROVE  LET s == When(c.wan, accept(Between("lan", "wan")))
           IN  /\ s \in Chains /\ (Hits(s, p) <=> Accepts(s, p))
               /\ Accepts(s, p) <=> c.wan /\ p.iif = "lan" /\ p.oif = "wan"
<1>0. "lan" \in Interfaces /\ "wan" \in Interfaces
  BY Values
<1> DEFINE a == accept(Between("lan", "wan"))
<1>1. /\ a \in Chains /\ (Hits(a, p) <=> p.iif = "lan" /\ p.oif = "wan")
      /\ Accepts(a, p) <=> p.iif = "lan" /\ p.oif = "wan"
  BY <1>0, AcceptBetweenIs
<1> HIDE DEF a
<1>2. LET s == IF c.wan THEN a ELSE <<>>
      IN  /\ s \in Chains /\ (Hits(s, p) <=> Accepts(s, p))
          /\ Accepts(s, p) <=> c.wan /\ p.iif = "lan" /\ p.oif = "wan"
  BY <1>1, NoRules
<1> QED
  BY <1>2 DEF When, a

LEMMA TunnelForwardIs ==
    ASSUME NEW c \in Configs, NEW p \in Packets
    PROVE  LET s == When(c.wg, accept(Between("wg0", "lan")) \o When(c.wan, accept(Between("wg0", "wan"))))
           IN  s \in Chains /\ (Hits(s, p) <=> Accepts(s, p)) /\ (Accepts(s, p) <=> TunnelPass(c, p))
<1>0. "lan" \in Interfaces /\ "wan" \in Interfaces /\ "wg0" \in Interfaces
  BY Values
<1> DEFINE a == accept(Between("wg0", "lan"))
           b == accept(Between("wg0", "wan"))
           d == IF c.wan THEN b ELSE <<>>
<1>1. /\ a \in Chains /\ (Hits(a, p) <=> p.iif = "wg0" /\ p.oif = "lan")
      /\ Accepts(a, p) <=> p.iif = "wg0" /\ p.oif = "lan"
  BY <1>0, AcceptBetweenIs
<1>2. /\ b \in Chains /\ (Hits(b, p) <=> p.iif = "wg0" /\ p.oif = "wan")
      /\ Accepts(b, p) <=> p.iif = "wg0" /\ p.oif = "wan"
  BY <1>0, AcceptBetweenIs
<1> HIDE DEF a, b
<1>3. /\ d \in Chains /\ (Hits(d, p) <=> c.wan /\ p.iif = "wg0" /\ p.oif = "wan")
      /\ Accepts(d, p) <=> c.wan /\ p.iif = "wg0" /\ p.oif = "wan"
  BY <1>2, NoRules
<1> HIDE DEF d
<1>4. /\ a \o d \in Chains /\ (Hits(a \o d, p) <=> Hits(a, p) \/ Hits(d, p))
      /\ Accepts(a \o d, p) <=> Accepts(a, p) \/ (~Hits(a, p) /\ Accepts(d, p))
  BY <1>1, <1>3, InARow
<1>5. LET s == IF c.wg THEN a \o d ELSE <<>>
      IN  s \in Chains /\ (Hits(s, p) <=> Accepts(s, p)) /\ (Accepts(s, p) <=> TunnelPass(c, p))
  BY <1>1, <1>3, <1>4, NoRules DEF TunnelPass
<1> QED
  BY <1>5 DEF When, a, b, d

LEMMA PortForwardIs ==
    ASSUME NEW c \in Configs, NEW p \in Packets
    PROVE  LET s == write_tunnel_port_forward_forward(c)
           IN  s \in Chains /\ (Hits(s, p) <=> Accepts(s, p)) /\ (Accepts(s, p) <=> PortForwardPass(c, p))
<1> DEFINE m == [Between("wg0", "lan") EXCEPT !.dst = {ForwardTo}, !.dport = {"app"}, !.ct = {"new"}]
<1>0. /\ "lan" \in Interfaces /\ "wg0" \in Interfaces /\ {"app"} \in SUBSET Ports
      /\ {ForwardTo} \in SUBSET Hosts /\ {"new"} \in SUBSET {"new", "established"}
  BY Values, PortSets DEF ForwardTo
<1>1. m \in MatchSets /\ (Matches(m, p) <=>
        p.iif = "wg0" /\ p.oif = "lan" /\ p.dst = ForwardTo /\ p.dport = "app" /\ p.ct = "new")
  BY <1>0 DEF Between, AnyPacket, MatchSets, Packets, Matches
<1>2. write_tunnel_port_forward_forward(c) = IF c.forward THEN accept(m) ELSE <<>>
  BY DEF write_tunnel_port_forward_forward, When
<1> HIDE DEF m
<1>3. accept(m) \in Chains /\ (Hits(accept(m), p) <=> Matches(m, p)) /\ (Accepts(accept(m), p) <=> Matches(m, p))
  BY <1>1, AcceptIs
<1> QED
  BY <1>1, <1>2, <1>3, NoRules DEF PortForwardPass

LEMMA RemoteSiteIs ==
    ASSUME NEW c \in Configs, NEW p \in Packets
    PROVE  LET s == write_wg_client_forward_rules(c)
           IN  s \in Chains /\ (Accepts(s, p) <=> RemoteSitePass(c, p))
<1>0. "lan" \in Interfaces /\ "wg1" \in Interfaces /\ "wg0" \in Interfaces
  BY Values
<1> DEFINE a == accept(Between("lan", "wg1"))
           b == accept(Between("wg0", "wg1"))
           d == IF c.wg THEN b ELSE <<>>
           e == drop([From("wg1", Ports) EXCEPT !.ct = {"new"}])
           all == a \o d \o e
<1>1. /\ a \in Chains /\ (Hits(a, p) <=> p.iif = "lan" /\ p.oif = "wg1")
      /\ Accepts(a, p) <=> p.iif = "lan" /\ p.oif = "wg1"
  BY <1>0, AcceptBetweenIs
<1>2. /\ b \in Chains /\ (Hits(b, p) <=> p.iif = "wg0" /\ p.oif = "wg1")
      /\ Accepts(b, p) <=> p.iif = "wg0" /\ p.oif = "wg1"
  BY <1>0, AcceptBetweenIs
<1>3. e \in Chains /\ ~Accepts(e, p)
  BY <1>0, NewDropIs
<1>4. write_wg_client_forward_rules(c) = IF c.wgc THEN all ELSE <<>>
  BY DEF write_wg_client_forward_rules, When
<1> HIDE DEF a, b, e
<1>5. /\ d \in Chains /\ (Hits(d, p) <=> c.wg /\ p.iif = "wg0" /\ p.oif = "wg1")
      /\ Accepts(d, p) <=> c.wg /\ p.iif = "wg0" /\ p.oif = "wg1"
  BY <1>2, NoRules
<1> HIDE DEF d
<1>6. /\ all \in Chains
      /\ Accepts(all, p) <=> Accepts(a, p) \/ (~Hits(a, p) /\ (Accepts(d, p) \/ (~Hits(d, p) /\ Accepts(e, p))))
  <2>1. a \in Chains /\ d \in Chains /\ e \in Chains
    BY <1>1, <1>3, <1>5
  <2> QED
    BY <2>1, ThreeInARow, SMT
<1> HIDE DEF all
<1> QED
  BY <1>1, <1>3, <1>4, <1>5, <1>6, NoRules DEF RemoteSitePass

LEMMA ForwardIs ==
    ASSUME NEW c \in Configs, NEW isOpen \in BOOLEAN, NEW isLearned \in BOOLEAN, NEW p \in Packets
    PROVE  LET s == ForwardChain(c, isOpen, isLearned)
           IN  s \in Chains /\ (Accepts(s, p) <=> ForwardAdmits(c, isOpen, isLearned, p))
<1> DEFINE s1 == write_wan_antispoof
           s2 == SpoofDrop("lan", LanHosts)
           s3 == device_profiles(c, isOpen, isLearned)
           s4 == write_custom_rules(c, "forward", "deny")
           s5 == When(c.squid /\ c.restricted, drop([AnyPacket EXCEPT !.src = {"d"}]))
           s6 == accept(Established)
           s7 == write_custom_rules(c, "forward", "allow")
           s8 == write_extra_lan_forward_rules(c)
           s9 == When(c.wan, accept(Between("lan", "wan")))
           s10 == When(c.wg, accept(Between("wg0", "lan")) \o When(c.wan, accept(Between("wg0", "wan"))))
           s11 == write_tunnel_port_forward_forward(c)
           s12 == write_wg_client_forward_rules(c)
           t1 == s1 \o s2 \o s3 \o s4
           t2 == t1 \o s5 \o s6 \o s7
           t3 == t2 \o s8 \o s9 \o s10
           t4 == t3 \o s11 \o s12
           customAllow == CustomHit(c, p, "forward", "allow")
<1>0. ForwardChain(c, isOpen, isLearned) = t4
  BY DEF ForwardChain, SpoofDrop
<1>1. s1 \in Chains /\ (Hits(s1, p) <=> WanSpoof(p)) /\ ~Accepts(s1, p)
  BY AntispoofIs DEF WanSpoof
<1>2. s2 \in Chains /\ (Hits(s2, p) <=> LanSpoof(p)) /\ ~Accepts(s2, p)
  BY Values, SpoofIs DEF LanSpoof
<1>3. s3 \in Chains /\ ~Accepts(s3, p) /\ (Hits(s3, p) <=> ProfileCut(c, isOpen, isLearned, p))
  BY ProfileIs
<1>4. s4 \in Chains /\ (Hits(s4, p) <=> CustomHit(c, p, "forward", "deny")) /\ ~Accepts(s4, p)
  BY CustomIs DEF Decides
<1>5. s5 \in Chains /\ ~Accepts(s5, p) /\ (Hits(s5, p) <=> c.squid /\ c.restricted /\ p.src = "d")
  BY RestrictedIs
<1>6. s6 \in Chains /\ (Hits(s6, p) <=> p.ct = "established") /\ (Accepts(s6, p) <=> p.ct = "established")
  BY EstablishedIs
<1>7. s7 \in Chains /\ (Hits(s7, p) <=> customAllow) /\ (Accepts(s7, p) <=> customAllow)
  BY CustomIs DEF Decides
<1>8. /\ s8 \in Chains /\ (Accepts(s8, p) <=> SegmentPass(c, p))
      /\ Hits(s8, p) <=> SegmentPass(c, p) \/ (c.segment # "none" /\ p.iif = "seg" /\ p.src # "s")
  BY ExtraLanForwardIs
<1>9. s9 \in Chains /\ (Hits(s9, p) <=> Accepts(s9, p)) /\ (Accepts(s9, p) <=> c.wan /\ p.iif = "lan" /\ p.oif = "wan")
  BY LanForwardIs
<1>10. s10 \in Chains /\ (Hits(s10, p) <=> Accepts(s10, p)) /\ (Accepts(s10, p) <=> TunnelPass(c, p))
  BY TunnelForwardIs
<1>11. s11 \in Chains /\ (Hits(s11, p) <=> Accepts(s11, p)) /\ (Accepts(s11, p) <=> PortForwardPass(c, p))
  BY PortForwardIs
<1>12. s12 \in Chains /\ (Accepts(s12, p) <=> RemoteSitePass(c, p))
  BY RemoteSiteIs
<1> HIDE DEF s1, s2, s3, s4, s5, s6, s7, s8, s9, s10, s11, s12
<1>13. /\ t1 \in Chains
       /\ Hits(t1, p) <=> Hits(s1, p) \/ Hits(s2, p) \/ Hits(s3, p) \/ Hits(s4, p)
       /\ Accepts(t1, p) <=>
            Accepts(s1, p) \/ (~Hits(s1, p) /\ (Accepts(s2, p) \/
              (~Hits(s2, p) /\ (Accepts(s3, p) \/ (~Hits(s3, p) /\ Accepts(s4, p))))))
  <2>1. s1 \in Chains /\ s2 \in Chains /\ s3 \in Chains /\ s4 \in Chains
    BY <1>1, <1>2, <1>3, <1>4
  <2> QED
    BY <2>1, FourInARow, SMT
<1> HIDE DEF t1
<1>14. /\ t2 \in Chains
       /\ Hits(t2, p) <=> Hits(t1, p) \/ Hits(s5, p) \/ Hits(s6, p) \/ Hits(s7, p)
       /\ Accepts(t2, p) <=>
            Accepts(t1, p) \/ (~Hits(t1, p) /\ (Accepts(s5, p) \/
              (~Hits(s5, p) /\ (Accepts(s6, p) \/ (~Hits(s6, p) /\ Accepts(s7, p))))))
  <2>1. t1 \in Chains /\ s5 \in Chains /\ s6 \in Chains /\ s7 \in Chains
    BY <1>5, <1>6, <1>7, <1>13
  <2> QED
    BY <2>1, FourInARow, SMT
<1> HIDE DEF t2
<1>15. /\ t3 \in Chains
       /\ Hits(t3, p) <=> Hits(t2, p) \/ Hits(s8, p) \/ Hits(s9, p) \/ Hits(s10, p)
       /\ Accepts(t3, p) <=>
            Accepts(t2, p) \/ (~Hits(t2, p) /\ (Accepts(s8, p) \/
              (~Hits(s8, p) /\ (Accepts(s9, p) \/ (~Hits(s9, p) /\ Accepts(s10, p))))))
  <2>1. t2 \in Chains /\ s8 \in Chains /\ s9 \in Chains /\ s10 \in Chains
    BY <1>8, <1>9, <1>10, <1>14
  <2> QED
    BY <2>1, FourInARow, SMT
<1> HIDE DEF t3
<1>16. /\ t4 \in Chains
       /\ Accepts(t4, p) <=>
            Accepts(t3, p) \/ (~Hits(t3, p) /\ (Accepts(s11, p) \/ (~Hits(s11, p) /\ Accepts(s12, p))))
  <2>1. t3 \in Chains /\ s11 \in Chains /\ s12 \in Chains
    BY <1>11, <1>12, <1>15
  <2> QED
    BY <2>1, ThreeInARow, SMT
<1> HIDE DEF t4
<1>17. /\ Hits(t1, p) \/ Hits(s5, p) <=> ForwardCut(c, isOpen, isLearned, p)
       /\ ~Accepts(t1, p) /\ ~Accepts(s5, p)
  BY <1>1, <1>2, <1>3, <1>4, <1>5, <1>13 DEF ForwardCut
<1>18. /\ Accepts(t2, p) <=> ~ForwardCut(c, isOpen, isLearned, p) /\ (p.ct = "established" \/ customAllow)
       /\ Hits(t2, p) <=> ForwardCut(c, isOpen, isLearned, p) \/ p.ct = "established" \/ customAllow
  BY <1>6, <1>7, <1>14, <1>17
<1>19. p.iif = "seg" => ~TunnelPass(c, p) /\ ~PortForwardPass(c, p) /\ ~RemoteSitePass(c, p)
  BY DEF TunnelPass, PortForwardPass, RemoteSitePass
<1> HIDE DEF customAllow
<1>20. Accepts(t4, p) <=>
         /\ ~ForwardCut(c, isOpen, isLearned, p)
         /\ \/ p.ct = "established" \/ customAllow \/ SegmentPass(c, p)
            \/ (c.wan /\ p.iif = "lan" /\ p.oif = "wan") \/ TunnelPass(c, p) \/ PortForwardPass(c, p)
            \/ RemoteSitePass(c, p)
  BY <1>8, <1>9, <1>10, <1>11, <1>12, <1>15, <1>16, <1>18, <1>19, SMTT(30)
<1> QED
  BY <1>0, <1>16, <1>20 DEF ForwardAdmits, customAllow

-----------------------------------------------------------------------------
\* The output chain, for established flows.
Isolated(c, p) ==
    /\ c.squid /\ p.user = "squid"
    /\ \/ p.oif = "lan" /\ p.sport # "proxy"
       \/ c.wg /\ p.oif = "wg0"
       \/ c.wgc /\ p.oif = "wg1"
       \/ c.segment # "none" /\ p.oif = "seg"

LEMMA AwayIs ==
    ASSUME NEW cond, NEW o \in Interfaces, NEW p \in Packets
    PROVE  LET s == IF cond THEN drop(By("squid", o, Ports)) ELSE <<>>
           IN  /\ drop(By("squid", o, Ports)) \in Chains
               /\ s \in Chains /\ ~Accepts(s, p) /\ (Hits(s, p) <=> cond /\ p.user = "squid" /\ p.oif = o)
<1> DEFINE m == By("squid", o, Ports)
<1>0. "squid" \in Users /\ Ports \in SUBSET Ports /\ p.dport \in Ports
  BY Values, PacketIs
<1>a. m \in MatchSets /\ (Matches(m, p) <=> p.user = "squid" /\ p.oif = o /\ p.dport \in Ports)
  BY <1>0, ByIs
<1> HIDE DEF m
<1>1. m \in MatchSets /\ (Matches(m, p) <=> p.user = "squid" /\ p.oif = o)
  BY <1>0, <1>a
<1>2. drop(m) \in Chains /\ ~Accepts(drop(m), p) /\ (Hits(drop(m), p) <=> p.user = "squid" /\ p.oif = o)
  BY <1>1, DropIs
<1>3. LET s == IF cond THEN drop(m) ELSE <<>>
      IN  /\ drop(m) \in Chains
          /\ s \in Chains /\ ~Accepts(s, p) /\ (Hits(s, p) <=> cond /\ p.user = "squid" /\ p.oif = o)
  BY <1>2, NoRules
<1> QED
  BY <1>3 DEF m

LEMMA IsolationIs ==
    ASSUME NEW c \in Configs, NEW p \in Packets
    PROVE  /\ SquidIsolation(c) \in Chains
           /\ Hits(SquidIsolation(c), p) /\ ~Accepts(SquidIsolation(c), p) <=> Isolated(c, p)
           /\ Accepts(SquidIsolation(c), p) => Hits(SquidIsolation(c), p)
<1> DEFINE m == [By("squid", "lan", Ports) EXCEPT !.sport = {"proxy"}]
           s1 == accept(m)
           s2 == IF TRUE THEN drop(By("squid", "lan", Ports)) ELSE <<>>
           s3 == IF c.wg THEN drop(By("squid", "wg0", Ports)) ELSE <<>>
           s4 == IF c.wgc THEN drop(By("squid", "wg1", Ports)) ELSE <<>>
           s5 == IF c.segment # "none" THEN drop(By("squid", "seg", Ports)) ELSE <<>>
           t1 == s1 \o s2 \o s3 \o s4
           t2 == t1 \o s5
<1>0. /\ "lan" \in Interfaces /\ "wg0" \in Interfaces /\ "wg1" \in Interfaces /\ "seg" \in Interfaces
      /\ "squid" \in Users /\ {"proxy"} \in SUBSET Ports
  BY Values, PortSets
<1>1. m \in MatchSets /\ (Matches(m, p) <=> p.user = "squid" /\ p.oif = "lan" /\ p.sport = "proxy")
  BY <1>0 DEF By, AnyPacket, MatchSets, Packets, Matches
<1>2. SquidIsolation(c) = IF c.squid THEN t2 ELSE <<>>
  BY DEF SquidIsolation, When
<1> HIDE DEF m
<1>3. s1 \in Chains /\ (Hits(s1, p) <=> Matches(m, p)) /\ (Accepts(s1, p) <=> Matches(m, p))
  BY <1>1, AcceptIs
<1>4. s2 \in Chains /\ ~Accepts(s2, p) /\ (Hits(s2, p) <=> p.user = "squid" /\ p.oif = "lan")
  BY <1>0, AwayIs
<1>5. s3 \in Chains /\ ~Accepts(s3, p) /\ (Hits(s3, p) <=> c.wg /\ p.user = "squid" /\ p.oif = "wg0")
  BY <1>0, AwayIs
<1>6. s4 \in Chains /\ ~Accepts(s4, p) /\ (Hits(s4, p) <=> c.wgc /\ p.user = "squid" /\ p.oif = "wg1")
  BY <1>0, AwayIs
<1>7. s5 \in Chains /\ ~Accepts(s5, p) /\ (Hits(s5, p) <=> c.segment # "none" /\ p.user = "squid" /\ p.oif = "seg")
  BY <1>0, AwayIs
<1> HIDE DEF s1, s2, s3, s4, s5
<1>8. /\ t1 \in Chains
      /\ Hits(t1, p) <=> Hits(s1, p) \/ Hits(s2, p) \/ Hits(s3, p) \/ Hits(s4, p)
      /\ Accepts(t1, p) <=>
           Accepts(s1, p) \/ (~Hits(s1, p) /\ (Accepts(s2, p) \/
             (~Hits(s2, p) /\ (Accepts(s3, p) \/ (~Hits(s3, p) /\ Accepts(s4, p))))))
  <2>1. s1 \in Chains /\ s2 \in Chains /\ s3 \in Chains /\ s4 \in Chains
    BY <1>3, <1>4, <1>5, <1>6
  <2> QED
    BY <2>1, FourInARow, SMT
<1> HIDE DEF t1
<1>9. /\ t2 \in Chains /\ (Hits(t2, p) <=> Hits(t1, p) \/ Hits(s5, p))
      /\ Accepts(t2, p) <=> Accepts(t1, p) \/ (~Hits(t1, p) /\ Accepts(s5, p))
  <2>1. t1 \in Chains /\ s5 \in Chains
    BY <1>7, <1>8
  <2> QED
    BY <2>1, InARow
<1> HIDE DEF t2
<1>10. /\ Accepts(t2, p) <=> p.user = "squid" /\ p.oif = "lan" /\ p.sport = "proxy"
       /\ Hits(t2, p) <=> /\ p.user = "squid"
                          /\ \/ p.oif = "lan"
                             \/ c.wg /\ p.oif = "wg0"
                             \/ c.wgc /\ p.oif = "wg1"
                             \/ c.segment # "none" /\ p.oif = "seg"
  BY <1>1, <1>3, <1>4, <1>5, <1>6, <1>7, <1>8, <1>9
<1>11. CASE c.squid
  BY <1>2, <1>9, <1>10, <1>11, SMTT(30) DEF Isolated
<1>12. CASE ~c.squid
  BY <1>2, <1>12, NoRules DEF Isolated
<1> QED
  BY <1>11, <1>12

\* What the rules after the decision are does not matter.
LEMMA DecidedBefore ==
    ASSUME NEW s \in Chains, NEW t \in Chains, NEW p, Hits(s, p)
    PROVE  s \o t \in Chains /\ Hits(s \o t, p) /\ (Accepts(s \o t, p) <=> Accepts(s, p))
  BY InARow

LEMMA OutputIs ==
    ASSUME NEW c \in Configs, NEW p \in Packets, p.ct = "established"
    PROVE  Accepts(OutputChain(c), p) <=> ~Isolated(c, p)
<1> DEFINE s1 == SquidIsolation(c)
           s2 == accept(Established)
           m3 == [AnyPacket EXCEPT !.oif = {"lan"},
                    !.sport = {"dns", "dhcp"} \union IF c.only THEN {} ELSE {"https"}]
           m4 == [AnyPacket EXCEPT !.oif = {"wg0"}, !.sport = {"dns", "wg", "https"}]
           m5 == [AnyPacket EXCEPT !.oif = {"wan"}, !.dport = {"wg"}]
           m6 == [AnyPacket EXCEPT !.dst = Public, !.dport = {"dns"}]
           m7 == [AnyPacket EXCEPT !.dport = {"ping"}]
           m8 == By("routerd", "wan", {"web"})
           m9 == By("root", "wan", {"web"})
           m10 == By("squid", "wan", {"web"})
           s3 == accept(m3)
           s4 == IF c.wg THEN accept(m4) ELSE <<>>
           s5 == IF c.wgc THEN accept(m5) ELSE <<>>
           s6 == accept(m6)
           s7 == accept(m7)
           s8 == accept(m8)
           s9 == IF c.ddns THEN accept(m9) ELSE <<>>
           s10 == IF c.squid THEN accept(m10) ELSE <<>>
           t2 == s1 \o s2
           t3 == t2 \o s3
           t4 == t3 \o s4
           t5 == t4 \o s5
           t6 == t5 \o s6
           t7 == t6 \o s7
           t8 == t7 \o s8
           t9 == t8 \o s9
           t10 == t9 \o s10
<1>1. OutputChain(c) = t10
  BY DEF OutputChain, When, write_wg_client_output_rules
<1>2. /\ "lan" \in Interfaces /\ "wan" \in Interfaces /\ "wg0" \in Interfaces
      /\ "routerd" \in Users /\ "root" \in Users /\ "squid" \in Users /\ Public \in SUBSET Hosts
      /\ {"wg"} \in SUBSET Ports /\ {"dns"} \in SUBSET Ports /\ {"ping"} \in SUBSET Ports
      /\ {"web"} \in SUBSET Ports /\ {"dns", "wg", "https"} \in SUBSET Ports
      /\ {"dns", "dhcp"} \union (IF c.only THEN {} ELSE {"https"}) \in SUBSET Ports
  BY Values, PortSets, HostSets
<1>3. m3 \in MatchSets
  BY <1>2 DEF AnyPacket, MatchSets
<1>4. m4 \in MatchSets
  BY <1>2 DEF AnyPacket, MatchSets
<1>5. m5 \in MatchSets
  BY <1>2 DEF AnyPacket, MatchSets
<1>6. m6 \in MatchSets
  BY <1>2 DEF AnyPacket, MatchSets
<1>7. m7 \in MatchSets
  BY <1>2 DEF AnyPacket, MatchSets
<1>8. m8 \in MatchSets /\ m9 \in MatchSets /\ m10 \in MatchSets
  BY <1>2, ByIs
<1> HIDE DEF m3, m4, m5, m6, m7, m8, m9, m10
<1>9. s3 \in Chains /\ s4 \in Chains /\ s5 \in Chains /\ s6 \in Chains
  BY <1>3, <1>4, <1>5, <1>6, AcceptIs, NoRules
<1>10. s7 \in Chains /\ s8 \in Chains /\ s9 \in Chains /\ s10 \in Chains
  BY <1>7, <1>8, AcceptIs, NoRules
<1>11. s2 \in Chains /\ Hits(s2, p) /\ Accepts(s2, p)
  BY EstablishedIs
<1>12. /\ s1 \in Chains /\ (Hits(s1, p) /\ ~Accepts(s1, p) <=> Isolated(c, p))
       /\ Accepts(s1, p) => Hits(s1, p)
  BY IsolationIs
<1> HIDE DEF s1, s2, s3, s4, s5, s6, s7, s8, s9, s10
<1>13. t2 \in Chains /\ Hits(t2, p) /\ (Accepts(t2, p) <=> ~Isolated(c, p))
  BY ZenonT(30), <1>11, <1>12, InARow
<1> HIDE DEF t2
<1>14. t3 \in Chains /\ Hits(t3, p) /\ (Accepts(t3, p) <=> ~Isolated(c, p))
  BY <1>9, <1>13, DecidedBefore
<1> HIDE DEF t3
<1>15. t4 \in Chains /\ Hits(t4, p) /\ (Accepts(t4, p) <=> ~Isolated(c, p))
  BY <1>9, <1>14, DecidedBefore
<1> HIDE DEF t4
<1>16. t5 \in Chains /\ Hits(t5, p) /\ (Accepts(t5, p) <=> ~Isolated(c, p))
  BY <1>9, <1>15, DecidedBefore
<1> HIDE DEF t5
<1>17. t6 \in Chains /\ Hits(t6, p) /\ (Accepts(t6, p) <=> ~Isolated(c, p))
  BY ZenonT(30), <1>9, <1>16, DecidedBefore
<1> HIDE DEF t6
<1>18. t7 \in Chains /\ Hits(t7, p) /\ (Accepts(t7, p) <=> ~Isolated(c, p))
  BY <1>10, <1>17, DecidedBefore
<1> HIDE DEF t7
<1>19. t8 \in Chains /\ Hits(t8, p) /\ (Accepts(t8, p) <=> ~Isolated(c, p))
  BY <1>10, <1>18, DecidedBefore
<1> HIDE DEF t8
<1>20. t9 \in Chains /\ Hits(t9, p) /\ (Accepts(t9, p) <=> ~Isolated(c, p))
  BY <1>10, <1>19, DecidedBefore
<1> HIDE DEF t9
<1>21. t10 \in Chains /\ Hits(t10, p) /\ (Accepts(t10, p) <=> ~Isolated(c, p))
  BY <1>10, <1>20, DecidedBefore
<1> HIDE DEF t10
<1> QED
  BY <1>1, <1>21

-----------------------------------------------------------------------------
\* Flows and their packets.
Flows == [src : Hosts, dst : Hosts, service : Services, user : Users, via : Interfaces]

LEMMA InterfaceIs ==
    ASSUME NEW c \in Configs, NEW h \in Hosts
    PROVE  /\ InterfaceOf(c, h) \in Interfaces
           /\ InterfaceOf(c, h) = "lan" <=> h \in LanHosts
           /\ InterfaceOf(c, h) = "wg0" <=> h = "w" /\ c.wg
           /\ InterfaceOf(c, h) = "wg1" <=> h = "t" /\ c.wgc
           /\ InterfaceOf(c, h) = "seg" <=> h = "s" /\ c.segment # "none"
           /\ InterfaceOf(c, h) = "self" <=> h = "r"
<1>1. /\ h \in LanHosts => InterfaceOf(c, h) = "lan"
      /\ h = "w" => InterfaceOf(c, h) = IF c.wg THEN "wg0" ELSE "wan"
      /\ h = "t" => InterfaceOf(c, h) = IF c.wgc THEN "wg1" ELSE "wan"
      /\ h = "s" => InterfaceOf(c, h) = IF c.segment # "none" THEN "seg" ELSE "wan"
      /\ h = "r" => InterfaceOf(c, h) = "self"
      /\ h \in {"i", "p"} => InterfaceOf(c, h) = "wan"
  BY SMT DEF InterfaceOf, LanHosts
<1>2. h \in LanHosts \/ h = "w" \/ h = "t" \/ h = "s" \/ h = "r" \/ h \in {"i", "p"}
  BY DEF Hosts, LanHosts
<1> QED
  BY <1>1, <1>2, SMT DEF LanHosts, Interfaces

LEMMA RequestIs ==
    ASSUME NEW c \in Configs, NEW f \in Flows, NEW to \in Hosts, NEW ct \in {"new", "established"}
    PROVE  LET q == Request(c, f, to, ct)
           IN  /\ q \in Packets
               /\ q.iif = f.via /\ q.oif = InterfaceOf(c, to) /\ q.src = f.src /\ q.dst = to
               /\ q.dport = f.service /\ q.sport # "proxy" /\ q.ct = ct /\ q.user = f.user
               /\ q.fib = IF f.via = InterfaceOf(c, f.src) THEN "ok" ELSE "missing"
<1>1. /\ f.via \in Interfaces /\ f.src \in Hosts /\ f.service \in Services /\ f.user \in Users
      /\ InterfaceOf(c, to) \in Interfaces
  BY InterfaceIs DEF Flows
<1> DEFINE sport == IF f.service = "ping" THEN "ping" ELSE "high"
           fib == IF f.via = InterfaceOf(c, f.src) THEN "ok" ELSE "missing"
<1>2. sport \in Ports /\ sport # "proxy" /\ fib \in {"ok", "missing"} /\ f.service \in Ports
  BY <1>1, SMT DEF Ports, Services
<1>3. Request(c, f, to, ct) =
        [iif |-> f.via, oif |-> InterfaceOf(c, to), src |-> f.src, dst |-> to,
         dport |-> f.service, sport |-> sport, ct |-> ct, user |-> f.user, fib |-> fib]
  BY DEF Request
<1>4. fib = IF f.via = InterfaceOf(c, f.src) THEN "ok" ELSE "missing"
  OBVIOUS
<1> HIDE DEF sport, fib
<1>5. Request(c, f, to, ct) \in Packets
  BY <1>1, <1>2, <1>3, SMTT(30) DEF Packets
<1>6. LET q == Request(c, f, to, ct)
      IN  /\ q.iif = f.via /\ q.oif = InterfaceOf(c, to) /\ q.src = f.src /\ q.dst = to
          /\ q.dport = f.service /\ q.sport = sport /\ q.ct = ct /\ q.user = f.user /\ q.fib = fib
  BY <1>3, SMT
<1> QED
  BY <1>2, <1>4, <1>5, <1>6

LEMMA TranslatedIs ==
    ASSUME NEW c, NEW f \in Flows
    PROVE  /\ Translated(c, f) \in Hosts
           /\ f.service # "app" => Translated(c, f) = f.dst
  BY Values DEF Translated, Flows, ForwardTo

LEMMA RulesetIs ==
    ASSUME NEW c, NEW isOpen, NEW isLearned
    PROVE  /\ Ruleset(c, isOpen, isLearned).input = InputChain(c)
           /\ Ruleset(c, isOpen, isLearned).forward = ForwardChain(c, isOpen, isLearned)
           /\ Ruleset(c, isOpen, isLearned).output = OutputChain(c)
  BY DEF Ruleset

LEMMA PassesNewIs ==
    ASSUME NEW c \in Configs, NEW isOpen \in BOOLEAN, NEW isLearned \in BOOLEAN, NEW f \in Flows, f.src # "r"
    PROVE  LET q == Request(c, f, Translated(c, f), "new")
           IN  PassesNew(Ruleset(c, isOpen, isLearned), c, f) <=>
                 IF Translated(c, f) = "r" THEN InputAdmits(c, q) ELSE ForwardAdmits(c, isOpen, isLearned, q)
<1> DEFINE to == Translated(c, f)
           q == Request(c, f, to, "new")
<1>1. to \in Hosts
  BY TranslatedIs
<1>2. q \in Packets
  BY <1>1, RequestIs
<1>3. PassesNew(Ruleset(c, isOpen, isLearned), c, f) <=>
        Accepts(IF to = "r" THEN InputChain(c) ELSE ForwardChain(c, isOpen, isLearned), q)
  BY RulesetIs DEF PassesNew, Accepts, Chain
<1> HIDE DEF to, q
<1>4. /\ Accepts(InputChain(c), q) <=> InputAdmits(c, q)
      /\ Accepts(ForwardChain(c, isOpen, isLearned), q) <=> ForwardAdmits(c, isOpen, isLearned, q)
  BY <1>2, InputIs, ForwardIs
<1>5. PassesNew(Ruleset(c, isOpen, isLearned), c, f) <=>
        IF to = "r" THEN InputAdmits(c, q) ELSE ForwardAdmits(c, isOpen, isLearned, q)
  BY <1>3, <1>4
<1> QED
  BY <1>5 DEF to, q

LEMMA PassesEstablishedIs ==
    ASSUME NEW c \in Configs, NEW isOpen \in BOOLEAN, NEW isLearned \in BOOLEAN,
           NEW k \in [flow : Flows, to : Hosts]
    PROVE  LET q == Request(c, k.flow, k.to, "established")
           IN  PassesEstablished(Ruleset(c, isOpen, isLearned), c, k) <=>
                 IF k.flow.src = "r" THEN ~Isolated(c, q)
                 ELSE IF k.to = "r" THEN InputAdmits(c, q) ELSE ForwardAdmits(c, isOpen, isLearned, q)
<1> DEFINE q == Request(c, k.flow, k.to, "established")
<1>1. k.flow \in Flows /\ k.to \in Hosts
  OBVIOUS
<1>e. "established" \in {"new", "established"}
  OBVIOUS
<1>2. q \in Packets /\ q.ct = "established"
  <2>1. q \in Packets
    BY <1>1, <1>e, RequestIs
  <2>2. q.ct = "established"
    BY <1>1, <1>e, RequestIs, SMT
  <2> QED
    BY <2>1, <2>2
<1>3. PassesEstablished(Ruleset(c, isOpen, isLearned), c, k) <=>
        Accepts(IF k.flow.src = "r" THEN OutputChain(c)
                ELSE IF k.to = "r" THEN InputChain(c) ELSE ForwardChain(c, isOpen, isLearned), q)
  <2>1. CASE k.flow.src = "r"
    BY <2>1, RulesetIs DEF PassesEstablished, Accepts, Chain
  <2>2. CASE k.flow.src # "r" /\ k.to = "r"
    BY <2>2, RulesetIs DEF PassesEstablished, Accepts, Chain
  <2>3. CASE k.flow.src # "r" /\ k.to # "r"
    BY <2>3, RulesetIs DEF PassesEstablished, Accepts, Chain
  <2> QED
    BY <2>1, <2>2, <2>3
<1> HIDE DEF q
<1>4. /\ Accepts(InputChain(c), q) <=> InputAdmits(c, q)
      /\ Accepts(ForwardChain(c, isOpen, isLearned), q) <=> ForwardAdmits(c, isOpen, isLearned, q)
      /\ Accepts(OutputChain(c), q) <=> ~Isolated(c, q)
  BY <1>2, InputIs, ForwardIs, OutputIs
<1>5. PassesEstablished(Ruleset(c, isOpen, isLearned), c, k) <=>
        IF k.flow.src = "r" THEN ~Isolated(c, q)
        ELSE IF k.to = "r" THEN InputAdmits(c, q) ELSE ForwardAdmits(c, isOpen, isLearned, q)
  BY <1>3, <1>4
<1> QED
  BY <1>5 DEF q

-----------------------------------------------------------------------------
\* Who began what is tracked.  OnlyTrustedInitiates does not say which source goes
\* with which interface, nor that a translated flow was one to the forwarded service.
Begun(k) ==
    \/ k.flow.via = "lan" /\ k.flow.src \in LanHosts
    \/ k.flow.via = "wg0" /\ k.flow.src = "w"
    \/ k.flow.via = "self" /\ k.flow.src = "r"
    \/ k.flow.via = "wan" /\ k.to = "r" /\ k.flow.service = "wg" /\ k.flow.src \in {"i", "p"}
    \/ k.flow.via = "seg" /\ k.to = "r" /\ k.flow.service = "ping" /\ k.flow.src = "s"

TrackedFlow(k) ==
    /\ k \in [flow : Flows, to : Hosts]
    /\ k.flow.user \in UsersOf(k.flow.src)
    /\ k.to = k.flow.dst \/ k.flow.service = "app"
    /\ Begun(k)

\* A destination the device resolved under its profile is in the profile's set: a
\* replaced table keeps the set while it keeps the profile.
FirewallInv ==
    /\ policy \in Configs /\ validate(policy) /\ validate_scenario_safety(policy)
    /\ learned \in BOOLEAN /\ known \in BOOLEAN /\ open \in BOOLEAN
    /\ known => learned /\ policy.profile
    /\ tracked = {} \/ \E k : tracked = {k} /\ TrackedFlow(k)

LEMMA LinksAre ==
    ASSUME NEW c \in Configs, NEW h \in Hosts, NEW via \in LinksOf(c, h)
    PROVE  /\ via \in Interfaces
           /\ via = "wg0" => h = "w"
           /\ h = "r" => via = "self"
<1>1. CASE h = "r"
  <2>1. InterfaceOf(c, h) = "self"
    BY <1>1, InterfaceIs
  <2>2. LinksOf(c, h) = {"self"}
    BY <1>1, <2>1, SMT DEF LinksOf
  <2> QED
    BY <1>1, <2>2, Values
<1>2. CASE h # "r" /\ InterfaceOf(c, h) \in {"wg0", "wg1"}
  <2>1. LinksOf(c, h) = {InterfaceOf(c, h), "wan"}
    BY <1>2, SMT DEF LinksOf
  <2> QED
    BY <1>2, <2>1, Values, InterfaceIs
<1>3. CASE h # "r" /\ InterfaceOf(c, h) \notin {"wg0", "wg1"}
  <2>1. LinksOf(c, h) = {"lan", "wan"} \union IF c.segment = "none" THEN {} ELSE {"seg"}
    BY <1>3, SMT DEF LinksOf
  <2> QED
    BY <1>3, <2>1, Values
<1> QED
  BY <1>1, <1>2, <1>3

\* A new flow the chains let pass was begun by whom OnlyTrustedInitiates names.
LEMMA NewFlowIsTrusted ==
    ASSUME NEW c \in Configs, NEW isOpen \in BOOLEAN, NEW isLearned \in BOOLEAN,
           NEW f \in Flows, f.via \in LinksOf(c, f.src), PassesNew(Ruleset(c, isOpen, isLearned), c, f)
    PROVE  Begun([flow |-> f, to |-> Translated(c, f)])
<1> DEFINE to == Translated(c, f)
           q == Request(c, f, to, "new")
           k == [flow |-> f, to |-> to]
<1>1. f.src \in Hosts /\ to \in Hosts /\ "new" \in {"new", "established"}
  BY TranslatedIs DEF Flows
<1>2. q.iif = f.via /\ q.src = f.src /\ q.dport = f.service /\ q.ct = "new"
  BY <1>1, RequestIs, SMT
<1>3. f.via = "wg0" => f.src = "w"
  BY <1>1, LinksAre
<1>4. f.src = "r" => f.via = "self"
  BY <1>1, LinksAre
<1>5. f.src # "r" => IF to = "r" THEN InputAdmits(c, q) ELSE ForwardAdmits(c, isOpen, isLearned, q)
  BY PassesNewIs
<1>6. k.flow = f /\ k.to = to
  OBVIOUS
<1> SUFFICES Begun(k)
  OBVIOUS
<1> HIDE DEF to, q, k
<1>7. CASE f.src = "r"
  BY <1>4, <1>6, <1>7 DEF Begun
<1>8. ~LanSpoof(q) /\ f.via = "lan" => Begun(k)
  BY <1>2, <1>6 DEF Begun, LanSpoof
<1>9. f.via = "wg0" => Begun(k)
  BY <1>3, <1>6 DEF Begun
<1>10. CASE f.src # "r" /\ to = "r"
  <2>1. InputAdmits(c, q)
    BY <1>5, <1>10
  <2>2. CASE c.wg /\ c.peer /\ q.iif = "wan" /\ q.dport = "wg" /\ q.src = "p"
    BY <1>2, <1>6, <1>10, <2>2 DEF Begun
  <2>3. CASE /\ ~WanSpoof(q) /\ ~LanSpoof(q)
             /\ \/ c.wg /\ q.iif = "wan" /\ q.dport = "wg"
                \/ c.wg /\ q.iif = "wg0" /\ q.src \in WgNetwork /\ q.dport \in {"https", "ssh", "dns"}
                \/ q.iif = "lan" /\ q.dport \in LanServices(c)
                \/ c.segment # "none" /\ q.iif = "seg" /\ q.src = "s" /\ q.dport = "ping"
                \/ CustomHit(c, q, "input", "allow")
    <3>1. CASE q.iif = "wan" /\ q.dport = "wg"
      BY <1>2, <1>6, <1>10, <2>3, <3>1 DEF Begun, WanSpoof, Public
    <3>2. CASE q.iif = "seg" /\ q.src = "s" /\ q.dport = "ping"
      BY <1>2, <1>6, <1>10, <3>2 DEF Begun
    <3> QED
      BY <1>2, <1>8, <1>9, <2>3, <3>1, <3>2, CustomIsLan
  <2> QED
    BY <1>2, <2>1, <2>2, <2>3 DEF InputAdmits
<1>11. CASE f.src # "r" /\ to # "r"
  <2>1. ForwardAdmits(c, isOpen, isLearned, q)
    BY <1>5, <1>11
  <2>2. ~LanSpoof(q)
    BY <2>1 DEF ForwardAdmits, ForwardCut
  <2>3. SegmentPass(c, q) => q.iif \in {"lan", "wg0"}
    BY SourcesAre DEF SegmentPass
  <2>4. q.iif = "lan" \/ q.iif = "wg0"
    BY <1>2, <2>1, <2>3, CustomIsLan DEF ForwardAdmits, TunnelPass, PortForwardPass, RemoteSitePass
  <2> QED
    BY <1>2, <1>8, <1>9, <2>2, <2>4
<1> QED
  BY <1>7, <1>10, <1>11

LEMMA AtMostOne ==
    ASSUME NEW S, S = {} \/ \E k : S = {k}
    PROVE  Cardinality(S) <= 1
<1>1. CASE S = {}
  BY <1>1, FS_EmptySet, SMT
<1>2. CASE \E k : S = {k}
  <2>1. PICK k : S = {k}
    BY <1>2
  <2>2. Cardinality({k}) = 1
    BY FS_Singleton
  <2> QED
    BY <2>1, <2>2, SMT
<1> QED
  BY <1>1, <1>2

\* The invariant is enough.
LEMMA FirewallInvIsSound == FirewallInv => FirewallSound
<1> SUFFICES ASSUME FirewallInv PROVE FirewallSound
  OBVIOUS
<1>1. /\ policy \in Configs /\ learned \in BOOLEAN /\ known \in BOOLEAN /\ open \in BOOLEAN
      /\ known => learned /\ policy.profile
      /\ \A k \in tracked : TrackedFlow(k)
  BY DEF FirewallInv
<1>2. FirewallTypeOK
  <2>1. \A f \in DOMAIN policy : policy[f] \in SettingsOf[f]
    <3>1. policy = [f \in DOMAIN FirstSettings |-> policy[f]] /\ \A f \in DOMAIN FirstSettings : policy[f] \in SettingsOf[f]
      BY <1>1, ConfigsAre
    <3>2. DOMAIN policy = DOMAIN FirstSettings
      BY <3>1
    <3> QED
      BY <3>1, <3>2
  <2>2. Cardinality(tracked) <= 1
    BY AtMostOne DEF FirewallInv
  <2> QED
    BY <1>1, <2>1, <2>2 DEF FirewallInv, FirewallTypeOK
<1>3. OnlyTrustedInitiates
  BY <1>1 DEF OnlyTrustedInitiates, TrackedFlow, Begun
<1>4. ASSUME NEW k \in tracked,
             /\ k.flow.src \in LanHosts /\ k.flow.via = "lan" /\ k.to # "r"
             /\ Denied(policy, k.flow, IF InterfaceOf(policy, k.to) = "wan" THEN "wan" ELSE "other")
      PROVE  ~PassesEstablished(Ruleset(policy, open, learned), policy, k)
  <2> DEFINE q == Request(policy, k.flow, k.to, "established")
  <2>1. k \in [flow : Flows, to : Hosts] /\ k.flow \in Flows /\ k.to \in Hosts /\ "established" \in {"new", "established"}
    BY <1>1 DEF TrackedFlow
  <2>2. q.iif = k.flow.via /\ q.oif = InterfaceOf(policy, k.to) /\ q.src = k.flow.src /\ q.dport = k.flow.service
    BY <1>1, <2>1, RequestIs, SMT
  <2>3. k.flow.src # "r"
    BY <1>4 DEF LanHosts
  <2>4. PassesEstablished(Ruleset(policy, open, learned), policy, k) => ForwardAdmits(policy, open, learned, q)
    BY <1>1, <1>4, <2>1, <2>3, PassesEstablishedIs
  <2> HIDE DEF q
  <2>5. PICK rule \in policy.rules :
          /\ rule.direction = "forward" /\ rule.action = "deny" /\ firewall_rule_matches(rule, k.flow)
          /\ \/ firewall_rule_scope(rule) = "all"
             \/ (IF InterfaceOf(policy, k.to) = "wan" THEN "wan" ELSE "other") = "wan" /\ policy.wan
    BY <1>4 DEF Denied
  <2>6. firewall_rule_scope(rule) = "wan" => policy.wan /\ q.oif = "wan"
    BY <2>2, <2>5
  <2>7. rule.source \in {"any", q.src} /\ rule.service \in {"any", q.dport} /\ q.iif = "lan"
    BY <1>4, <2>2, <2>5 DEF firewall_rule_matches
  <2>8. CustomHit(policy, q, "forward", "deny")
    BY <2>5, <2>6, <2>7 DEF CustomHit
  <2> QED
    BY <2>4, <2>8 DEF ForwardAdmits, ForwardCut
<1>5. ASSUME NEW k \in tracked, k.flow.src = "d",
             \/ policy.squid /\ policy.restricted /\ k.to # "r"
             \/ policy.profile /\ k.to = "i" /\ known /\ ~open
      PROVE  ~PassesEstablished(Ruleset(policy, open, learned), policy, k)
  <2> DEFINE q == Request(policy, k.flow, k.to, "established")
  <2>1. k \in [flow : Flows, to : Hosts] /\ k.flow \in Flows /\ k.to \in Hosts /\ "established" \in {"new", "established"}
    BY <1>1 DEF TrackedFlow
  <2>2. q.src = k.flow.src /\ q.dst = k.to
    BY <1>1, <2>1, RequestIs, SMT
  <2>3. k.flow.src # "r" /\ k.to # "r"
    BY <1>5
  <2>4. PassesEstablished(Ruleset(policy, open, learned), policy, k) => ForwardAdmits(policy, open, learned, q)
    BY <1>1, <2>1, <2>3, PassesEstablishedIs
  <2> HIDE DEF q
  <2>5. ForwardCut(policy, open, learned, q)
    BY <1>1, <1>5, <2>2 DEF ForwardCut, ProfileCut
  <2> QED
    BY <2>4, <2>5 DEF ForwardAdmits
<1>6. ASSUME NEW k \in tracked, policy.squid, k.flow.user = "squid",
             InterfaceOf(policy, k.to) \in {"lan", "wg0", "wg1", "seg"}
      PROVE  ~PassesEstablished(Ruleset(policy, open, learned), policy, k)
  <2> DEFINE q == Request(policy, k.flow, k.to, "established")
  <2>1. k \in [flow : Flows, to : Hosts] /\ k.flow \in Flows /\ k.to \in Hosts /\ "established" \in {"new", "established"}
    BY <1>1 DEF TrackedFlow
  <2>2. q.user = "squid" /\ q.oif = InterfaceOf(policy, k.to) /\ q.sport # "proxy"
    BY <1>1, <1>6, <2>1, RequestIs, SMT
  <2>3. k.flow.src = "r"
    BY <1>1, <1>6 DEF TrackedFlow, UsersOf
  <2>4. PassesEstablished(Ruleset(policy, open, learned), policy, k) => ~Isolated(policy, q)
    BY <1>1, <2>1, <2>3, PassesEstablishedIs
  <2> HIDE DEF q
  <2>5. /\ q.oif = "wg0" => policy.wg
        /\ q.oif = "wg1" => policy.wgc
        /\ q.oif = "seg" => policy.segment # "none"
    BY <1>1, <2>1, <2>2, InterfaceIs
  <2>6. Isolated(policy, q)
    BY <1>6, <2>2, <2>5 DEF Isolated
  <2> QED
    BY <2>4, <2>6
<1>7. EarlierFlowsAreCut
  BY <1>4, <1>5, <1>6 DEF EarlierFlowsAreCut
<1> QED
  BY <1>2, <1>3, <1>7 DEF FirewallSound

LEMMA FirewallStarts == FirewallInit => FirewallInv
<1> SUFFICES ASSUME FirewallInit PROVE FirewallInv
  OBVIOUS
<1>1. policy \in Configs
  BY FirstIsConfig DEF FirewallInit
<1>2. policy.rules = {} /\ ~policy.ddns /\ ~policy.only /\ policy.segment = "none" /\ ~policy.forward /\ policy.wan
  BY SMT DEF FirewallInit, FirstSettings
<1>3. validate(policy) /\ validate_scenario_safety(policy)
  BY <1>2 DEF validate, validate_firewall, validate_scenario_safety
<1> QED
  BY <1>1, <1>3 DEF FirewallInit, FirewallInv

LEMMA NewFlowKeeps ==
    ASSUME FirewallInv, NewFlow
    PROVE  FirewallInv'
<1>1. /\ policy \in Configs /\ learned \in BOOLEAN /\ known \in BOOLEAN /\ open \in BOOLEAN
      /\ policy' = policy /\ open' = open
  BY DEF NewFlow, FirewallInv
<1>2. PICK src \in Hosts, dst \in Hosts, service \in Services :
        \E user \in UsersOf(src), via \in LinksOf(policy, src) :
            LET f == [src |-> src, dst |-> dst, service |-> service, user |-> user, via |-> via]
                resolves == src = "d" /\ dst = "r" /\ service = "dns" /\ policy.profile
            IN  /\ Routed(f) /\ PassesNew(Ruleset(policy, open, learned), policy, f)
                /\ tracked' = {[flow |-> f, to |-> Translated(policy, f)]}
                /\ learned' = (learned \/ resolves)
                /\ known' = (known \/ resolves)
  BY DEF NewFlow
<1>3. PICK user \in UsersOf(src), via \in LinksOf(policy, src) :
            LET f == [src |-> src, dst |-> dst, service |-> service, user |-> user, via |-> via]
                resolves == src = "d" /\ dst = "r" /\ service = "dns" /\ policy.profile
            IN  /\ Routed(f) /\ PassesNew(Ruleset(policy, open, learned), policy, f)
                /\ tracked' = {[flow |-> f, to |-> Translated(policy, f)]}
                /\ learned' = (learned \/ resolves)
                /\ known' = (known \/ resolves)
  BY <1>2
<1> DEFINE f == [src |-> src, dst |-> dst, service |-> service, user |-> user, via |-> via]
           k == [flow |-> f, to |-> Translated(policy, f)]
<1>4. user \in Users /\ via \in Interfaces
  BY <1>1, Values, LinksAre DEF UsersOf
<1>5. f \in Flows /\ f.src = src /\ f.dst = dst /\ f.service = service /\ f.user = user /\ f.via = via
  BY <1>4, SMT DEF Flows
<1>6. PassesNew(Ruleset(policy, open, learned), policy, f) /\ tracked' = {k}
  BY <1>3
<1>7. /\ learned' \in BOOLEAN /\ known' \in BOOLEAN
      /\ known' => learned' /\ policy'.profile
  BY <1>1, <1>3 DEF FirewallInv
<1> HIDE DEF f
<1>8. f.via \in LinksOf(policy, f.src) /\ f.user \in UsersOf(f.src)
  BY <1>3, <1>5
<1>9. Begun(k)
  BY <1>1, <1>5, <1>6, <1>8, NewFlowIsTrusted
<1>10. Translated(policy, f) \in Hosts /\ (f.service # "app" => Translated(policy, f) = f.dst)
  BY <1>5, TranslatedIs
<1>11. k.flow = f /\ k.to = Translated(policy, f) /\ k \in [flow : Flows, to : Hosts]
  BY <1>5, <1>10
<1> HIDE DEF k
<1>12. TrackedFlow(k)
  BY <1>8, <1>9, <1>10, <1>11 DEF TrackedFlow
<1>13. validate(policy') /\ validate_scenario_safety(policy')
  BY <1>1 DEF FirewallInv
<1> QED
  BY <1>1, <1>6, <1>7, <1>12, <1>13 DEF FirewallInv

LEMMA ApplyKeeps ==
    ASSUME FirewallInv, ApplyPolicy
    PROVE  FirewallInv'
<1> USE DEF FirewallInv
<1>1. PICK candidate \in Candidates(policy) : Admitted(policy, candidate) /\ run_nft_file(candidate)
  BY DEF ApplyPolicy
<1>2. candidate \in Configs
  BY CandidateIsConfig
<1>3. /\ policy' = candidate /\ learned' = (candidate.profile /\ learned)
      /\ known' = (known /\ candidate.profile) /\ tracked' = tracked /\ open' = open
  BY <1>1 DEF run_nft_file, preserve_service_destinations
<1>4. validate(candidate) /\ validate_scenario_safety(candidate)
  BY <1>1 DEF Admitted
<1>5. candidate.profile \in BOOLEAN
  BY <1>2, SMT DEF Configs
<1>6. learned' \in BOOLEAN /\ known' \in BOOLEAN /\ (known' => learned' /\ policy'.profile)
  BY <1>3, <1>5
<1> QED
  BY <1>2, <1>3, <1>4, <1>6

LEMMA FirewallStep == FirewallInv /\ [FirewallNext]_firewallVars => FirewallInv'
<1> SUFFICES ASSUME FirewallInv, [FirewallNext]_firewallVars PROVE FirewallInv'
  OBVIOUS
<1>1. CASE NewFlow
  BY <1>1, NewFlowKeeps
<1>2. CASE FlowExpires
  BY <1>2 DEF FlowExpires, FirewallInv
<1>3. CASE ApplyPolicy
  BY <1>3, ApplyKeeps
<1>4. CASE DestinationExpires
  BY <1>4 DEF DestinationExpires, FirewallInv
<1>5. CASE ScheduleTurns
  BY <1>5 DEF ScheduleTurns, FirewallInv
<1>6. CASE UNCHANGED firewallVars
  BY <1>6 DEF firewallVars, FirewallInv
<1> QED
  BY <1>1, <1>2, <1>3, <1>4, <1>5, <1>6 DEF FirewallNext

\* generate_nftables keeps the trust boundary for every set of custom rules and every
\* sequence of admitted changes: only the LAN, WireGuard peers and the router begin
\* connections, apart from the tunnel's socket and a segment's pings, and a flow
\* tracked under an earlier policy is cut by a deny, a restriction, an expired
\* schedule and the proxy's isolation, which precede the established rule.
THEOREM FirewallIsSound == FirewallSpec => []FirewallSound
<1>1. FirewallInit => FirewallInv
  BY FirewallStarts
<1>2. FirewallInv /\ [FirewallNext]_firewallVars => FirewallInv'
  BY FirewallStep
<1>3. FirewallInv => FirewallSound
  BY FirewallInvIsSound
<1> QED
  BY <1>1, <1>2, <1>3, PTL DEF FirewallSpec

-----------------------------------------------------------------------------
\* A change that needs no confirmation.
LEMMA PolicyChanges ==
    ASSUME FirewallInv, [FirewallNext]_firewallVars, policy' # policy
    PROVE  policy' \in Configs /\ validate_scenario_safety(policy')
<1>1. ApplyPolicy
  BY DEF FirewallNext, firewallVars, NewFlow, FlowExpires, DestinationExpires, ScheduleTurns
<1>2. FirewallInv'
  BY <1>1, ApplyKeeps
<1> QED
  BY <1>2 DEF FirewallInv

\* The administrator's request passes the input chain, new or established.
LEMMA AdminPasses ==
    ASSUME NEW c \in Configs, validate_scenario_safety(c), NEW p \in Packets, p.dport = "https",
           \/ c.only /\ c.wg /\ p.iif = "wg0" /\ p.src = "w"
           \/ ~c.only /\ p.iif = "lan" /\ p.src \in LanHosts
    PROVE  InputAdmits(c, p)
<1>1. ~WanSpoof(p) /\ ~LanSpoof(p)
  BY DEF WanSpoof, LanSpoof
<1>2. ~CustomHit(c, p, "input", "deny")
  BY DEF CustomHit, validate_scenario_safety
<1>3. CASE c.only
  BY <1>1, <1>2, <1>3 DEF InputAdmits, WgNetwork
<1>4. CASE ~c.only
  BY <1>1, <1>2, <1>4 DEF InputAdmits, LanServices
<1> QED
  BY <1>3, <1>4

LEMMA AdminAnswered ==
    ASSUME NEW c \in Configs, NEW f \in Flows, f.service = "https"
    PROVE  Accepts(OutputChain(c), Reply(c, f, "r"))
<1> DEFINE p == Reply(c, f, "r")
<1>1. /\ f.src \in Hosts /\ "r" \in Hosts /\ f.service \in Ports /\ "high" \in Ports /\ "none" \in Users
  BY SMT DEF Flows, Hosts, Services, Ports, Users
<1>2. InterfaceOf(c, "r") \in Interfaces /\ InterfaceOf(c, f.src) \in Interfaces
  BY <1>1, InterfaceIs
<1>3. p = [iif |-> InterfaceOf(c, "r"), oif |-> InterfaceOf(c, f.src), src |-> "r", dst |-> f.src,
           dport |-> "high", sport |-> f.service, ct |-> "established", user |-> "none", fib |-> "ok"]
  BY DEF Reply
<1> HIDE DEF p
<1>4. p \in Packets /\ p.ct = "established" /\ p.user = "none"
  BY <1>1, <1>2, <1>3, SMTT(30) DEF Packets
<1>5. Accepts(OutputChain(c), p)
  BY <1>4, OutputIs DEF Isolated
<1> QED
  BY <1>5 DEF p

LEMMA ManagementStep ==
    ASSUME FirewallInv, [FirewallNext]_firewallVars, NEW k \in tracked, policy' # policy,
           ManagementSession(policy, k), ~requires_confirmation(policy, policy')
    PROVE  SessionPasses(policy', k)
<1> DEFINE c == policy'
           f == k.flow
<1>1. c \in Configs /\ validate_scenario_safety(c)
  BY PolicyChanges
<1>2. /\ policy \in Configs /\ open \in BOOLEAN /\ learned \in BOOLEAN
      /\ policy.only => policy.wg
      /\ TrackedFlow(k)
  BY DEF FirewallInv, validate
<1>3. c.only = policy.only
  BY DEF requires_confirmation
<1>4. policy.only => c.wg = policy.wg
  BY DEF requires_confirmation
<1>5. /\ k.to = "r" /\ f.service = "https" /\ f.via = IF policy.only THEN "wg0" ELSE "lan"
      /\ k \in [flow : Flows, to : Hosts] /\ f \in Flows /\ f.dst = "r" /\ Begun(k)
  BY <1>2 DEF ManagementSession, TrackedFlow
<1>6. /\ f.src # "r"
      /\ \/ c.only /\ c.wg /\ f.via = "wg0" /\ f.src = "w"
         \/ ~c.only /\ f.via = "lan" /\ f.src \in LanHosts
  BY <1>2, <1>3, <1>4, <1>5 DEF Begun, LanHosts
<1>7. Translated(c, f) = "r"
  BY <1>5, TranslatedIs
<1> HIDE DEF c
<1>8. ASSUME NEW ct \in {"new", "established"}
      PROVE  InputAdmits(c, Request(c, f, "r", ct))
  <2>1. "r" \in Hosts
    BY DEF Hosts
  <2>2. Request(c, f, "r", ct) \in Packets
    BY <1>1, <1>5, <2>1, RequestIs
  <2>3. /\ Request(c, f, "r", ct).iif = f.via /\ Request(c, f, "r", ct).src = f.src
        /\ Request(c, f, "r", ct).dport = f.service
    BY <1>1, <1>5, <2>1, RequestIs, SMTT(30)
  <2> QED
    BY <1>1, <1>5, <1>6, <2>2, <2>3, AdminPasses
<1>9. PassesNew(Ruleset(c, open, learned), c, f)
  BY <1>1, <1>2, <1>5, <1>6, <1>7, <1>8, PassesNewIs
<1>10. PassesEstablished(Ruleset(c, open, learned), c, k)
  BY <1>1, <1>2, <1>5, <1>6, <1>8, PassesEstablishedIs
<1>11. Verdict(Ruleset(c, open, learned).output, Reply(c, f, k.to)) = "accept"
  BY ZenonT(30), <1>1, <1>5, AdminAnswered, RulesetIs DEF Accepts
<1>12. SessionPasses(c, k)
  BY <1>9, <1>10, <1>11 DEF SessionPasses
<1> QED
  BY <1>12 DEF c

\* A change that requires_confirmation lets through without confirmation leaves the
\* administrator's session of the mode in force open and reopenable: the request
\* passes the new rules, new and established, and so does the router's answer.
THEOREM ManagementOutlivesChanges == FirewallSpec => UnconfirmedKeepsManagement
<1>1. FirewallInit => FirewallInv
  BY FirewallStarts
<1>2. FirewallInv /\ [FirewallNext]_firewallVars => FirewallInv'
  BY FirewallStep
<1>3. FirewallInv /\ [FirewallNext]_firewallVars =>
        [ \A k \in tracked :
            tracked' = tracked /\ policy' # policy /\ ManagementSession(policy, k) =>
                SessionPasses(policy', k) \/ requires_confirmation(policy, policy') ]_firewallVars
  BY ManagementStep
<1> QED
  BY <1>1, <1>2, <1>3, PTL DEF FirewallSpec, UnconfirmedKeepsManagement

-----------------------------------------------------------------------------
\* The explanation.
LEMMA ZoneIs ==
    ASSUME NEW c \in Configs, NEW h \in Hosts
    PROVE  /\ firewall_zone(c, h) = "router" <=> h = "r"
           /\ firewall_zone(c, h) = "lan" <=> InterfaceOf(c, h) = "lan"
           /\ firewall_zone(c, h) = "wireguard" <=> InterfaceOf(c, h) = "wg0"
           /\ firewall_zone(c, h) = "segment" <=> InterfaceOf(c, h) = "seg"
           /\ firewall_zone(c, h) = "tunnel" <=> InterfaceOf(c, h) = "wg1"
           /\ firewall_zone(c, h) = "wan" => InterfaceOf(c, h) = "wan"
           /\ firewall_zone(c, h) # "unknown" /\ InterfaceOf(c, h) = "wan" => firewall_zone(c, h) = "wan"
           /\ firewall_zone(c, h) \in {"router", "lan", "wireguard", "segment", "tunnel", "wan", "unknown"}
<1>1. /\ h \in LanHosts => firewall_zone(c, h) = "lan" /\ InterfaceOf(c, h) = "lan"
      /\ h = "w" => /\ firewall_zone(c, h) = IF c.wg THEN "wireguard" ELSE "unknown"
                    /\ InterfaceOf(c, h) = IF c.wg THEN "wg0" ELSE "wan"
      /\ h = "t" => /\ firewall_zone(c, h) = IF c.wgc THEN "tunnel" ELSE "unknown"
                    /\ InterfaceOf(c, h) = IF c.wgc THEN "wg1" ELSE "wan"
      /\ h = "s" => /\ firewall_zone(c, h) = IF c.segment # "none" THEN "segment" ELSE "unknown"
                    /\ InterfaceOf(c, h) = IF c.segment # "none" THEN "seg" ELSE "wan"
      /\ h = "r" => firewall_zone(c, h) = "router" /\ InterfaceOf(c, h) = "self"
      /\ h = "i" => firewall_zone(c, h) = "wan" /\ InterfaceOf(c, h) = "wan"
      /\ h = "p" => firewall_zone(c, h) = "unknown" /\ InterfaceOf(c, h) = "wan"
  BY SMT DEF InterfaceOf, firewall_zone, LanHosts, Public
<1>2. h \in LanHosts \/ h = "w" \/ h = "t" \/ h = "s" \/ h = "r" \/ h = "i" \/ h = "p"
  BY DEF Hosts, LanHosts
<1> QED
  BY <1>1, <1>2, SMTT(30) DEF LanHosts

\* What the explanation has to agree with: the packet a flow sends from the zone it
\* belongs to.
Explained(c, f, to, p) ==
    /\ c \in Configs /\ validate_scenario_safety(c)
    /\ f \in Flows /\ f.src # "r" /\ to \in Hosts /\ p \in Packets
    /\ f.via = InterfaceOf(c, f.src)
    /\ p.iif = f.via /\ p.oif = InterfaceOf(c, to) /\ p.src = f.src /\ p.dst = to
    /\ p.dport = f.service /\ p.ct = "new"

LEMMA NoSpoof ==
    ASSUME NEW c, NEW f, NEW to, NEW p, Explained(c, f, to, p),
           firewall_zone(c, f.src) \in {"lan", "wireguard", "segment", "tunnel"}
    PROVE  /\ ~WanSpoof(p) /\ ~LanSpoof(p)
           /\ firewall_zone(c, f.src) = "lan" <=> p.iif = "lan"
           /\ firewall_zone(c, f.src) = "wireguard" <=> p.iif = "wg0"
           /\ firewall_zone(c, f.src) = "segment" <=> p.iif = "seg"
           /\ firewall_zone(c, f.src) = "tunnel" <=> p.iif = "wg1"
           /\ p.iif = "wg0" => f.src = "w" /\ c.wg
           /\ p.iif = "seg" => f.src = "s" /\ c.segment # "none"
           /\ p.iif = "lan" => f.src \in LanHosts
<1>1. c \in Configs /\ f.src \in Hosts /\ p.iif = InterfaceOf(c, f.src) /\ p.src = f.src
  BY DEF Explained, Flows
<1>2. /\ firewall_zone(c, f.src) = "lan" <=> p.iif = "lan"
      /\ firewall_zone(c, f.src) = "wireguard" <=> p.iif = "wg0"
      /\ firewall_zone(c, f.src) = "segment" <=> p.iif = "seg"
      /\ firewall_zone(c, f.src) = "tunnel" <=> p.iif = "wg1"
  BY ZenonT(30), <1>1, ZoneIs
<1>3. /\ p.iif = "wg0" => f.src = "w" /\ c.wg
      /\ p.iif = "seg" => f.src = "s" /\ c.segment # "none"
      /\ p.iif = "lan" => f.src \in LanHosts
  BY <1>1, InterfaceIs
<1>4. p.iif # "wan"
  BY <1>2
<1> QED
  BY <1>1, <1>2, <1>3, <1>4 DEF WanSpoof, LanSpoof

\* RouterVerdict is the input chain.
LEMMA RouterVerdictAgrees ==
    ASSUME NEW c, NEW f, NEW p, Explained(c, f, "r", p),
           firewall_zone(c, f.src) \in {"lan", "wireguard", "segment", "tunnel"}
    PROVE  RouterVerdict(c, f, firewall_zone(c, f.src)) = IF InputAdmits(c, p) THEN "allow" ELSE "deny"
<1> DEFINE src == firewall_zone(c, f.src)
<1>1. /\ ~WanSpoof(p) /\ ~LanSpoof(p)
      /\ src = "lan" <=> p.iif = "lan"
      /\ src = "wireguard" <=> p.iif = "wg0"
      /\ src = "segment" <=> p.iif = "seg"
      /\ src = "tunnel" <=> p.iif = "wg1"
      /\ p.iif = "wg0" => f.src = "w" /\ c.wg
      /\ p.iif = "seg" => f.src = "s" /\ c.segment # "none"
  BY NoSpoof
<1>2. src \in {"lan", "wireguard", "segment", "tunnel"}
  OBVIOUS
<1>3. p.dport = f.service /\ p.src = f.src /\ p.ct = "new" /\ validate_scenario_safety(c)
  BY DEF Explained
<1> HIDE DEF src
<1>4. ~CustomHit(c, p, "input", "deny")
  BY <1>3 DEF CustomHit, validate_scenario_safety
<1>5. CustomHit(c, p, "input", "allow") => p.iif = "lan"
  BY CustomIsLan
<1>6. InputAdmits(c, p) <=>
        \/ c.wg /\ c.peer /\ p.iif = "wan" /\ p.dport = "wg" /\ p.src = "p"
        \/ c.wg /\ p.iif = "wan" /\ p.dport = "wg"
        \/ c.wg /\ p.iif = "wg0" /\ p.src \in WgNetwork /\ p.dport \in {"https", "ssh", "dns"}
        \/ p.iif = "lan" /\ p.dport \in LanServices(c)
        \/ c.segment # "none" /\ p.iif = "seg" /\ p.src = "s" /\ p.dport = "ping"
        \/ CustomHit(c, p, "input", "allow")
  BY <1>1, <1>3, <1>4 DEF InputAdmits
<1>7. CASE src = "tunnel"
  <2>1. RouterVerdict(c, f, src) = "deny"
    BY <1>7, SMT DEF RouterVerdict
  <2>2. ~InputAdmits(c, p)
    BY <1>1, <1>5, <1>6, <1>7
  <2> QED
    BY <2>1, <2>2 DEF src
<1>8. CASE src = "segment"
  <2>1. RouterVerdict(c, f, src) = IF f.service = "ping" THEN "allow" ELSE "deny"
    BY <1>8, SMT DEF RouterVerdict
  <2>2. InputAdmits(c, p) <=> f.service = "ping"
    BY <1>1, <1>3, <1>5, <1>6, <1>8
  <2> QED
    BY <2>1, <2>2 DEF src
<1>9. CASE src = "wireguard"
  <2>1. RouterVerdict(c, f, src) = IF f.service = "dns" \/ f.service \in {"https", "ssh"} THEN "allow" ELSE "deny"
    BY <1>9, SMT DEF RouterVerdict
  <2>2. InputAdmits(c, p) <=> f.service = "dns" \/ f.service \in {"https", "ssh"}
    BY <1>1, <1>3, <1>5, <1>6, <1>9 DEF WgNetwork
  <2> QED
    BY <2>1, <2>2 DEF src
<1>10. CASE src = "lan"
  <2> DEFINE custom == \E rule \in c.rules : /\ rule.direction = "input" /\ rule.action = "allow"
                                             /\ firewall_rule_matches(rule, f)
  <2>1. CustomHit(c, p, "input", "allow") <=> custom
    BY <1>1, <1>3, <1>10 DEF CustomHit, firewall_rule_matches
  <2>2. RouterVerdict(c, f, src) =
          IF \/ f.service = "dns"
             \/ f.service \in {"https", "ssh"} /\ ~c.only
             \/ f.service \in {"ping", "dhcp"}
             \/ c.squid /\ f.service = "proxy"
             \/ custom
          THEN "allow" ELSE "deny"
    BY <1>10 DEF RouterVerdict
  <2> HIDE DEF custom
  <2>3. InputAdmits(c, p) <=>
          \/ f.service = "dns"
          \/ f.service \in {"https", "ssh"} /\ ~c.only
          \/ f.service \in {"ping", "dhcp"}
          \/ c.squid /\ f.service = "proxy"
          \/ custom
    BY <1>1, <1>3, <1>6, <1>10, <2>1 DEF LanServices
  <2> QED
    BY <2>2, <2>3 DEF src
<1> QED
  BY <1>2, <1>7, <1>8, <1>9, <1>10

\* Between the zones.
ZonesAllow(c, f, src, dst) ==
    \/ dst = "segment" /\ f.service = "app" /\ f.src \in ExtraLanSources(c)
    \/ dst = "wan" /\ c.wan
    \/ src = "wireguard" /\ dst = "lan"
    \/ dst = "tunnel"

\* A custom denial is explained as the chain applies it.
LEMMA DeniedAgrees ==
    ASSUME NEW c, NEW f, NEW to, NEW p, Explained(c, f, to, p), p.iif = "lan",
           firewall_zone(c, to) # "unknown"
    PROVE  Denied(c, f, firewall_zone(c, to)) <=> CustomHit(c, p, "forward", "deny")
<1>1. /\ c \in Configs /\ to \in Hosts /\ p.oif = InterfaceOf(c, to) /\ p.src = f.src /\ p.dport = f.service
  BY DEF Explained
<1>2. firewall_zone(c, to) = "wan" <=> p.oif = "wan"
  BY <1>1, ZoneIs, SMT
<1>3. \A rule : firewall_rule_scope(rule) \in {"router", "wan", "all"}
  BY DEF firewall_rule_scope
<1>4. \A rule : rule.direction = "forward" => firewall_rule_scope(rule) # "router"
  BY DEF firewall_rule_scope
<1> QED
  BY <1>1, <1>2, <1>3, <1>4 DEF Denied, CustomHit, firewall_rule_matches

\* Beyond the cuts, the chain accepts what the zones allow.
LEMMA ZonesAgree ==
    ASSUME NEW c, NEW f, NEW to, NEW p, Explained(c, f, to, p), to # "r",
           firewall_zone(c, f.src) \in {"lan", "wireguard"}, firewall_zone(c, to) # "unknown",
           ~(firewall_zone(c, f.src) = "lan" /\ firewall_zone(c, to) = "lan")
    PROVE  ZonesAllow(c, f, firewall_zone(c, f.src), firewall_zone(c, to)) <=>
             \/ p.ct = "established" \/ CustomHit(c, p, "forward", "allow") \/ SegmentPass(c, p)
             \/ (c.wan /\ p.iif = "lan" /\ p.oif = "wan") \/ TunnelPass(c, p) \/ PortForwardPass(c, p)
             \/ RemoteSitePass(c, p)
<1> DEFINE src == firewall_zone(c, f.src)
           dst == firewall_zone(c, to)
<1>1. /\ c \in Configs /\ f.src \in Hosts /\ to \in Hosts /\ p.oif = InterfaceOf(c, to)
      /\ p.src = f.src /\ p.dst = to /\ p.dport = f.service /\ p.ct = "new"
  BY DEF Explained, Flows
<1>2. /\ src = "lan" <=> p.iif = "lan"
      /\ src = "wireguard" <=> p.iif = "wg0"
      /\ p.iif = "wg0" => f.src = "w" /\ c.wg
      /\ p.iif = "lan" => f.src \in LanHosts
  BY NoSpoof
<1>3. /\ dst = "lan" <=> p.oif = "lan"
      /\ dst = "segment" <=> p.oif = "seg"
      /\ dst = "tunnel" <=> p.oif = "wg1"
      /\ dst = "wan" <=> p.oif = "wan"
  BY <1>1, ZoneIs, SMT
<1>4. /\ p.oif = "seg" => to = "s" /\ c.segment # "none"
      /\ p.oif = "wg1" => c.wgc
  BY <1>1, InterfaceIs
<1>5. (src = "lan" \/ src = "wireguard") /\ ~(src = "lan" /\ dst = "lan")
  OBVIOUS
<1> HIDE DEF src, dst
<1>6. CustomHit(c, p, "forward", "allow") => c.wan /\ p.oif = "wan" /\ p.iif = "lan"
  BY DEF CustomHit, firewall_rule_scope
<1>7. SegmentPass(c, p) <=> dst = "segment" /\ f.service = "app" /\ f.src \in ExtraLanSources(c)
  <2>1. f.src \in ExtraLanSources(c) => p.iif = extra_lan_source_interface(c)
    BY <1>2, <1>5 DEF ExtraLanSources, extra_lan_source_interface, WgNetwork, LanHosts
  <2> QED
    BY <1>1, <1>3, <1>4, <2>1 DEF SegmentPass
<1>8. TunnelPass(c, p) <=> src = "wireguard" /\ (dst = "lan" \/ (dst = "wan" /\ c.wan))
  BY <1>2, <1>3 DEF TunnelPass
<1>9. PortForwardPass(c, p) => TunnelPass(c, p)
  BY <1>2 DEF PortForwardPass, TunnelPass
<1>10. RemoteSitePass(c, p) <=> dst = "tunnel"
  BY <1>2, <1>3, <1>4, <1>5 DEF RemoteSitePass
<1>11. ZonesAllow(c, f, src, dst) <=>
         \/ p.ct = "established" \/ CustomHit(c, p, "forward", "allow") \/ SegmentPass(c, p)
         \/ (c.wan /\ p.iif = "lan" /\ p.oif = "wan") \/ TunnelPass(c, p) \/ PortForwardPass(c, p)
         \/ RemoteSitePass(c, p)
  BY ZenonT(30), <1>1, <1>2, <1>3, <1>5, <1>6, <1>7, <1>8, <1>9, <1>10 DEF ZonesAllow
<1> QED
  BY <1>11 DEF src, dst

LEMMA ForwardAgrees ==
    ASSUME NEW c, NEW f, NEW to, NEW p, NEW isOpen \in BOOLEAN, NEW isLearned \in BOOLEAN,
           Explained(c, f, to, p), to # "r"
    PROVE  /\ explain_verdict(c, f, to) = "allow" => ForwardAdmits(c, isOpen, isLearned, p)
           /\ explain_verdict(c, f, to) = "deny" => ~ForwardAdmits(c, isOpen, isLearned, p)
<1> DEFINE src == firewall_zone(c, f.src)
           dst == firewall_zone(c, to)
           verdict == explain_verdict(c, f, to)
<1>1. c \in Configs /\ f.src \in Hosts /\ f.src # "r" /\ to \in Hosts /\ p.src = f.src /\ p.dport = f.service /\ p.ct = "new"
  BY DEF Explained, Flows
<1>2. verdict =
        IF "unknown" \in {src, dst} \/ src = "router" THEN "unknown"
        ELSE IF src = dst /\ src \in {"lan", "segment"} THEN "not_routed"
        ELSE IF src = "wan" THEN "unknown"
        ELSE IF dst = "router" THEN RouterVerdict(c, f, src)
        ELSE IF c.profile /\ f.src = "d" THEN IF f.service \in {"dns", "dot"} THEN "deny" ELSE "unknown"
        ELSE IF src = "lan" /\ Denied(c, f, dst) THEN "deny"
        ELSE IF c.squid /\ c.restricted /\ f.src = "d" THEN "deny"
        ELSE IF src \in {"tunnel", "segment"} THEN "deny"
        ELSE IF ZonesAllow(c, f, src, dst) THEN "allow" ELSE "deny"
  BY DEF explain_verdict, ZonesAllow
<1>3. /\ src # "router" /\ dst # "router"
      /\ src \in {"lan", "wireguard", "segment", "tunnel", "wan", "unknown"}
  BY <1>1, ZoneIs, SMT
<1>4. ASSUME src \in {"lan", "wireguard", "segment", "tunnel"}
      PROVE  /\ ~WanSpoof(p) /\ ~LanSpoof(p)
             /\ src = "lan" <=> p.iif = "lan"
             /\ src = "segment" <=> p.iif = "seg"
             /\ src = "tunnel" <=> p.iif = "wg1"
  BY <1>4, NoSpoof
<1>5. dst # "unknown" /\ p.iif = "lan" => (Denied(c, f, dst) <=> CustomHit(c, p, "forward", "deny"))
  BY DeniedAgrees
<1>6. src \in {"lan", "wireguard"} /\ dst # "unknown" /\ ~(src = "lan" /\ dst = "lan") =>
        (ZonesAllow(c, f, src, dst) /\ ~ForwardCut(c, isOpen, isLearned, p) <=> ForwardAdmits(c, isOpen, isLearned, p))
  BY ZonesAgree DEF ForwardAdmits
<1>7. SegmentPass(c, p) => p.iif \in {"lan", "wg0"}
  BY SourcesAre, <1>1 DEF SegmentPass
<1>8. p.iif \in {"seg", "wg1"} => ~ForwardAdmits(c, isOpen, isLearned, p)
  BY <1>1, <1>7, CustomIsLan DEF ForwardAdmits, TunnelPass, PortForwardPass, RemoteSitePass
<1>9. ForwardCut(c, isOpen, isLearned, p) => ~ForwardAdmits(c, isOpen, isLearned, p)
  BY DEF ForwardAdmits
<1> SUFFICES /\ verdict = "allow" => ForwardAdmits(c, isOpen, isLearned, p)
             /\ verdict = "deny" => ~ForwardAdmits(c, isOpen, isLearned, p)
  OBVIOUS
<1> HIDE DEF src, dst, verdict
<1>10. CASE src \in {"wan", "unknown"} \/ dst = "unknown" \/ (src = dst /\ src \in {"lan", "segment"})
  BY <1>2, <1>3, <1>10
<1>11. CASE src \in {"lan", "wireguard", "segment", "tunnel"} /\ dst # "unknown" /\ ~(src = dst /\ src \in {"lan", "segment"})
  <2>1. CASE c.profile /\ f.src = "d"
    <3>1. f.service \in {"dns", "dot"} => ForwardCut(c, isOpen, isLearned, p)
      BY <1>1, <2>1 DEF ForwardCut, ProfileCut
    <3> QED
      BY <1>2, <1>3, <1>9, <1>11, <2>1, <3>1
  <2>2. CASE ~(c.profile /\ f.src = "d") /\ src = "lan" /\ Denied(c, f, dst)
    <3>1. ForwardCut(c, isOpen, isLearned, p)
      BY <1>4, <1>5, <1>11, <2>2 DEF ForwardCut
    <3> QED
      BY <1>2, <1>3, <1>9, <1>11, <2>2, <3>1
  <2>3. CASE ~(c.profile /\ f.src = "d") /\ ~(src = "lan" /\ Denied(c, f, dst)) /\ c.squid /\ c.restricted /\ f.src = "d"
    <3>1. ForwardCut(c, isOpen, isLearned, p)
      BY <1>1, <2>3 DEF ForwardCut
    <3> QED
      BY <1>2, <1>3, <1>9, <1>11, <2>3, <3>1
  <2>4. CASE ~(c.profile /\ f.src = "d") /\ ~(src = "lan" /\ Denied(c, f, dst)) /\ ~(c.squid /\ c.restricted /\ f.src = "d")
    <3>1. CASE src \in {"tunnel", "segment"}
      <4>1. verdict = "deny"
        BY <1>2, <1>3, <1>11, <2>4, <3>1
      <4> QED
        BY <1>4, <1>8, <1>11, <3>1, <4>1
    <3>2. CASE src \in {"lan", "wireguard"}
      <4>1. verdict = IF ZonesAllow(c, f, src, dst) THEN "allow" ELSE "deny"
        BY <1>2, <1>3, <1>11, <2>4, <3>2
      <4>2. CustomHit(c, p, "forward", "deny") => src = "lan" /\ Denied(c, f, dst)
        BY <1>4, <1>5, <1>11, CustomIsLan
      <4>3. ~ForwardCut(c, isOpen, isLearned, p)
        BY <1>1, <1>4, <1>11, <2>4, <4>2 DEF ForwardCut, ProfileCut
      <4> QED
        BY <1>6, <1>11, <3>2, <4>1, <4>3
    <3> QED
      BY <1>11, <3>1, <3>2
  <2> QED
    BY <2>1, <2>2, <2>3, <2>4
<1> QED
  BY <1>3, <1>10, <1>11

\* What is explained passes, or does not, as it is explained.
LEMMA InvExplains == FirewallInv => ExplanationAgrees
<1> SUFFICES ASSUME FirewallInv, NEW src \in Hosts, NEW dst \in Hosts, NEW service \in Services, src # "r"
             PROVE  LET f == [src |-> src, dst |-> dst, service |-> service, user |-> "none",
                              via |-> InterfaceOf(policy, src)]
                        verdict == explain_firewall_flow(policy, f)
                    IN  /\ verdict = "allow" => PassesNew(Ruleset(policy, open, learned), policy, f)
                        /\ verdict = "deny" => ~PassesNew(Ruleset(policy, open, learned), policy, f)
  BY DEF ExplanationAgrees
<1> DEFINE f == [src |-> src, dst |-> dst, service |-> service, user |-> "none",
                 via |-> InterfaceOf(policy, src)]
           to == Translated(policy, f)
           p == Request(policy, f, to, "new")
           verdict == explain_verdict(policy, f, to)
<1>1. policy \in Configs /\ validate_scenario_safety(policy) /\ open \in BOOLEAN /\ learned \in BOOLEAN
  BY DEF FirewallInv
<1>2. InterfaceOf(policy, src) \in Interfaces /\ "none" \in Users
  BY <1>1, InterfaceIs, Values
<1>3. f \in Flows /\ f.src = src /\ f.dst = dst /\ f.service = service /\ f.via = InterfaceOf(policy, src)
  BY <1>2, SMT DEF Flows
<1> SUFFICES /\ explain_firewall_flow(policy, f) = "allow" => PassesNew(Ruleset(policy, open, learned), policy, f)
             /\ explain_firewall_flow(policy, f) = "deny" => ~PassesNew(Ruleset(policy, open, learned), policy, f)
  OBVIOUS
<1> HIDE DEF f
<1>4. explain_firewall_flow(policy, f) = verdict
  <2>1. firewall_zone(policy, f.src) = "wireguard" <=> f.via = "wg0"
    BY <1>1, <1>3, ZoneIs, SMT
  <2> QED
    BY <2>1 DEF explain_firewall_flow, Translated
<1>5. to \in Hosts /\ "new" \in {"new", "established"}
  BY <1>3, TranslatedIs
<1>6. PassesNew(Ruleset(policy, open, learned), policy, f) <=>
        IF to = "r" THEN InputAdmits(policy, p) ELSE ForwardAdmits(policy, open, learned, p)
  BY <1>1, <1>3, PassesNewIs
<1> HIDE DEF to
<1>7. p \in Packets
  BY <1>1, <1>3, <1>5, RequestIs
<1>8. /\ p.iif = f.via /\ p.oif = InterfaceOf(policy, to) /\ p.src = f.src /\ p.dst = to
      /\ p.dport = f.service /\ p.ct = "new"
  BY <1>1, <1>3, <1>5, RequestIs, SMTT(30)
<1> HIDE DEF p
<1>9. Explained(policy, f, to, p)
  BY <1>1, <1>3, <1>5, <1>7, <1>8 DEF Explained
<1>10. CASE to # "r"
  BY <1>1, <1>4, <1>6, <1>9, <1>10, ForwardAgrees
<1>11. CASE to = "r"
  <2> DEFINE zone == firewall_zone(policy, f.src)
  <2>1. zone # "router" /\ zone \in {"router", "lan", "wireguard", "segment", "tunnel", "wan", "unknown"}
    BY <1>1, <1>3, ZoneIs, SMTT(30)
  <2>2. firewall_zone(policy, "r") = "router"
    BY <1>1, <1>5, <1>11, ZoneIs
  <2>3. verdict = IF zone \in {"wan", "unknown"} THEN "unknown" ELSE RouterVerdict(policy, f, zone)
    BY <1>11, <2>1, <2>2 DEF explain_verdict
  <2>4. zone \in {"lan", "wireguard", "segment", "tunnel"} =>
          RouterVerdict(policy, f, zone) = IF InputAdmits(policy, p) THEN "allow" ELSE "deny"
    BY <1>9, <1>11, RouterVerdictAgrees
  <2> HIDE DEF zone
  <2> QED
    BY ZenonT(30), <1>4, <1>6, <1>11, <2>1, <2>3, <2>4
<1> QED
  BY <1>10, <1>11

\* The page's explanation of the policy (explain_firewall_flow) and the policy that
\* generate_nftables renders agree: what is explained as allowed passes the chains
\* and what is explained as denied does not, for every set of custom rules.
THEOREM ExplanationsAgree == FirewallSpec => []ExplanationAgrees
<1>1. FirewallInit => FirewallInv
  BY FirewallStarts
<1>2. FirewallInv /\ [FirewallNext]_firewallVars => FirewallInv'
  BY FirewallStep
<1>3. FirewallInv => ExplanationAgrees
  BY InvExplains
<1> QED
  BY <1>1, <1>2, <1>3, PTL DEF FirewallSpec

-----------------------------------------------------------------------------
(***************************************************************************)
(* AccessSchedule. What is allowed turns at boundaries of a day alone      *)
(* (ChangesAtBoundaries), and every week is like the one before            *)
(* (WeeksAreAlike), so the first turn after a status was shown is one of   *)
(* the boundaries of the nine days it looked at (TurnsAreAnnounced).       *)
(* ShownSince follows a status from the time it was shown.                 *)
(***************************************************************************)

USE ScheduleAssumption

\* Windows per day; a whole day is one too, also where a day has one unit.
Spans == (0 .. DayLength - 1) \X (0 .. DayLength - 1)
DayTables == [Days -> SUBSET Spans]

\* The changes device_profile_status looks for.
Changes(windows, t) ==
    {at \in Boundaries(windows, t) :
        at > t /\ schedule_allowed(windows, at) # schedule_allowed(windows, t)}

\* A status that was shown at some time t until now.
ShownSince(t) ==
    /\ shown = device_profile_status(schedule, t)
    /\ shown.change => now <= shown.at
    /\ ~(shown.change /\ now >= shown.at) =>
         schedule_allowed(effective_day_windows(schedule), now) = shown.allowed

\* The inductive invariant.
Announced ==
    /\ schedule \in Schedules /\ now \in 0 .. 2 * Week
    /\ \E t \in 0 .. now : ShownSince(t)

-----------------------------------------------------------------------------
\* Later days begin later.
LEMMA DaysInOrder ==
    ASSUME NEW p \in Int, NEW q \in Int, p <= q
    PROVE  p * DayLength <= q * DayLength
<1>1. (q - p) \in Nat
  BY SMT
<1>2. (q - p) * DayLength \in Nat
  BY <1>1, SMT
<1>3. (q - p) * DayLength = q * DayLength - p * DayLength
  BY SMT
<1> QED
  BY <1>2, <1>3, SMT

\* Every time is a time of a day.
LEMMA TimeSplits ==
    ASSUME NEW t \in Nat
    PROVE  /\ t \div DayLength \in Nat /\ t % DayLength \in 0 .. DayLength - 1
           /\ t = (t \div DayLength) * DayLength + (t % DayLength)
  BY SMT

\* The day and the time of day of a time given by them.
LEMMA TimeOfDay ==
    ASSUME NEW q \in Nat, NEW r \in 0 .. DayLength - 1, NEW t, t = q * DayLength + r
    PROVE  t \in Nat /\ t \div DayLength = q /\ DayOf(t) = q % 7 /\ TimeOf(t) = r
<1>1. t \in Nat
  BY SMT
<1> DEFINE p == t \div DayLength
<1>2. /\ p \in Nat /\ t % DayLength \in 0 .. DayLength - 1
      /\ t = p * DayLength + (t % DayLength)
  BY <1>1, TimeSplits
<1> HIDE DEF p
<1>3. ~ p + 1 <= q
  <2>1. SUFFICES ASSUME p + 1 <= q PROVE FALSE
    OBVIOUS
  <2>2. (p + 1) * DayLength <= q * DayLength
    BY <1>2, <2>1, DaysInOrder, SMTT(30)
  <2>3. (p + 1) * DayLength = p * DayLength + DayLength
    BY <1>2, SMT
  <2> QED
    BY <1>2, <2>2, <2>3, SMT
<1>4. ~ q + 1 <= p
  <2>1. SUFFICES ASSUME q + 1 <= p PROVE FALSE
    OBVIOUS
  <2>2. (q + 1) * DayLength <= p * DayLength
    BY <1>2, <2>1, DaysInOrder, SMTT(30)
  <2>3. (q + 1) * DayLength = q * DayLength + DayLength
    BY SMT
  <2> QED
    BY <1>2, <2>2, <2>3, SMT
<1>5. p = q
  BY <1>2, <1>3, <1>4, SMTT(30)
<1>6. t % DayLength = r
  BY <1>2, <1>5, SMT
<1> QED
  BY <1>1, <1>5, <1>6 DEF p, DayOf, TimeOf

\* A midnight begins its day.
LEMMA MidnightOf ==
    ASSUME NEW q \in Nat
    PROVE  q * DayLength \in Nat /\ DayOf(q * DayLength) = q % 7
<1>1. 0 \in 0 .. DayLength - 1 /\ q * DayLength = q * DayLength + 0
  BY SMT
<1> QED
  BY <1>1, TimeOfDay

\* The boundaries of a day are in it or at its end.
LEMMA BoundariesOfDay ==
    ASSUME NEW windows \in DayTables, NEW q \in Nat,
           NEW b \in DayBoundaries(windows, q * DayLength)
    PROVE  b \in Nat /\ q * DayLength <= b /\ b <= q * DayLength + DayLength
<1>1. q * DayLength \in Nat
  BY SMT
<1>2. DayOf(q * DayLength) = q % 7
  BY MidnightOf
<1>3. windows[q % 7] \subseteq Spans
  BY SMT DEF DayTables, Days
<1>4. \A w \in Spans : EndOf(w) \in 0 .. DayLength /\ w[1] \in 0 .. DayLength
  BY SMT DEF Spans, EndOf
<1> QED
  BY <1>1, <1>2, <1>3, <1>4, SMTT(30) DEF DayBoundaries

\* The same days of two weeks have the same boundaries.
LEMMA BoundariesRecur ==
    ASSUME NEW windows \in DayTables, NEW q \in Nat,
           NEW b \in DayBoundaries(windows, (q + 7) * DayLength)
    PROVE  b - Week \in DayBoundaries(windows, q * DayLength)
<1>1. q * DayLength \in Nat /\ (q + 7) * DayLength = q * DayLength + Week /\ Week \in Nat
  BY SMT DEF Week
<1>2. DayOf(q * DayLength) = q % 7
  BY MidnightOf
<1>3. DayOf((q + 7) * DayLength) = (q + 7) % 7
  <2>1. q + 7 \in Nat
    BY SMT
  <2> QED
    BY <2>1, MidnightOf
<1>4. (q + 7) % 7 = q % 7
  BY SMT
<1>5. windows[q % 7] \subseteq Spans
  BY SMT DEF DayTables, Days
<1>6. \A w \in Spans : EndOf(w) \in Nat /\ w[1] \in Nat
  BY SMT DEF Spans, EndOf
<1>7. CASE b = (q + 7) * DayLength
  BY <1>1, <1>7, SMT DEF DayBoundaries
<1>8. CASE \E w \in windows[q % 7] : b = (q + 7) * DayLength + w[1] \/ b = (q + 7) * DayLength + EndOf(w)
  <2>1. PICK w \in windows[q % 7] : b = (q + 7) * DayLength + w[1] \/ b = (q + 7) * DayLength + EndOf(w)
    BY <1>8
  <2>2. b - Week = q * DayLength + w[1] \/ b - Week = q * DayLength + EndOf(w)
    BY <1>1, <1>5, <1>6, <2>1, SMTT(30)
  <2> QED
    BY <1>2, <2>2, SMT DEF DayBoundaries
<1> QED
  BY <1>3, <1>4, <1>7, <1>8 DEF DayBoundaries

\* A schedule allows the same in every week.
LEMMA WeeksAreAlike ==
    ASSUME NEW windows, NEW t \in Nat
    PROVE  schedule_allowed(windows, t + Week) = schedule_allowed(windows, t)
<1> DEFINE q == t \div DayLength
           r == t % DayLength
<1>1. q \in Nat /\ r \in 0 .. DayLength - 1 /\ t = q * DayLength + r
  BY TimeSplits
<1> HIDE DEF q, r
<1>2. t + Week = (q + 7) * DayLength + r
  BY <1>1, SMT DEF Week
<1>3. DayOf(t) = q % 7 /\ TimeOf(t) = r
  BY <1>1, TimeOfDay
<1>4. DayOf(t + Week) = (q + 7) % 7 /\ TimeOf(t + Week) = r
  <2>1. q + 7 \in Nat
    BY <1>1, SMT
  <2> QED
    BY ZenonT(30), <1>1, <1>2, <2>1, TimeOfDay
<1>5. (q + 7) % 7 = q % 7
  BY <1>1, SMT
<1> QED
  BY <1>3, <1>4, <1>5 DEF schedule_allowed

\* What is allowed changes at the boundaries of the day alone.
LEMMA ChangesAtBoundaries ==
    ASSUME NEW windows \in DayTables, NEW t \in Nat,
           schedule_allowed(windows, t + 1) # schedule_allowed(windows, t)
    PROVE  t + 1 \in DayBoundaries(windows, ((t + 1) \div DayLength) * DayLength)
<1> DEFINE q == (t + 1) \div DayLength
           r == (t + 1) % DayLength
<1>1. q \in Nat /\ r \in 0 .. DayLength - 1 /\ t + 1 = q * DayLength + r
  BY TimeSplits, SMT
<1> HIDE DEF q, r
<1>2. DayOf(t + 1) = q % 7 /\ TimeOf(t + 1) = r
  BY <1>1, TimeOfDay
<1>3. q * DayLength \in Nat /\ DayOf(q * DayLength) = q % 7
  BY <1>1, MidnightOf
<1>4. CASE r = 0
  BY <1>1, <1>3, <1>4, SMTT(30) DEF DayBoundaries, q
<1>5. CASE r # 0
  <2> DEFINE e == r - 1
  <2>1. e \in 0 .. DayLength - 1 /\ t = q * DayLength + e
    BY <1>1, <1>3, <1>5, SMTT(30)
  <2> HIDE DEF e
  <2>2. DayOf(t) = q % 7 /\ TimeOf(t) = e
    BY <1>1, <2>1, TimeOfDay
  <2>3. windows[q % 7] \subseteq Spans
    BY <1>1, SMT DEF DayTables, Days
  <2>4. PICK w \in windows[q % 7] : (w[1] <= r /\ r < EndOf(w)) # (w[1] <= e /\ e < EndOf(w))
    BY <1>2, <2>2 DEF schedule_allowed
  <2>5. w[1] \in Nat /\ EndOf(w) \in Nat
    BY <2>3, SMT DEF Spans, EndOf
  <2>6. r = w[1] \/ r = EndOf(w)
    BY <1>1, <2>4, <2>5, SMTT(30) DEF e
  <2>7. t + 1 = q * DayLength + w[1] \/ t + 1 = q * DayLength + EndOf(w)
    BY <1>1, <2>6
  <2>8. t + 1 \in DayBoundaries(windows, q * DayLength)
    BY <1>3, <2>7, SMT DEF DayBoundaries
  <2> QED
    BY <2>8 DEF q
<1> QED
  BY <1>4, <1>5

-----------------------------------------------------------------------------
\* effective_day_windows yields windows for every day.
LEMMA WindowsPerDay ==
    ASSUME NEW s \in Schedules
    PROVE  effective_day_windows(s) \in DayTables
<1>1. WindowSets \subseteq SUBSET Spans /\ {<<0, DayLength - 1>>} \subseteq Spans
  BY SMT DEF WindowSets, Windows, Spans
<1>2. s.windows \in WindowSets /\ (s.weekend = "custom" => s.custom \in WindowSets)
  BY SMT DEF Schedules
<1> QED
  BY <1>1, <1>2, SMT DEF effective_day_windows, DayTables

\* The time rules of the firewall allow what the schedule allows.
LEMMA RulesAreSchedule ==
    ASSUME NEW s \in Schedules, NEW t \in Nat
    PROVE  KernelAllows(s, t) = schedule_allowed(effective_day_windows(s), t)
<1> DEFINE windows == effective_day_windows(s)
           d == DayOf(t)
<1>1. d \in Days
  <2>1. t \div DayLength \in Nat
    BY TimeSplits
  <2> QED
    BY <2>1, SMT DEF DayOf, Days
<1>2. \A day \in Days : (day + 1) % 7 = (d + 1) % 7 => day = d
  BY <1>1, SMT DEF Days
<1> HIDE DEF windows, d
<1>3. ASSUME KernelAllows(s, t) PROVE schedule_allowed(windows, t)
  <2>1. PICK rule \in write_allowed_windows(s) :
          rule[1] = (d + 1) % 7 /\ rule[2] <= TimeOf(t) /\ TimeOf(t) < rule[3]
    BY <1>3 DEF KernelAllows, d
  <2>2. PICK day \in Days : \E w \in windows[day] : rule = <<(day + 1) % 7, w[1], EndOf(w)>>
    BY SMT DEF write_allowed_windows, windows
  <2>3. PICK w \in windows[day] : rule = <<(day + 1) % 7, w[1], EndOf(w)>>
    BY <2>2
  <2>4. day = d /\ w[1] <= TimeOf(t) /\ TimeOf(t) < EndOf(w)
    BY <1>2, <2>1, <2>3, SMTT(30)
  <2> QED
    BY <2>4 DEF schedule_allowed, d
<1>4. ASSUME schedule_allowed(windows, t) PROVE KernelAllows(s, t)
  <2>1. PICK w \in windows[d] : w[1] <= TimeOf(t) /\ TimeOf(t) < EndOf(w)
    BY <1>4 DEF schedule_allowed, d
  <2>2. <<(d + 1) % 7, w[1], EndOf(w)>> \in write_allowed_windows(s)
    BY <1>1, SMT DEF write_allowed_windows, windows
  <2> QED
    BY <2>1, <2>2, SMT DEF KernelAllows, d
<1> QED
  BY <1>3, <1>4 DEF windows, KernelAllows, schedule_allowed

\* All boundaries are times.
LEMMA BoundariesAreTimes ==
    ASSUME NEW windows \in DayTables, NEW t \in Nat
    PROVE  Boundaries(windows, t) \subseteq Nat /\ Changes(windows, t) \subseteq Nat
<1>1. t \div DayLength \in Nat
  BY TimeSplits
<1>2. \A offset \in 0 .. 8 : t \div DayLength + offset \in Nat
  BY <1>1, SMT
<1>3. Boundaries(windows, t) \subseteq Nat
  BY <1>2, BoundariesOfDay DEF Boundaries
<1> QED
  BY <1>3 DEF Changes

\* The first change is later, and what is allowed turns at it.
LEMMA FirstChange ==
    ASSUME NEW windows \in DayTables, NEW t \in Nat, Changes(windows, t) # {}
    PROVE  /\ Min(Changes(windows, t)) \in Nat /\ t < Min(Changes(windows, t))
           /\ schedule_allowed(windows, Min(Changes(windows, t))) # schedule_allowed(windows, t)
           /\ \A y \in Changes(windows, t) : Min(Changes(windows, t)) <= y
           /\ Min(Changes(windows, t)) \in Boundaries(windows, t)
<1>1. Changes(windows, t) \subseteq Nat
  BY BoundariesAreTimes
<1>2. /\ Min(Changes(windows, t)) \in Changes(windows, t)
      /\ \A y \in Changes(windows, t) : Min(Changes(windows, t)) <= y
  BY <1>1, FirstIs
<1>3. \A y \in Changes(windows, t) :
        /\ y \in Nat /\ t < y /\ y \in Boundaries(windows, t)
        /\ schedule_allowed(windows, y) # schedule_allowed(windows, t)
  BY <1>1, SMT DEF Changes
<1> QED
  BY <1>2, <1>3

\* The first change is at most a week away: a later boundary with a change has
\* one a week before it.
LEMMA ChangeWithinWeek ==
    ASSUME NEW windows \in DayTables, NEW t \in Nat, Changes(windows, t) # {}
    PROVE  Min(Changes(windows, t)) <= t + Week
<1> DEFINE b == Min(Changes(windows, t))
           d == t \div DayLength
<1>1. /\ b \in Nat /\ t < b /\ schedule_allowed(windows, b) # schedule_allowed(windows, t)
      /\ \A y \in Changes(windows, t) : b <= y
      /\ b \in Boundaries(windows, t)
  BY FirstChange
<1>2. d \in Nat /\ t % DayLength \in 0 .. DayLength - 1 /\ t = d * DayLength + (t % DayLength)
  BY TimeSplits
<1>3. PICK o \in 0 .. 8 : b \in DayBoundaries(windows, (d + o) * DayLength)
  BY <1>1 DEF Boundaries
<1> HIDE DEF b, d
<1>4. SUFFICES ASSUME t + Week < b PROVE FALSE
  BY <1>1, SMT DEF b, Week
<1>5. d + o \in Nat
  BY <1>2, SMT
<1>6. b <= (d + o) * DayLength + DayLength
  BY <1>3, <1>5, BoundariesOfDay
<1>7. o >= 7
  <2>1. SUFFICES ASSUME o <= 6 PROVE FALSE
    BY SMT
  <2>2. (d + o) * DayLength <= (d + 6) * DayLength
    BY <1>2, <2>1, DaysInOrder, SMTT(30)
  <2>3. (d + 6) * DayLength = d * DayLength + 6 * DayLength
    BY <1>2, SMT
  <2>4. (d + o) * DayLength \in Nat /\ d * DayLength \in Nat
    BY <1>2, <1>5, MidnightOf
  <2> QED
    BY <1>1, <1>2, <1>4, <1>6, <2>2, <2>3, <2>4, SMTT(30) DEF Week
<1> DEFINE p == o - 7
<1>8. p \in 0 .. 8 /\ d + p \in Nat /\ d + o = (d + p) + 7
  BY <1>2, <1>7, SMT
<1> HIDE DEF p
<1>9. b - Week \in DayBoundaries(windows, (d + p) * DayLength)
  BY <1>3, <1>8, BoundariesRecur
<1>10. b - Week \in Boundaries(windows, t)
  BY <1>8, <1>9 DEF Boundaries, d
<1>11. b - Week \in Nat /\ b - Week > t /\ b = (b - Week) + Week /\ ~ b <= b - Week
  BY <1>1, <1>4, SMT DEF Week
<1>12. schedule_allowed(windows, b) = schedule_allowed(windows, b - Week)
  BY <1>11, WeeksAreAlike
<1>13. b - Week \in Changes(windows, t)
  BY <1>1, <1>10, <1>11, <1>12 DEF Changes
<1> QED
  BY <1>1, <1>11, <1>13

\* The boundaries of nine days suffice: what turns in the two weeks has been
\* announced, or turned a week earlier.
LEMMA TurnsAreAnnounced ==
    ASSUME NEW windows \in DayTables, NEW t \in Nat, NEW u \in Nat,
           t <= u, u + 1 <= 2 * Week,
           schedule_allowed(windows, u) = schedule_allowed(windows, t),
           schedule_allowed(windows, u + 1) # schedule_allowed(windows, t)
    PROVE  Changes(windows, t) # {} /\ Min(Changes(windows, t)) <= u + 1
<1> DEFINE d == t \div DayLength
           q == (u + 1) \div DayLength
           v == u + 1
<1>1. d \in Nat /\ t % DayLength \in 0 .. DayLength - 1 /\ t = d * DayLength + (t % DayLength)
  BY TimeSplits
<1>2. v \in Nat
  BY SMT
<1>3. q \in Nat /\ v % DayLength \in 0 .. DayLength - 1 /\ v = q * DayLength + (v % DayLength)
  BY <1>2, TimeSplits
<1>4. v \in DayBoundaries(windows, q * DayLength)
  BY ChangesAtBoundaries
<1>5. v > t /\ v <= 2 * Week /\ schedule_allowed(windows, v) # schedule_allowed(windows, t)
  BY SMT
<1>6. v = u + 1
  OBVIOUS
<1> HIDE DEF d, q, v
<1>7. d * DayLength \in Nat /\ q * DayLength \in Nat
  BY <1>1, <1>3, MidnightOf
<1>8. d <= q
  <2>1. SUFFICES ASSUME q + 1 <= d PROVE FALSE
    BY <1>1, <1>3, SMT
  <2>2. (q + 1) * DayLength <= d * DayLength
    BY <1>1, <1>3, <2>1, DaysInOrder, SMTT(30)
  <2>3. (q + 1) * DayLength = q * DayLength + DayLength
    BY <1>3, SMT
  <2> QED
    BY <1>1, <1>2, <1>3, <1>5, <1>7, <2>2, <2>3, SMTT(30)
<1>9. q <= 14
  <2>1. SUFFICES ASSUME 15 <= q PROVE FALSE
    BY <1>3, SMT
  <2>2. 15 * DayLength <= q * DayLength
    BY <1>3, <2>1, DaysInOrder, SMTT(30)
  <2> QED
    BY <1>2, <1>3, <1>5, <1>7, <2>2, SMTT(30) DEF Week
<1>10. SUFFICES \E y \in Changes(windows, t) : y <= v
  <2>1. PICK y \in Changes(windows, t) : y <= v
    BY <1>10
  <2>2. Min(Changes(windows, t)) \in Nat /\ Min(Changes(windows, t)) <= y /\ y \in Nat
    BY FirstChange, BoundariesAreTimes
  <2>3. Min(Changes(windows, t)) <= v
    BY <1>2, <2>1, <2>2, SMTT(30)
  <2> QED
    BY <1>6, <2>1, <2>3
<1>11. CASE q <= d + 8
  <2>1. q - d \in 0 .. 8 /\ d + (q - d) = q
    BY <1>1, <1>3, <1>8, <1>11, SMTT(30)
  <2>2. v \in Boundaries(windows, t)
    BY <1>4, <2>1 DEF Boundaries, d
  <2>3. v \in Changes(windows, t) /\ v <= v
    BY <1>2, <1>5, <2>2, SMTT(30) DEF Changes
  <2> QED
    BY <2>3
<1>12. CASE q > d + 8
  <2> DEFINE o == q - 7 - d
             y == v - Week
  <2>1. o \in 0 .. 8 /\ o >= 2 /\ d + o \in Nat /\ (d + o) + 7 = q
    BY <1>1, <1>3, <1>9, <1>12, SMTT(30)
  <2> HIDE DEF o
  <2>2. y \in DayBoundaries(windows, (d + o) * DayLength)
    BY <1>4, <2>1, BoundariesRecur
  <2>3. y \in Boundaries(windows, t)
    BY <2>1, <2>2 DEF Boundaries, d
  <2>4. y \in Nat /\ (d + o) * DayLength <= y
    BY <2>1, <2>2, BoundariesOfDay
  <2>5. (d + 1) * DayLength <= (d + o) * DayLength
    BY <1>1, <2>1, DaysInOrder, SMTT(30)
  <2>6. (d + 1) * DayLength = d * DayLength + DayLength
    BY <1>1, SMT
  <2>7. y > t
    BY <1>1, <1>7, <2>1, <2>4, <2>5, <2>6, MidnightOf, SMTT(30)
  <2>8. v = y + Week /\ y <= v
    BY <1>2, SMTT(30) DEF Week
  <2> HIDE DEF y
  <2>9. schedule_allowed(windows, v) = schedule_allowed(windows, y)
    BY <2>4, <2>8, WeeksAreAlike
  <2>10. y \in Changes(windows, t)
    BY <1>5, <2>3, <2>7, <2>9 DEF Changes
  <2> QED
    BY <2>8, <2>10
<1> QED
  BY <1>1, <1>3, <1>11, <1>12, SMTT(30)

\* What a status says, in terms of the changes.
LEMMA StatusSays ==
    ASSUME NEW s \in Schedules, NEW t \in Nat
    PROVE  LET windows == effective_day_windows(s)
               status == device_profile_status(s, t)
           IN  /\ status.allowed = schedule_allowed(windows, t)
               /\ status.change = (Changes(windows, t) # {})
               /\ status.at = IF Changes(windows, t) = {} THEN t ELSE Min(Changes(windows, t))
  BY DEF device_profile_status, Changes, NextChange

\* The types and the two halves of the property, of a status shown since t.
LEMMA AnnouncedIsSound ==
    ASSUME Announced
    PROVE  ScheduleSound
<1> DEFINE windows == effective_day_windows(schedule)
<1>1. schedule \in Schedules /\ now \in 0 .. 2 * Week
  BY DEF Announced
<1>2. PICK t \in 0 .. now : ShownSince(t)
  BY DEF Announced
<1>3. now \in Nat /\ t \in Nat /\ t <= now /\ Week \in Nat
  BY <1>1, SMT DEF Week
<1>4. windows \in DayTables
  BY <1>1, WindowsPerDay
<1>5. KernelAllows(schedule, now) = schedule_allowed(windows, now)
  BY <1>1, <1>3, RulesAreSchedule
<1>6. device_profile_status(schedule, now).allowed = schedule_allowed(windows, now)
  BY <1>1, <1>3, StatusSays
<1>7. /\ shown.allowed = schedule_allowed(windows, t)
      /\ shown.change = (Changes(windows, t) # {})
      /\ shown.at = IF Changes(windows, t) = {} THEN t ELSE Min(Changes(windows, t))
  BY <1>1, <1>2, <1>3, StatusSays DEF ShownSince
<1> HIDE DEF windows
<1>8. shown.allowed \in BOOLEAN /\ shown.change \in BOOLEAN
  BY <1>7 DEF schedule_allowed
<1>9. shown.at \in 0 .. now + Week
  <2>1. CASE Changes(windows, t) = {}
    BY <1>3, <1>7, <2>1, SMTT(30)
  <2>2. CASE Changes(windows, t) # {}
    <3>1. shown.at \in Nat /\ shown.at <= t + Week
      BY ZenonT(30), <1>3, <1>4, <1>7, <2>2, FirstChange, ChangeWithinWeek
    <3> QED
      BY <1>3, <3>1, SMTT(30)
  <2> QED
    BY <2>1, <2>2
<1>10. ASSUME shown.change, now >= shown.at PROVE schedule_allowed(windows, now) = ~shown.allowed
  <2>1. Changes(windows, t) # {} /\ shown.at = Min(Changes(windows, t))
    BY <1>7, <1>10
  <2>2. shown.at \in Nat /\ schedule_allowed(windows, shown.at) # schedule_allowed(windows, t)
    BY <1>3, <1>4, <2>1, FirstChange
  <2>3. now = shown.at
    BY <1>2, <1>3, <1>10, <2>2, SMTT(30) DEF ShownSince
  <2> QED
    BY <1>7, <2>2, <2>3 DEF schedule_allowed
<1>11. ASSUME ~(shown.change /\ now >= shown.at) PROVE schedule_allowed(windows, now) = shown.allowed
  BY <1>2, <1>11 DEF ShownSince, windows
<1>12. ScheduleTypeOK
  BY <1>1, <1>8, <1>9 DEF ScheduleTypeOK
<1>13. EnforcedAsShown
  BY <1>5, <1>6 DEF EnforcedAsShown, windows
<1>14. ChangeAsAnnounced
  BY <1>5, <1>10, <1>11 DEF ChangeAsAnnounced
<1> QED
  BY <1>12, <1>13, <1>14 DEF ScheduleSound

\* A status says what is allowed at its time, and announces later changes.
LEMMA FreshStatus ==
    ASSUME NEW s \in Schedules, NEW t \in Nat
    PROVE  /\ device_profile_status(s, t).allowed = schedule_allowed(effective_day_windows(s), t)
           /\ device_profile_status(s, t).change => t <= device_profile_status(s, t).at
<1> DEFINE windows == effective_day_windows(s)
           status == device_profile_status(s, t)
<1>1. windows \in DayTables
  BY WindowsPerDay
<1>2. /\ status.allowed = schedule_allowed(windows, t)
      /\ status.change = (Changes(windows, t) # {})
      /\ status.at = IF Changes(windows, t) = {} THEN t ELSE Min(Changes(windows, t))
  BY StatusSays
<1> HIDE DEF status, windows
<1>3. status.change => t <= status.at
  <2>1. SUFFICES ASSUME status.change PROVE t <= status.at
    OBVIOUS
  <2>2. status.at = Min(Changes(windows, t)) /\ Changes(windows, t) # {}
    BY <1>2, <2>1
  <2>3. status.at \in Nat /\ t < status.at
    BY <1>1, <2>2, FirstChange
  <2> QED
    BY <2>3, SMT
<1> QED
  BY <1>2, <1>3 DEF status, windows

\* A minute passes, and the status that is shown stays true.
LEMMA MinuteAnnounced ==
    ASSUME Announced, MinutePasses
    PROVE  Announced'
<1> DEFINE windows == effective_day_windows(schedule)
<1>1. /\ schedule \in Schedules /\ now \in 0 .. 2 * Week /\ now < 2 * Week
      /\ shown.change => now < shown.at
      /\ now' = now + 1 /\ schedule' = schedule /\ shown' = shown
  BY DEF Announced, MinutePasses
<1>2. PICK t \in 0 .. now : ShownSince(t)
  BY DEF Announced
<1>3. /\ now \in Nat /\ t \in Nat /\ t <= now /\ now + 1 <= 2 * Week
      /\ now' \in 0 .. 2 * Week /\ t \in 0 .. now'
  BY <1>1, SMT DEF Week
<1>4. windows \in DayTables
  BY <1>1, WindowsPerDay
<1>5. /\ shown.allowed = schedule_allowed(windows, t)
      /\ shown.change = (Changes(windows, t) # {})
      /\ shown.at = IF Changes(windows, t) = {} THEN t ELSE Min(Changes(windows, t))
  BY <1>1, <1>2, <1>3, StatusSays DEF ShownSince
<1>6. shown.change => shown.at \in Nat
  BY <1>3, <1>4, <1>5, FirstChange
<1>7. ~(shown.change /\ now >= shown.at)
  BY <1>1, <1>3, <1>6, SMTT(30)
<1>8. schedule_allowed(windows, now) = schedule_allowed(windows, t)
  BY <1>2, <1>5, <1>7 DEF ShownSince
<1>9. shown.change => now + 1 <= shown.at
  BY <1>1, <1>3, <1>6, SMTT(30)
<1>10. schedule_allowed(windows, now + 1) # schedule_allowed(windows, t)
         => shown.change /\ shown.at <= now + 1
  BY <1>3, <1>4, <1>5, <1>8, TurnsAreAnnounced
<1> HIDE DEF windows
<1>11. ~(shown.change /\ now + 1 >= shown.at) => schedule_allowed(windows, now + 1) = shown.allowed
  BY <1>3, <1>5, <1>6, <1>10, SMTT(30)
<1>12. ShownSince(t)'
  BY <1>1, <1>2, <1>9, <1>11 DEF ShownSince, windows
<1> QED
  BY <1>1, <1>3, <1>12 DEF Announced

\* What the page says of a profile is what the time rules of the firewall
\* enforce (device_profile_status, write_allowed_windows), and the next change it
\* announces is the next one there is, at most a week away, for a day of any
\* length: the search over the boundaries of nine days misses none.
THEOREM ScheduleIsSound == ScheduleSpec => []ScheduleSound
<1>1. ScheduleInit => Announced
  <2>1. SUFFICES ASSUME ScheduleInit PROVE Announced
    OBVIOUS
  <2>2. now \in Nat /\ now \in 0 .. now /\ now \in 0 .. 2 * Week
    BY <2>1, SMT DEF ScheduleInit, Week
  <2> QED
    BY <2>1, <2>2, FreshStatus DEF ScheduleInit, Announced, ShownSince
<1>2. Announced /\ [ScheduleNext]_scheduleVars => Announced'
  <2>1. SUFFICES ASSUME Announced, [ScheduleNext]_scheduleVars PROVE Announced'
    OBVIOUS
  <2>2. CASE ShowStatus
    <3>1. now \in Nat /\ now \in 0 .. now
      BY <2>1, SMT DEF Announced, Week
    <3> QED
      BY <2>1, <2>2, <3>1, FreshStatus DEF ShowStatus, Announced, ShownSince
  <2>3. CASE MinutePasses
    BY <2>1, <2>3, MinuteAnnounced
  <2>4. CASE UNCHANGED scheduleVars
    BY <2>1, <2>4 DEF scheduleVars, Announced, ShownSince
  <2> QED
    BY <2>1, <2>2, <2>3, <2>4 DEF ScheduleNext
<1> QED
  BY <1>1, <1>2, AnnouncedIsSound, PTL DEF ScheduleSpec
=============================================================================
