----------------------------- MODULE AddressPlan -----------------------------
(***************************************************************************)
(* The appliance's IPv4 plan: LAN, DHCP pool and reservations, WireGuard    *)
(* subnet and one isolated segment; the validation every candidate passes;  *)
(* live edits with the check against observed leases; the offline recovery  *)
(* that moves the LAN (set_lan); and the address a page suggests for a new  *)
(* reservation.                                                             *)
(*                                                                         *)
(* Addresses have AddressBits bits (32 in the code).  dnsmasq, which hands  *)
(* out leases, is external.                                                 *)
(***************************************************************************)
EXTENDS Integers, FiniteSets, FiniteSetsExt

CONSTANTS
    AddressBits,
    RecoveryPrefixes,   \* the prefixes set_lan admits, /16 to /24 in the code
    PoolFirst, PoolLast, MAX_POOL_SIZE,   \* set_lan's pool: 100, 200 and 101 in the code
    Macs,               \* devices
    LanMoves,           \* bound: addresses [ip, prefix] set_lan is called with
    Pools,              \* bound: pools <<start, end>> an operator tries
    Spots,              \* bound: addresses an operator reserves, or moves the router to
    Subnets,            \* bound: networks for WireGuard and the segment
    FirstPlan,
    MaxEdits            \* bound: changes to the plan

VARIABLES
    plan,       \* the canonical configuration
    admitted,   \* candidates that passed the checks and are being activated
    leases,     \* dnsmasq's leases, by device
    edits,      \* changes made so far, up to MaxEdits
    unchecked   \* history: devices whose lease clashed with a change that did not see it

planVars == <<plan, admitted, leases, edits, unchecked>>

Addresses == 0 .. 2^AddressBits - 1
None == -1

-----------------------------------------------------------------------------
(* goish/net: a network is [ip, prefix]. *)

Net(ip, prefix) == [ip |-> ip, prefix |-> prefix]
SizeOf(n) == 2^(AddressBits - n.prefix)
contains(n, a) == a \div SizeOf(n) = n.ip \div SizeOf(n)
NetworkIp(n) == n.ip - (n.ip % SizeOf(n))
ipv4_broadcast(n) == NetworkIp(n) + SizeOf(n) - 1
AddressesOf(n) == NetworkIp(n) .. ipv4_broadcast(n)
Masked(n) == Net(NetworkIp(n), n.prefix)
(* Mutant: the second network may hold the first. *)
networks_overlap_one_sided(a, b) == contains(a, NetworkIp(b))

networks_overlap(a, b) == contains(a, NetworkIp(b)) \/ contains(b, NetworkIp(a))
same_ipv4_network(a, b) == Masked(a) = Masked(b)
network_contains_network(parent, child) == child.prefix >= parent.prefix /\ contains(parent, NetworkIp(child))

Usable(n, a) == contains(n, a) /\ a \notin {NetworkIp(n), ipv4_broadcast(n)}

-----------------------------------------------------------------------------
(* Validation.  plan.wg is {} or {network}; plan.client (the outbound tunnel)
   is {} or {[address, allowed]}; plan.segment is {} or {[net, router, dst,
   from]}; plan.reserved gives a device its address or None. *)

Pool(p) == p.start .. p.end
Reservations(p) == {p.reserved[m] : m \in Macs} \ {None}

validate_pool(p) ==
    /\ p.start <= p.end
    /\ contains(p.lan, p.start) /\ contains(p.lan, p.end)
    /\ p.start # NetworkIp(p.lan) /\ p.end # ipv4_broadcast(p.lan)
    /\ ~(p.start <= p.lan.ip /\ p.lan.ip <= p.end)

validate_static(p) ==
    \A m \in Macs : p.reserved[m] # None =>
          /\ Usable(p.lan, p.reserved[m]) /\ p.reserved[m] # p.lan.ip
          /\ ~(p.start <= p.reserved[m] /\ p.reserved[m] <= p.end)
          /\ \A other \in Macs \ {m} : p.reserved[other] # p.reserved[m]

validate_dhcp(p) == validate_pool(p) /\ validate_static(p)

validate_wireguard(p) ==
    \A wg \in p.wg : ~contains(p.lan, wg.ip) /\ ~contains(wg, p.lan.ip)

validate_extra_lans(p) ==
    \A s \in p.segment :
        /\ ~networks_overlap(p.lan, s.net)
        /\ \A wg \in p.wg : ~networks_overlap(wg, s.net)
        /\ \A c \in p.client : ~contains(s.net, c.address)
        /\ Usable(s.net, s.router)
        /\ Usable(s.net, s.dst) /\ s.dst # s.router
        /\ \E zone \in {p.lan} \union p.wg : network_contains_network(zone, s.from)

validate_wg_client(p) ==
    \A c \in p.client :
        /\ \A n \in {p.lan} \union p.wg :
              ~contains(n, c.address) /\ ~networks_overlap(n, c.allowed)
        /\ ~contains(c.allowed, c.address)
        /\ \A s \in p.segment : ~networks_overlap(s.net, c.allowed)

validate_addresses(p) ==
    /\ Usable(p.lan, p.lan.ip)
    /\ p.dhcp => validate_dhcp(p)
    /\ validate_extra_lans(p)
    /\ validate_wireguard(p)
    /\ validate_wg_client(p)

Leased(ls) == {m \in Macs : ls[m] # None}

(* A device may not have the router's address, or one reserved for another. *)
Clashes(p, m, a) == a = p.lan.ip \/ \E n \in Macs \ {m} : p.reserved[n] = a

(* current_dhcp_lease_snapshot: dnsmasq's lease file may be unreadable, be cut
   off or hold lines that are not understood. *)
Snapshots ==
    {[leases |-> leases, complete |-> TRUE]}
    \union {[leases |-> [m \in Macs |-> IF m \in read THEN leases[m] ELSE None],
             complete |-> FALSE] : read \in SUBSET Leased(leases)}

(* inspect_lan_change: a new gateway or a changed reservation that is known
   to be leased to another device is refused. *)
inspect_lan_observation(current, candidate, snapshot) ==
    \A m \in Leased(snapshot.leases) :
        LET leased == snapshot.leases[m]
        IN  /\ candidate.lan.ip # current.lan.ip => leased # candidate.lan.ip
            /\ \A n \in Macs \ {m} :
                  candidate.reserved[n] # current.reserved[n] => candidate.reserved[n] # leased

-----------------------------------------------------------------------------
(* Live edits: one section of the configuration at a time. *)

DhcpEdits ==
    {[plan EXCEPT !.start = pool[1], !.end = pool[2], !.reserved = r] :
        pool \in Pools \union {<<plan.start, plan.end>>},
        r \in {plan.reserved} \union {[plan.reserved EXCEPT ![m] = a] : m \in Macs, a \in Spots \union {None}}}

Edits ==
    DhcpEdits
    \union {[plan EXCEPT !.lan.ip = a] : a \in Spots}
    \union {[plan EXCEPT !.dhcp = ~@]}
    \union {[plan EXCEPT !.wg = w] : w \in {{}} \union {{n} : n \in Subnets}}
    \union {[plan EXCEPT !.client = c] :
              c \in {{}} \union {{[address |-> n.ip, allowed |-> m]} : n \in Subnets, m \in Subnets}}
    \union {[plan EXCEPT !.segment = s] :
              s \in {{}} \union {{[net |-> n, router |-> n.ip + 1, dst |-> n.ip + 2, from |-> z]} :
                                n \in Subnets, z \in {Masked(plan.lan)} \union plan.wg}}

(* process_locked up to the activation. *)
AdmitEdit ==
    /\ admitted = {} /\ edits < MaxEdits
    /\ \E candidate \in Edits, snapshot \in Snapshots :
        /\ candidate # plan
        /\ same_ipv4_network(plan.lan, candidate.lan)
        /\ validate_addresses(candidate)
        /\ inspect_lan_observation(plan, candidate, snapshot)
        /\ admitted' = {candidate}
        /\ unchecked' = unchecked \union
              {m \in Leased(leases) \ Leased(snapshot.leases) : Clashes(candidate, m, leases[m])}
    /\ edits' = edits + 1
    /\ UNCHANGED <<plan, leases>>

ActivateEdit ==
    \E candidate \in admitted :
        /\ plan' = candidate
        /\ admitted' = {}
        /\ UNCHANGED <<leases, edits, unchecked>>

-----------------------------------------------------------------------------
(* Recovery at the console, with the daemons stopped. *)

dhcp_range(net, gw) ==
    LET base == NetworkIp(net)
        first == base + 1
        last == ipv4_broadcast(net) - 1
    IN  IF gw \notin base + PoolFirst .. base + PoolLast
        THEN <<base + PoolFirst, base + PoolLast>>
        ELSE IF last - gw >= gw - first
        THEN <<gw + 1, Min({gw + MAX_POOL_SIZE, last})>>
        ELSE <<Max({gw - MAX_POOL_SIZE, first}), gw - 1>>

filter_static_leases_for_recovery(reserved, net, gw, pool) ==
    [m \in Macs |->
        IF /\ reserved[m] # None /\ contains(net, reserved[m]) /\ reserved[m] # gw
           /\ reserved[m] \notin pool[1] .. pool[2]
        THEN reserved[m] ELSE None]

replace_network_entry(entry, old, new) == IF Masked(entry) = Masked(old) THEN Masked(new) ELSE entry

Moved(p, lan) ==
    LET pool == dhcp_range(lan, lan.ip)
    IN  [p EXCEPT !.lan = lan, !.start = pool[1], !.end = pool[2],
            !.reserved = filter_static_leases_for_recovery(p.reserved, lan, lan.ip, pool),
            !.segment = {[s EXCEPT !.from = replace_network_entry(@, p.lan, lan)] : s \in p.segment}]

(* A plan that does not validate is not saved. *)
set_lan ==
    /\ admitted = {} /\ edits < MaxEdits
    /\ \E lan \in LanMoves :
        /\ lan.prefix \in RecoveryPrefixes
        /\ validate_addresses(Moved(plan, lan))
        /\ plan' = Moved(plan, lan)
    /\ unchecked' = unchecked \union {m \in Leased(leases) : Clashes(plan', m, leases[m])}
    /\ edits' = edits + 1
    /\ UNCHANGED <<admitted, leases>>

-----------------------------------------------------------------------------
(* dnsmasq: a reservation, or a free address of the pool; never an address
   another device holds. *)

GiveLease ==
    \E m \in Macs :
        /\ plan.dhcp /\ leases[m] = None
        /\ \E a \in IF plan.reserved[m] # None THEN {plan.reserved[m]} ELSE Pool(plan) :
              /\ \A n \in Macs : leases[n] # a
              /\ leases' = [leases EXCEPT ![m] = a]
        /\ unchecked' = unchecked \union
              {n \in {m} : \E candidate \in admitted : Clashes(candidate, m, leases'[m])}
        /\ UNCHANGED <<plan, admitted, edits>>

LeaseEnds ==
    \E m \in Macs :
        /\ leases[m] # None
        /\ leases' = [leases EXCEPT ![m] = None]
        /\ unchecked' = unchecked \ {m}
        /\ UNCHANGED <<plan, admitted, edits>>

PlanInit ==
    /\ plan = FirstPlan /\ admitted = {} /\ edits = 0 /\ unchecked = {}
    /\ leases = [m \in Macs |-> None]

PlanNext == AdmitEdit \/ ActivateEdit \/ set_lan \/ GiveLease \/ LeaseEnds

PlanSpec == PlanInit /\ [][PlanNext]_planVars

-----------------------------------------------------------------------------
(* assess_lan_address: whether an address is free for a device, as far as the
   plan, the leases read and the neighbour table (a set of [ip, mac]) tell, *)

Conflict(m, a, snapshot, neighbors) ==
    \/ ~(NetworkIp(plan.lan) < a /\ a < ipv4_broadcast(plan.lan))
    \/ a = plan.lan.ip \/ a \in Pool(plan)
    \/ \E n \in Macs \ {m} : plan.reserved[n] = a \/ snapshot.leases[n] = a
    \/ \E seen \in neighbors : seen.ip = a /\ seen.mac # m

assess_lan_address(m, a, snapshot, neighbors) ==
    IF Conflict(m, a, snapshot, neighbors) THEN "conflict"
    ELSE IF snapshot.complete THEN "no_known_conflict" ELSE "unknown"

(* and the suggestion, as the loop computes it from a candidate and the checks
   already made; noted are the addresses of neighbours and of DNS records. *)

Occupied(snapshot, noted) ==
    Reservations(plan) \union {snapshot.leases[m] : m \in Leased(snapshot.leases)}
    \union {plan.lan.ip} \union noted

PastPool(c) == IF plan.start <= c /\ c <= plan.end THEN plan.end + 1 ELSE c

(* A chain of candidates, one per check. *)
suggest(occupied) ==
    LET last == ipv4_broadcast(plan.lan)
        start == NetworkIp(plan.lan) + 1
        limit == Cardinality(occupied) + 2
        tried[n \in 0 .. limit] == IF n = 0 THEN PastPool(start) ELSE PastPool(tried[n - 1] + 1)
        found == {n \in 0 .. limit : /\ tried[n] < last /\ tried[n] \notin occupied
                                     /\ \A k \in 0 .. n - 1 : tried[k] < last /\ tried[k] \in occupied}
    IN  IF found = {} THEN None ELSE tried[Min(found)]

-----------------------------------------------------------------------------
(* Properties. *)

(* Types, and the plan in force is one that validation admits. *)
PlanTypeOK ==
    /\ validate_addresses(plan)
    /\ plan.lan.ip \in Addresses /\ {plan.start, plan.end} \subseteq Addresses
    /\ plan.reserved \in [Macs -> Addresses \union {None}]
    /\ leases \in [Macs -> Addresses \union {None}]
    /\ Cardinality(admitted) <= 1 /\ unchecked \subseteq Leased(leases) /\ edits \in 0 .. MaxEdits
    /\ \A s \in plan.segment : s.router \in Addresses /\ s.dst \in Addresses

(* The address sets of the LAN, the two tunnels, the remote site and the
   segment never intersect, and what may reach the segment is in the LAN or
   the WireGuard network, after any sequence of edits and recoveries: the
   validators' tests, each of two addresses and some of them one-sided, amount
   to disjointness, on which the firewall's zones rest. *)
ZonesDisjoint ==
    LET zones == <<{plan.lan}, plan.wg, {s.net : s \in plan.segment},
                   {c.allowed : c \in plan.client},
                   {Net(c.address, AddressBits) : c \in plan.client}>>
        All(zone) == UNION {AddressesOf(n) : n \in zone}
    IN  /\ \A i, j \in DOMAIN zones : i < j => All(zones[i]) \intersect All(zones[j]) = {}
        /\ \A s \in plan.segment : AddressesOf(s.from) \subseteq All({plan.lan} \union plan.wg)

(* With DHCP on, every address the router may hand out is a usable host of
   the LAN, is not the router's, and belongs to at most one of the pool and
   the reservations, also in the plan recovery makes up. *)
PoolIsSafe ==
    plan.dhcp =>
        /\ \A a \in Pool(plan) \union Reservations(plan) : Usable(plan.lan, a) /\ a # plan.lan.ip
        /\ Pool(plan) \intersect Reservations(plan) = {} /\ Pool(plan) # {}

(* A device never holds the router's address or one reserved for another
   device, except by a lease that the change it clashes with did not see: one
   given while the change was being activated, missing from the lease file, or
   older than a recovery.  Such a clash ends with that lease; dnsmasq's next one
   is right again. *)
LeasesAgree == \A m \in Leased(leases) \ unchecked : ~Clashes(plan, m, leases[m])

(* The suggested address passes validation as a reservation and is not known
   to be in use, and one is suggested whenever there is any, whatever part of
   the leases was read and whatever addresses the neighbour table and the DNS
   records add: the bound on the loop's checks is large enough. *)
SuggestionFound ==
    \A occupied \in {Occupied(snapshot, noted) : snapshot \in Snapshots, noted \in SUBSET Spots} :
        LET taken == Pool(plan) \union occupied
            free == {a \in AddressesOf(plan.lan) \ taken : Usable(plan.lan, a)}
            suggested == suggest(occupied)
        IN  IF free = {} THEN suggested = None ELSE suggested \in free

(* The assessment agrees with the admission: with DHCP on, a new reservation
   has no conflict exactly when it passes validation and the check against the
   same leases, unless another device was seen at the address: then the page
   warns of what admission, which does not ask the neighbour table, may accept.
   "No known conflict" means that nobody else holds a lease of the address. *)
AssessmentAgrees ==
    plan.dhcp =>
        \A m \in Macs : \A a \in AddressesOf(plan.lan) \ {plan.reserved[m]} :
            LET candidate == [plan EXCEPT !.reserved[m] = a]
                valid == validate_addresses(candidate)
            IN  \A snapshot \in Snapshots :
                    LET passes == valid /\ inspect_lan_observation(plan, candidate, snapshot)
                        State(by) == assess_lan_address(m, a, snapshot, {[ip |-> a, mac |-> n] : n \in by})
                    IN  /\ \A by \in {{}, {m}} : (State(by) # "conflict") = passes
                        /\ State(Macs) = "conflict"
                        /\ State({}) = "no_known_conflict" => \A n \in Macs \ {m} : leases[n] # a

\* Every plan that an edit, a recovery move or the assistant leaves in force is
\* consistent: zones are disjoint, the pool lies inside the LAN and off the router's
\* address, leases and reservations agree with it, and the assistant suggests and
\* assesses what validation then accepts.  (The assistant looks at the plan and the
\* leases only, and a plan with leases that occurs while a change is activated also
\* occurs without one.)
PlanSound ==
  /\ PlanTypeOK /\ ZonesDisjoint /\ PoolIsSafe /\ LeasesAgree
  /\ admitted = {} => SuggestionFound /\ AssessmentAgrees
=============================================================================
