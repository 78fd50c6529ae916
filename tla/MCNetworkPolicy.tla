--------------------------- MODULE MCNetworkPolicy ---------------------------
(***************************************************************************)
(* What the configuration means on the wire, checked in one run: packet     *)
(* filtering, access schedules and the address plan.  They share no state,  *)
(* so a behaviour picks one of them and only that one moves.                *)
(***************************************************************************)
EXTENDS Firewall, AccessSchedule, AddressPlan

Rule(d, a, s, v, c) == [direction |-> d, action |-> a, source |-> s, service |-> v, scope |-> c]
MCRules ==
    {Rule("forward", "deny", "d", "any", "all"), Rule("forward", "deny", "any", "app", "wan"),
     Rule("forward", "allow", "any", "web", "wan"), Rule("input", "allow", "any", "app", "all"),
     Rule("input", "deny", "any", "https", "all")}

MCMoves == {Net(9, 2), Net(20, 2), Net(6, 1)}
MCPools == {<<12, 14>>, <<13, 11>>}
MCSubnets == {Net(24, 2), Net(12, 3), Net(16, 1)}
MCPlan == [lan |-> Net(9, 2), dhcp |-> TRUE, start |-> 11, end |-> 12,
           reserved |-> [m \in Macs |-> -1], wg |-> {}, segment |-> {}, client |-> {}]

VARIABLE focus

suiteVars == <<focus, firewallVars, scheduleVars, planVars>>

(* A firewall that is not looked at stays at a flow it has let out. *)
FlowOut == [src |-> "e", dst |-> "i", service |-> "web", user |-> "none", via |-> "lan"]
FirewallRests ==
    /\ policy = FirstSettings /\ tracked = {[flow |-> FlowOut, to |-> "i"]}
    /\ learned = FALSE /\ known = FALSE /\ open = TRUE

(* An address plan that is not looked at rests with DHCP being switched on again. *)
PlanRests ==
    /\ plan = [FirstPlan EXCEPT !.dhcp = FALSE] /\ admitted = {FirstPlan} /\ edits = 2
    /\ unchecked = {} /\ leases = [m \in Macs |-> -1]

SuiteInit ==
    /\ focus \in {"firewall", "schedule", "plan"}
    /\ IF focus = "firewall" THEN FirewallInit ELSE FirewallRests
    /\ IF focus = "plan" THEN PlanInit ELSE PlanRests
    /\ ScheduleInit
    /\ focus # "schedule" => schedule = CHOOSE s \in Schedules : TRUE

SuiteNext ==
    /\ UNCHANGED focus
    /\ \/ focus = "firewall" /\ FirewallNext /\ UNCHANGED <<scheduleVars, planVars>>
       \/ focus = "schedule" /\ ScheduleNext /\ UNCHANGED <<firewallVars, planVars>>
       \/ focus = "plan" /\ PlanNext /\ UNCHANGED <<firewallVars, scheduleVars>>

SuiteSpec == SuiteInit /\ [][SuiteNext]_suiteVars
=============================================================================
