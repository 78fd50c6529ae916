----------------------------- MODULE MCAppliance -----------------------------
(* Small instances of Appliance for TLC.                                   *)
EXTENDS Appliance

MCSections == {"lan", "dns"}
MCDefault == [s \in MCSections |-> 0]

MCLanOnly == {"lan"}
MCLanDefault == [s \in MCLanOnly |-> 0]
=============================================================================
