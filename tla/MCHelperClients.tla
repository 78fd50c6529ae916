--------------------------- MODULE MCHelperClients ---------------------------
(* A small instance of HelperClients for TLC.                              *)
EXTENDS HelperClients, TLC

MCSections == {"lan"}
MCDefault == [s \in MCSections |-> 0]

AnyId == Permutations(Ids)
=============================================================================
