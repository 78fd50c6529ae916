----------------------------- MODULE MCSessions -----------------------------
(* Small instances of Sessions for TLC.                                    *)
EXTENDS Sessions, TLC

AnyName == Permutations(Ids) \cup Permutations(Threads) \cup Permutations(Passwords)
=============================================================================
