------------------------------ MODULE SlotTable ------------------------------
(***************************************************************************)
(* What the firmware slot manager promises: the running release, the       *)
(* release a rollback returns to and the version floor change together,    *)
(* in one step, by a whole operation.                                      *)
(***************************************************************************)
EXTENDS Integers

CONSTANTS Releases, Baselines

VARIABLES current, previous, floor

None == 0
Rank(v) == IF v < 0 THEN 0 ELSE v
AtLeast(a, b) == b = None \/ (a # None /\ Rank(a) >= Rank(b))

Init ==
  /\ current \in Baselines \cup {None}
  /\ previous = None
  /\ floor \in Releases \cup {None}

\* Only forward: the candidate is above every version ever trusted here.
Activate ==
  \E v \in Releases \cup Baselines :
    /\ floor = None \/ Rank(v) > Rank(floor)
    /\ v # current
    /\ current' = v /\ previous' = current /\ floor' = v

Rollback ==
  /\ previous # None
  /\ current' = previous /\ previous' = current /\ UNCHANGED floor

\* A full installation starts a new rollback generation.
Install ==
  /\ current' \in Baselines /\ previous' = None
  /\ floor' \in Releases \cup {None} /\ AtLeast(floor', floor)

\* An announced installation already holds later updates to its floor.
Announce ==
  /\ floor' \in Releases /\ AtLeast(floor', floor)
  /\ UNCHANGED <<current, previous>>

Next == Activate \/ Rollback \/ Install \/ Announce

Spec == Init /\ [][Next]_<<current, previous, floor>>
=============================================================================
