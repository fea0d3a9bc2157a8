------------------------- MODULE MCLaunchReadiness --------------------------
(***************************************************************************)
(* Instances of LaunchReadiness for TLC.                                   *)
(***************************************************************************)
EXTENDS LaunchReadiness, TLC

CONSTANTS p1, p2, n1, a1, v1, v2, f1

\* Install IDs are numbers.
MCIdentifiers == Nat \cup {p1, p2, f1, Self}

\* A managed installation, and an imported one, with the install ID that a
\* misreport uses again.
MCFirst ==
    {[install |-> 0, product |-> p1, owner |-> o, version |-> n1, place |-> a1,
      life |-> "active", verification |-> v1, revision |-> 1] :
        o \in {"managed", "imported"}}
=============================================================================
