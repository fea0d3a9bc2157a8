-------------------------- MODULE MCSetupHandoff ----------------------------
(***************************************************************************)
(* Instances of SetupHandoff for TLC.                                      *)
(***************************************************************************)
EXTENDS SetupHandoff, TLC

CONSTANTS p1, p2, n1, n2, a1, a2, v1, v2

\* The reference of installation 1 at revision 1.
First(owner) ==
    [install |-> 1, product |-> p1, owner |-> owner, version |-> n1,
     place |-> a1, life |-> "active", verification |-> v1, revision |-> 1]

\* Nothing installed, a managed installation, one of each other kind, and a
\* managed one that an earlier operation left in need of recovery.
AnyFirst ==
    {NoRef} \cup {First(o) : o \in Ownerships}
            \cup {[First("managed") EXCEPT !.life = "recovery_required"]}
=============================================================================
