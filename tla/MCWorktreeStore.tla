-------------------------- MODULE MCWorktreeStore ---------------------------
(***************************************************************************)
(* An instance of WorktreeStore for TLC.                                   *)
(***************************************************************************)
EXTENDS WorktreeStore

CONSTANTS b1, b2, r1, r2, dev, main

\* One command at a time, on two branches or with two targets, and two commands
\* and a developer at once on one branch.
MCScenes ==
    {[alone |-> TRUE,  runs |-> {r1},     branches |-> {b1, b2},
      targets |-> {dev},       commits |-> 1],
     [alone |-> TRUE,  runs |-> {r1},     branches |-> {b1},
      targets |-> {dev, main}, commits |-> 2],
     [alone |-> FALSE, runs |-> {r1, r2}, branches |-> {b1},
      targets |-> {dev},       commits |-> 2]}
=============================================================================
