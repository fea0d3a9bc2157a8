------------------------- MODULE MCCommandRegistry --------------------------
(***************************************************************************)
(* An instance of CommandRegistry for TLC.                                 *)
(***************************************************************************)
EXTENDS CommandRegistry, TLC

CONSTANTS inspect, create, list, c1, c2, c3, alias

\* Three built-in commands stand for the eleven: the graph, one that refuses
\* without dry_run, and one that always answers.
MCBuiltinSeq == <<inspect, create, list>>

\* The commands that are not built in are alike.
MCSymmetry == Permutations({c1, c2, c3})
=============================================================================
