---------------------------- MODULE MCClientCalls ---------------------------
(***************************************************************************)
(* Instances of ClientCalls for TLC.                                       *)
(***************************************************************************)
EXTENDS ClientCalls

CONSTANTS inspect, create, c1, alias

\* Two built-in commands stand for the eleven: the graph and one that refuses
\* without dry_run.
MCBuiltinSeq == <<inspect, create>>

\* Sound adapters of two kinds, and one that may not be copied.
MCAdapters ==
    {[kind |-> "direct", revision |-> TRUE, execute |-> TRUE],
     [kind |-> "daemon", revision |-> TRUE, execute |-> TRUE],
     [kind |-> "process", revision |-> TRUE, execute |-> FALSE]}

\* memset to 0: no kind has the value 0.
MCZeroed == [kind |-> "zero", revision |-> FALSE, execute |-> FALSE]
=============================================================================
