-------------------------- MODULE MCSessionReader ---------------------------
(***************************************************************************)
(* An instance of SessionReader for TLC.                                   *)
(***************************************************************************)
EXTENDS SessionReader, TLC

CONSTANTS i1, i2, i3, ra, rb, rnul, ok, bad, none

\* The one reference with a NUL byte has it in front.
MCBeforeNul == [t \in {rnul} |-> EmptyText]

Rec(id, ident, run, start, state, result) ==
    [id |-> id, ident |-> ident, run |-> run, start |-> start,
     state |-> state, result |-> result, order |-> 0]

\* Sessions of two runnables start and end; what they end with is longer or
\* shorter, and each makes an answer grow.
ReaderRequests ==
    {Rec(1, i1, ra, 1, "running",  none),
     Rec(1, i1, ra, 1, "terminal", ok),
     Rec(2, i2, ra, 0, "running",  none),
     Rec(2, i2, ra, 0, "terminal", bad),
     Rec(3, i3, rb, 0, "running",  none),
     Rec(3, i3, rb, 0, "terminal", ok)}

\* A terminal record is longer than a running one, one with recovery more so.
Sizes == none :> 1 @@ ok :> 2 @@ bad :> 4

Asked ==
    [op : {"inspect"}, arg : {1, 2}] \cup [op : {"last_run"}, arg : {ra}]
    \cup [op : {"list"}, arg : {0, 1, 2}]
=============================================================================
