------------------------- MODULE MCSessionPowerLoss -------------------------
(***************************************************************************)
(* Instances of SessionPowerLoss for TLC.                                  *)
(***************************************************************************)
EXTENDS SessionPowerLoss

CONSTANTS p1, i1, i2, i3, ra, rnul, ok, none

\* The one reference with a NUL byte has it in front.
MCBeforeNul == [t \in {rnul} |-> EmptyText]

Rec(id, ident, start, state, result) ==
    [id |-> id, ident |-> ident, run |-> ra, start |-> start,
     state |-> state, result |-> result, order |-> 0]

\* A session runs and ends, a second runs, and a third takes over the
\* identity of the first once that has been evicted.
LossRequests ==
    {Rec(1, i1, 1, "running",  none),
     Rec(1, i1, 1, "terminal", ok),
     Rec(2, i2, 0, "running",  none),
     Rec(3, i1, 0, "running",  none)}
=============================================================================
