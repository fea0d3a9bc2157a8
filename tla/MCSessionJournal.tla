-------------------------- MODULE MCSessionJournal --------------------------
(***************************************************************************)
(* Instances of SessionJournal for TLC.                                    *)
(***************************************************************************)
EXTENDS SessionJournal, TLC

CONSTANTS p1, p2, i1, i2, i3, i4, ra, rb, rnul, rcut, ok, bad, none

\* One reference has a NUL byte in front, another after what ra is.
MCBeforeNul == rnul :> EmptyText @@ rcut :> ra

MCSymmetry == Permutations(Procs)

Rec(id, ident, run, start, state, result) ==
    [id |-> id, ident |-> ident, run |-> run, start |-> start,
     state |-> state, result |-> result, order |-> 0]

\* For several processes: one session runs and ends, another runs with an
\* earlier timestamp, and a third claims the identity of the first.
RaceRequests ==
    {Rec(1, i1, ra, 1, "running",  none),
     Rec(1, i1, ra, 1, "terminal", ok),
     Rec(2, i2, ra, 0, "running",  none),
     Rec(3, i1, ra, 0, "running",  none)}

\* Records of the v1 library: a session still running and one that ended.
V1Records ==
    {Rec(1, i1, ra, 1, "running",  none),
     Rec(2, i2, ra, 1, "terminal", ok)}

\* For one process: sessions 1 and 2 end, 1 in two different ways, whether this
\* library or the old one started them; session 3 runs, with its own identity
\* or that of 1; two records name a runnable with a NUL byte, and one is
\* malformed.
HistoryRequests ==
    {Rec(1, i1, ra, 1, "running",  none),
     Rec(1, i1, ra, 1, "terminal", ok),
     Rec(1, i1, ra, 1, "terminal", bad),
     Rec(2, i2, ra, 1, "running",  none),
     Rec(2, i2, ra, 1, "terminal", ok),
     Rec(3, i1, ra, 0, "running",  none),
     Rec(3, i3, ra, 0, "running",  none),
     Rec(4, i4, rnul, 0, "running", none),
     Rec(4, i4, rcut, 0, "running", none),
     Rec(4, i4, ra, 0, "running",  ok)}
=============================================================================
