-------------------------- MODULE MCOwnedResponse ---------------------------
(***************************************************************************)
(* An instance of OwnedResponse for TLC: words below 16, addresses up to   *)
(* 12, a default limit of 4.                                               *)
(***************************************************************************)
EXTENDS OwnedResponse, TLC

CONSTANTS d1, d2, b1, b2, empty, one, two, five, nine, top

MCSize == empty :> 0 @@ one :> 1 @@ two :> 2 @@ five :> 5 @@ nine :> 9 @@ top :> 15

Ok(p, m, d) == [valid |-> TRUE, parts |-> <<p, m, d>>]

\* Nothing at all; exactly the default limit and one byte more; a gap in the
\* middle; a sum between SIZE_MAX and a word; sums that pass a word at the
\* first and at the second addition, one of them to a small remainder; and a
\* malformed response.
MCSources ==
    {Ok(empty, empty, empty), Ok(one, one, two), Ok(two, one, two),
     Ok(one, empty, two), Ok(nine, five, empty), Ok(top, two, one),
     Ok(nine, five, five), Ok(five, five, two),
     [valid |-> FALSE, parts |-> <<one, one, one>>]}

\* No definition tells one owned response or one address from another.
Symmetric == Permutations(Dests) \cup Permutations(Blocks)
=============================================================================
