--------------------------- MODULE SessionRecords ---------------------------
(***************************************************************************)
(* The disk records of the session journal (ulk_session.c) and the pure    *)
(* operators the journal is built from: validation, content equality, the  *)
(* one legal transition, the sort order, and the capacity law of a scan.   *)
(*                                                                         *)
(* A record keeps the fields that the code compares or orders by.          *)
(* "ident" is the operation/attempt pair, "start" the launch facts that a  *)
(* transition must preserve (started_at, with process_identity folded in), *)
(* "result" the terminal payload (ended_at, exit code, outcome, recovery   *)
(* and relaunch references), and "order" the commit order of disk record   *)
(* v2; a legacy v1 record has order 0.                                     *)
(***************************************************************************)
EXTENDS Integers, FiniteSets

CONSTANTS
    Sessions,        \* session IDs, naturals so that strcmp is <
    Idents,          \* operation/attempt identities
    Runnables,       \* runnable references a caller may pass
    BeforeNul,       \* what comes before the NUL, for those that hold one
    EmptyText,       \* the empty C string
    Starts,          \* started_at values, ordered as strcmp orders them
    Results,         \* terminal payloads
    NoResult,        \* the absent terminal payload of a running record
    MaxOrder,        \* INT64_MAX, the last commit order
    MaxRecords,      \* ULK_SESSION_MAX_RECORDS
    DefaultRecords,  \* ULK_SESSION_DEFAULT_RECORDS
    NoFile,          \* no file of that name
    Corrupt,         \* a file that ulk_parse_record calls corrupt
    Future,          \* a file of a future disk version
    Requests,        \* the records callers submit
    Legacy,          \* v1 records a directory may hold at the start
    DamagedInit      \* kinds of damage it may hold at the start

ASSUME SessionsAssumption == Sessions \subseteq Nat /\ IsFiniteSet(Sessions)
ASSUME StartsAssumption   == Starts \subseteq Nat
ASSUME EmptyAssumption    == EmptyText \notin Runnables
ASSUME NulAssumption      ==
    /\ DOMAIN BeforeNul \subseteq Runnables
    /\ \A t \in DOMAIN BeforeNul :
         BeforeNul[t] \in (Runnables \ DOMAIN BeforeNul) \cup {EmptyText}
ASSUME ResultAssumption   == NoResult \notin Results
ASSUME BoundsAssumption   ==
    /\ MaxOrder \in Nat
    /\ MaxRecords \in Nat \ {0}
    /\ DefaultRecords \in 1..MaxRecords

Records ==
    [id     : Sessions,
     ident  : Idents,
     run    : Runnables \cup {EmptyText},
     start  : Starts,
     state  : {"running", "terminal"},
     result : Results \cup {NoResult},
     order  : 0..MaxOrder]

Damage == {Corrupt, Future}
Slots  == Records \cup Damage \cup {NoFile}

\* The sentinels are no records, and damage is not absence.
ASSUME SlotAssumption ==
    /\ NoFile \notin Records /\ Corrupt \notin Records /\ Future \notin Records
    /\ NoFile \notin Damage
-----------------------------------------------------------------------------
(* Callers *)

\* ulk_session_record_validate_v1, for the fields kept here.
RecordValid(r) ==
    /\ r.run # EmptyText
    /\ IF r.state = "running" THEN r.result = NoResult ELSE r.result # NoResult

\* What a caller may hand to the journal: a size-delimited view is never
\* empty here, but it may hold a NUL byte.
Submissions == {r \in Records : r.run # EmptyText /\ r.order = 0}

\* ulk_copy_view followed by any C string function: text ends at a NUL.
CText(t) == IF t \in DOMAIN BeforeNul THEN BeforeNul[t] ELSE t

\* ulk_record_from_public
FromPublic(r) == [r EXCEPT !.run = CText(@)]

ASSUME RequestsAssumption == Requests \subseteq Submissions
ASSUME LegacyAssumption   ==
    Legacy \subseteq {r \in Records : r.order = 0 /\ RecordValid(r)}
ASSUME DamageAssumption   == DamagedInit \subseteq Damage
-----------------------------------------------------------------------------
(* Comparing two records *)

\* What the caller submitted: every field but the commit order.
Content(r) == [r EXCEPT !.order = 0]

\* Mutant: the commit order is compared as well.
SameContent_WithOrder(a, b) == a = b

\* ulk_record_equal
SameContent(a, b) == Content(a) = Content(b)

\* ulk_record_transition_valid
TransitionValid(before, after) ==
    /\ before.state = "running" /\ after.state = "terminal"
    /\ before.id = after.id
    /\ before.ident = after.ident
    /\ before.run = after.run
    /\ before.start = after.start

\* ulk_record_compare_descending: a sorts before b.
Newer(a, b) ==
    \/ a.order > b.order
    \/ a.order = b.order /\ a.start > b.start
    \/ a.order = b.order /\ a.start = b.start /\ a.id > b.id
-----------------------------------------------------------------------------
(* A sessions directory f is a function from session IDs to slots. *)

Present(f) == {s \in Sessions : f[s] \in Records}

Damaged(f) == {s \in Sessions : f[s] \in Damage}

\* ulk_append_record grows 16, 32, ..., MaxRecords and then refuses, so one
\* file more than MaxRecords makes the whole scan fail.
Fits(f) == Cardinality(Present(f)) <= MaxRecords

\* Mutant: a scan that skips damaged files.
Scannable_SkipDamage(f) == Fits(f)

\* A scan of f succeeds.
Scannable(f) == Damaged(f) = {} /\ Fits(f)

\* The sorted position of s, counted from 0.
Rank(f, s) == Cardinality({t \in Present(f) : Newer(f[t], f[s])})

\* Mutant: retention that also removes the last record of the window.
Surplus_OffByOne(f, w) == {s \in Present(f) : Rank(f, s) >= w - 1}

\* Mutant: retention that keeps one record too many.
Surplus_OneTooMany(f, w) == {s \in Present(f) : Rank(f, s) > w}

\* The records past the first w in sorted order.
Surplus(f, w) == {s \in Present(f) : Rank(f, s) >= w}

\* n is the maximum commit order of f, 0 when f holds no v2 record.
IsTop(f, n) ==
    /\ \A s \in Present(f) : f[s].order <= n
    /\ n = 0 \/ \E s \in Present(f) : f[s].order = n

\* A directory as an earlier version of the library leaves it: files named
\* after their records, no identity used twice, perhaps damaged.
InitialDirectories ==
    {f \in [Sessions -> Legacy \cup DamagedInit \cup {NoFile}] :
        /\ \A s \in Present(f) : f[s].id = s
        /\ \A s, t \in Present(f) : f[s].ident = f[t].ident => s = t
        /\ Fits(f)}
-----------------------------------------------------------------------------
(* What may happen to a directory *)

\* The order a commit of r must carry: the one it replaces, if that is a v2
\* record, and otherwise the next free one.
OrderFor(f, r) ==
    IF r.id \in Present(f) /\ f[r.id].order > 0
    THEN r.order = f[r.id].order
    ELSE IsTop(f, r.order - 1)

\* r may take its place in f: no other session has its identity, and what it
\* replaces, if anything, is the running record of the same launch.
MayCommit(f, r) ==
    /\ Damaged(f) = {}
    /\ \A s \in Present(f) : f[s].ident = r.ident => s = r.id
    /\ r.id \in Present(f) => TransitionValid(f[r.id], r)
    /\ OrderFor(f, r)

\* s may leave f: a newer record stays.
MayEvict(f, s) ==
    /\ Damaged(f) = {}
    /\ s \in Present(f)
    /\ \E t \in Present(f) : Newer(f[t], f[s])
=============================================================================
