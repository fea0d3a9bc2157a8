------------------------------ MODULE TextScan ------------------------------
(***************************************************************************)
(* The loops that decide the text rules, one character at a time: the      *)
(* scans of ulk_operation.c (identifiers and recovery commands) and of     *)
(* ulk_product_composition.c (names, digests, texts and relative paths;    *)
(* ulk_reference_model.c and ulk_setup_handoff.c repeat the name and the   *)
(* text scans).  Positions are counted from 1: at = index + 1.             *)
(*                                                                         *)
(* A scan enters with the checks made before its loop, runs the loop       *)
(* (the path scan first runs the text scan, which looks for a NUL byte),   *)
(* and returns.  touched records every position of the view's data that    *)
(* was read, in the order of C's short-circuit evaluation.                 *)
(***************************************************************************)
EXTENDS TextRules

CONSTANT Inputs         \* the views the callers pass

ASSUME InputAssumption == Inputs \subseteq View

VARIABLES rule, view, pc, at, previous_was_dot, saw_dot, touched, verdict

vars == <<rule, view, pc, at, previous_was_dot, saw_dot, touched, verdict>>

t == view.text
size == Len(view.text)

Return(answer, reads) ==
    /\ pc' = "done"
    /\ verdict' = answer
    /\ touched' = touched \cup reads
    /\ UNCHANGED <<rule, view, at, previous_was_dot, saw_dot>>

Init == /\ rule \in Rules
        /\ view \in Inputs
        /\ pc = "entry"
        /\ at = 1
        /\ previous_was_dot = FALSE
        /\ saw_dot = FALSE
        /\ touched = {}
        /\ verdict = FALSE
-----------------------------------------------------------------------------
(***************************************************************************)
(* The checks before the loop.                                             *)
(***************************************************************************)

\* No data behind a span, or a size the rule refuses whatever it spans.
\* The null check precedes every read.
BadSize == \/ ~ view.data /\ size > 0
           \/ rule = "digest" /\ size # DigestSize
           \/ rule \in {"text", "path"} /\ size = 0
           \/ /\ rule \notin {"digest", "text", "path"}
              /\ \/ size > NameLimit
                 \/ size = 0 /\ rule \notin EmptyAllowed

\* The first character alone decides: only these scans look at it early.
LooksAtFirst == rule \in {"identifier", "identifier_or_empty", "command"}

BadFirst == \/ rule = "command" /\ t[1] \notin Lower
            \/ rule \in {"identifier", "identifier_or_empty"}
                 /\ t[1] \notin AlphaNum

Enter ==
    /\ pc = "entry"
    /\ IF BadSize THEN Return(FALSE, {})
       ELSE IF size = 0 THEN Return(TRUE, {})
       ELSE IF LooksAtFirst /\ BadFirst THEN Return(FALSE, {1})
       ELSE /\ pc' = IF rule \in {"text", "path"} THEN "nul" ELSE "loop"
            /\ touched' = IF LooksAtFirst THEN {1} ELSE {}
            /\ UNCHANGED <<rule, view, at, previous_was_dot, saw_dot, verdict>>
-----------------------------------------------------------------------------
(***************************************************************************)
(* The text scan, also the first pass of the path scan.                    *)
(***************************************************************************)

ScanForNul ==
    /\ pc = "nul"
    /\ at <= size
    /\ IF t[at] = "NUL" THEN Return(FALSE, {at})
       ELSE /\ at' = at + 1
            /\ touched' = touched \cup {at}
            /\ UNCHANGED <<rule, view, pc, previous_was_dot, saw_dot, verdict>>

NoNul ==
    /\ pc = "nul"
    /\ at > size
    /\ IF rule = "text" THEN Return(TRUE, {})
       ELSE IF t[1] = "/" \/ t[1] = "\\" THEN Return(FALSE, {1})
       ELSE /\ pc' = "loop"
            /\ at' = 1
            /\ touched' = touched \cup {1}
            /\ UNCHANGED <<rule, view, previous_was_dot, saw_dot, verdict>>
-----------------------------------------------------------------------------
(***************************************************************************)
(* One iteration of the rule's own loop.                                   *)
(***************************************************************************)

BadCommandChar ==
    IF t[at] = "."
    THEN at = 1 \/ at = size \/ previous_was_dot
    ELSE \/ previous_was_dot /\ t[at] \notin Lower
         \/ t[at] \notin WordChars

\* Mutant: the test of what follows the dots is left out.
DotDotHere_AnyTail == /\ t[at] = "."
                      /\ at < size
                      /\ t[at + 1] = "."
                      /\ at = 1 \/ t[at - 1] = "/"

\* The four tests for a ".." segment, in the code's order; each is reached
\* when the ones before it hold.
DotDotHere == /\ t[at] = "."
              /\ at < size
              /\ t[at + 1] = "."
              /\ at = 1 \/ t[at - 1] = "/"
              /\ at + 1 = size \/ t[at + 2] = "/"

\* Mutant: the end of the path is not tested before the character after it.
PathReads_PastEnd ==
    {at} \cup (IF t[at] = "." THEN {at + 1} ELSE {})

\* The positions those tests read.
PathReads ==
    LET second == t[at] = "." /\ at < size
        third  == second /\ t[at + 1] = "."
        fourth == third /\ (at = 1 \/ t[at - 1] = "/")
    IN  {at} \cup (IF second THEN {at + 1} ELSE {})
             \cup (IF third /\ at > 1 THEN {at - 1} ELSE {})
             \cup (IF fourth /\ at + 1 # size THEN {at + 2} ELSE {})

BadChar ==
    \/ rule \in {"identifier", "identifier_or_empty"} /\ t[at] \notin IdChars
    \/ rule = "command" /\ BadCommandChar
    \/ rule \in {"name", "name_or_empty"} /\ t[at] \notin NameChars
    \/ rule = "digest" /\ t[at] \notin HexChars
    \/ rule = "path" /\ (t[at] = "\\" \/ DotDotHere)

Reads == IF rule = "path" THEN PathReads ELSE {at}

Scan ==
    /\ pc = "loop"
    /\ at <= size
    /\ IF BadChar THEN Return(FALSE, Reads)
       ELSE /\ at' = at + 1
            /\ touched' = touched \cup Reads
            /\ previous_was_dot' = (rule = "command" /\ t[at] = ".")
            /\ saw_dot' = (saw_dot \/ (rule = "command" /\ t[at] = "."))
            /\ UNCHANGED <<rule, view, pc, verdict>>

\* The loop ran to the end: only the command scan still has a question.
ScanEnd == /\ pc = "loop"
           /\ at > size
           /\ Return(rule = "command" => saw_dot, {})

Next == Enter \/ ScanForNul \/ NoNul \/ Scan \/ ScanEnd

Spec == Init /\ [][Next]_vars
-----------------------------------------------------------------------------
(***************************************************************************)
(* Properties.                                                             *)
(***************************************************************************)

(***************************************************************************)
(* A scan that returned 1 was given a text of its rule, and one that       *)
(* returned 0 a text that breaks it: the flags and early returns of the    *)
(* loops accept the language of the schemas' patterns and nothing else, at *)
(* the boundaries too (the empty text, the longest name, a dot in the last *)
(* position, ".." as the first, the last or a middle segment, names that   *)
(* only contain dots, a view without data).                                *)
(***************************************************************************)
ScanDecides == pc = "done" => (verdict <=> Accepts(rule, view))

(***************************************************************************)
(* No scan reads outside the view, and none reads a view without data.     *)
(* The path scan looks one position behind and two ahead; only the order   *)
(* of its tests keeps those reads inside.                                  *)
(***************************************************************************)
ReadsInside == /\ touched \subseteq 1..size
               /\ touched # {} => view.data
-----------------------------------------------------------------------------
(***************************************************************************)
(* The inductive invariant: what each loop has established about the       *)
(* characters before its position.                                         *)
(***************************************************************************)

\* The characters before the position obey the rule so far.
PrefixObeys ==
    LET seen == {i \in DOMAIN t : i < at} IN
    /\ rule \in {"identifier", "identifier_or_empty"} =>
         t[1] \in AlphaNum /\ \A i \in seen : t[i] \in IdChars
    /\ rule = "command" =>
         /\ t[1] \in Lower
         /\ \A i \in seen : /\ t[i] \in WordChars \cup {"."}
                            /\ SegmentStart(t, ".", i) => t[i] \in Lower
                            /\ t[i] = "." => i # size
    /\ rule \in {"name", "name_or_empty"} =>
         \A i \in seen : t[i] \in NameChars
    /\ rule = "digest" => \A i \in seen : t[i] \in HexChars
    /\ rule = "path" =>
         /\ t[1] # "/"
         /\ \A i \in DOMAIN t : t[i] # "NUL"
         /\ \A i \in seen : /\ t[i] # "\\"
                            /\ ~ /\ SegmentStart(t, "/", i)
                                 /\ i < size
                                 /\ SegmentEnd(t, "/", i + 1)
                                 /\ t[i] = "."
                                 /\ t[i + 1] = "."

\* The flags of the command scan say what was seen.
FlagsTell ==
    rule = "command" =>
        /\ previous_was_dot <=> (at > 1 /\ t[at - 1] = ".")
        /\ saw_dot <=> \E i \in DOMAIN t : i < at /\ t[i] = "."

\* A scan past its entry has a view of an admissible size, with data.
Entered == ~ BadSize /\ size > 0

IInv ==
    /\ rule \in Rules
    /\ view \in View
    /\ pc \in {"entry", "nul", "loop", "done"}
    /\ at \in 1..size + 1
    /\ previous_was_dot \in BOOLEAN /\ saw_dot \in BOOLEAN
    /\ verdict \in BOOLEAN
    /\ pc = "entry" => at = 1 /\ touched = {} /\ ~ previous_was_dot /\ ~ saw_dot
    /\ pc = "nul" => /\ Entered
                     /\ rule \in {"text", "path"}
                     /\ \A i \in DOMAIN t : i < at => t[i] # "NUL"
    /\ pc = "loop" => /\ Entered
                      /\ rule # "text"
                      /\ PrefixObeys
                      /\ FlagsTell
    /\ ReadsInside
    /\ ScanDecides
=============================================================================
