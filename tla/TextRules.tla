----------------------------- MODULE TextRules -----------------------------
(***************************************************************************)
(* The text rules of the contract validators, as the JSON schemas state    *)
(* them: what an operation identifier, a recovery command, a composition   *)
(* identifier, a SHA-256 digest, a text and a relative path must look      *)
(* like.  The C code decides each rule with a loop of its own over a       *)
(* borrowed string view; TextScan models those loops one character at a    *)
(* time and shows that each decides exactly the rule given here, so that   *)
(* other modules may use the rules in place of the loops.                  *)
(*                                                                         *)
(* A character is the name of its class, the finest partition any of the   *)
(* loops tells apart: "a" is a..f and "g" is g..z (a digest takes the      *)
(* first only), "A" any capital, "0" any digit, "NUL" the zero byte, " "   *)
(* every character no rule names.  A view is a record of whether its data  *)
(* pointer is set and of the characters it spans.                          *)
(***************************************************************************)
EXTENDS Naturals, Sequences

CONSTANTS NameLimit,    \* 128 in the code: the longest identifier or command
          DigestSize    \* 64 in the code: the characters of a SHA-256 digest

ASSUME LimitAssumption == NameLimit \in Nat \ {0} /\ DigestSize \in Nat \ {0}

Chars == {"a", "g", "A", "0", ".", "_", ":", "-", "/", "\\", "NUL", " "}

View == [data : BOOLEAN, text : Seq(Chars)]

Lower == {"a", "g"}
AlphaNum == Lower \cup {"A", "0"}
WordChars == Lower \cup {"0", "_"}
IdChars == AlphaNum \cup {".", "_", ":", "-"}
NameChars == AlphaNum \cup {".", "_", "-"}
HexChars == {"a", "0"}

AllIn(t, chars) == \A i \in DOMAIN t : t[i] \in chars

\* Position i is the first of a segment of t, the segments being what
\* sep separates.
SegmentStart(t, sep, i) == i = 1 \/ t[i - 1] = sep

\* Position j is the last of a segment.
SegmentEnd(t, sep, j) == j = Len(t) \/ t[j + 1] = sep

(***************************************************************************)
(* ^[A-Za-z0-9][A-Za-z0-9._:-]*$ of operation_outcome.v1                   *)
(***************************************************************************)
Identifier(t) == /\ Len(t) \in 1..NameLimit
                 /\ t[1] \in AlphaNum
                 /\ AllIn(t, IdChars)

\* ^[a-z][a-z0-9_]*(\.[a-z][a-z0-9_]*)+$ of operation_outcome.v1: at least
\* two dot-separated words, each starting with a letter.
CommandName(t) ==
    /\ Len(t) \in 1..NameLimit
    /\ AllIn(t, WordChars \cup {"."})
    /\ \A i \in DOMAIN t : SegmentStart(t, ".", i) => t[i] \in Lower
    /\ t[Len(t)] # "."
    /\ \E i \in DOMAIN t : t[i] = "."

(***************************************************************************)
(* ^[A-Za-z0-9._-]+$ of the composition schemas                            *)
(***************************************************************************)
Name(t) == Len(t) \in 1..NameLimit /\ AllIn(t, NameChars)

Digest(t) == Len(t) = DigestSize /\ AllIn(t, HexChars)

\* A text of any length that a C string can hold.
Text(t) == Len(t) > 0 /\ AllIn(t, Chars \ {"NUL"})

(***************************************************************************)
(* A path that stays below the directory it is relative to: not absolute,  *)
(* no backslash, and no segment that is exactly "..".  (The schema's       *)
(* pattern excludes line breaks as well; the loop does not look for them.) *)
(***************************************************************************)
RelativePath(t) ==
    /\ Text(t)
    /\ t[1] # "/"
    /\ AllIn(t, Chars \ {"\\"})
    /\ \A i, j \in DOMAIN t :
         SegmentStart(t, "/", i) /\ SegmentEnd(t, "/", j)
           => ~ (j = i + 1 /\ t[i] = "." /\ t[j] = ".")

Rules == {"identifier", "identifier_or_empty", "command", "name",
          "name_or_empty", "digest", "text", "path"}

\* The rules whose validator is called with allow_empty set.
EmptyAllowed == {"identifier_or_empty", "name_or_empty"}

\* The text t obeys rule r.
Obeys(r, t) ==
    \/ r \in EmptyAllowed /\ t = << >>
    \/ r \in {"identifier", "identifier_or_empty"} /\ Identifier(t)
    \/ r = "command" /\ CommandName(t)
    \/ r \in {"name", "name_or_empty"} /\ Name(t)
    \/ r = "digest" /\ Digest(t)
    \/ r = "text" /\ Text(t)
    \/ r = "path" /\ RelativePath(t)

\* The view v is one the validator of rule r accepts: a span with no data
\* behind it obeys nothing.
Accepts(r, v) == (v.text # << >> => v.data) /\ Obeys(r, v.text)
=============================================================================
