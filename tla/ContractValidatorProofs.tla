---------------------- MODULE ContractValidatorProofs -----------------------
(***************************************************************************)
(* Proofs about the validators of the public contracts: for texts of every *)
(* length and every limit, each loop of TextScan decides its rule and      *)
(* reads only inside the view it was given; and the validators of          *)
(* operation results, product compositions and reference graphs accept     *)
(* exactly what the published schemas admit.                               *)
(***************************************************************************)
EXTENDS TextScan, OperationOutcome, ProductComposition, ReferenceGraph, TLAPS,
        FiniteSetTheorems

-----------------------------------------------------------------------------
(* The text scans *)

\* What a view is made of.
LEMMA ViewFacts ==
    ASSUME view \in View
    PROVE  /\ size \in Nat
           /\ DOMAIN t = 1..size
           /\ \A i \in 1..size : t[i] \in Chars
           /\ (t = << >>) <=> (size = 0)
           /\ view.data \in BOOLEAN
           /\ t \in Seq(Chars)
<1>1. view.text \in Seq(Chars) /\ view.data \in BOOLEAN BY DEF View
<1>2. view.text = << >> <=> Len(view.text) = 0 BY <1>1
<1> QED BY <1>1, <1>2 DEF t, size

\* A view refused for its size obeys no rule.
LEMMA SizeDecides ==
    ASSUME rule \in Rules, view \in View, BadSize
    PROVE  ~ Accepts(rule, view)
<1>1. size \in Nat /\ ((t = << >>) <=> (size = 0)) BY ViewFacts
<1>2. t = view.text /\ size = Len(view.text) BY DEF t, size
<1>3. CASE ~ view.data /\ size > 0 BY <1>1, <1>2, <1>3 DEF Accepts
<1>4. CASE rule = "digest" /\ size # DigestSize
  BY <1>1, <1>2, <1>4 DEF Accepts, Obeys, EmptyAllowed, Digest
<1>5. CASE rule \in {"text", "path"} /\ size = 0
  BY <1>1, <1>2, <1>5 DEF Accepts, Obeys, EmptyAllowed, Text, RelativePath
<1>6. CASE /\ rule \notin {"digest", "text", "path"}
           /\ \/ size > NameLimit
              \/ size = 0 /\ rule \notin EmptyAllowed
  <2>1. size \notin 1..NameLimit BY <1>1, <1>6, LimitAssumption
  <2>2. ~ Identifier(view.text) /\ ~ CommandName(view.text) /\ ~ Name(view.text)
    BY <2>1, <1>2 DEF Identifier, CommandName, Name
  <2>3. ~ (rule \in EmptyAllowed /\ view.text = << >>)
    BY <1>1, <1>2, <1>6, LimitAssumption
  <2> QED BY <1>6, <2>2, <2>3 DEF Accepts, Obeys
<1> QED BY <1>3, <1>4, <1>5, <1>6 DEF BadSize

\* Past the size check, an empty view is one the rule allows.
LEMMA EmptyDecides ==
    ASSUME rule \in Rules, view \in View, ~ BadSize, size = 0
    PROVE  Accepts(rule, view)
<1>1. (t = << >>) /\ t = view.text BY ViewFacts DEF t
<1>2. rule \in EmptyAllowed BY LimitAssumption DEF BadSize, Rules
<1> QED BY <1>1, <1>2 DEF Accepts, Obeys

\* Past the size check a view has data and a size its rule admits.
LEMMA SizeKnown ==
    ASSUME rule \in Rules, view \in View, Entered
    PROVE  /\ view.data
           /\ size \in Nat /\ size > 0
           /\ rule = "digest" => size = DigestSize
           /\ rule \notin {"digest", "text", "path"} => size \in 1..NameLimit
<1>1. size \in Nat /\ view.data \in BOOLEAN BY ViewFacts
<1> QED BY <1>1, LimitAssumption DEF Entered, BadSize

\* A first character refused early breaks the rule.
LEMMA FirstDecides ==
    ASSUME rule \in Rules, view \in View, size > 0, LooksAtFirst, BadFirst
    PROVE  ~ Accepts(rule, view)
<1>1. /\ t = view.text /\ size = Len(t) /\ size \in Nat
      /\ DOMAIN t = 1..size /\ t # << >>
  BY ViewFacts DEF t, size
<1>2. CASE rule = "command" /\ t[1] \notin Lower
  <2>1. 1 \in DOMAIN t BY <1>1
  <2>2. ~ CommandName(t) BY <2>1, <1>2 DEF CommandName, SegmentStart
  <2> QED BY <1>1, <1>2, <2>2 DEF Accepts, Obeys, EmptyAllowed
<1>3. CASE rule \in {"identifier", "identifier_or_empty"} /\ t[1] \notin AlphaNum
  BY <1>1, <1>3 DEF Accepts, Obeys, Identifier
<1> QED BY <1>2, <1>3 DEF BadFirst

\* A character the loop refuses breaks the rule.
LEMMA CharDecides ==
    ASSUME rule \in Rules, view \in View, Entered, at \in 1..size,
           FlagsTell, previous_was_dot \in BOOLEAN, BadChar
    PROVE  ~ Accepts(rule, view)
<1>1. /\ t = view.text /\ size = Len(t) /\ size \in Nat
      /\ DOMAIN t = 1..size /\ t # << >> /\ at \in DOMAIN t /\ at \in Nat
      /\ at >= 1 /\ at <= size
  BY ViewFacts DEF t, size, Entered
<1>2. CASE rule \in {"identifier", "identifier_or_empty"} /\ t[at] \notin IdChars
  BY <1>1, <1>2 DEF Accepts, Obeys, Identifier, AllIn
<1>3. CASE rule = "command" /\ BadCommandChar
  <2>1. CASE t[at] = "."
    <3>1. CASE at = size
      BY <1>1, <1>3, <2>1, <3>1 DEF Accepts, Obeys, EmptyAllowed, CommandName
    <3>2. CASE at = 1 \/ previous_was_dot
      <4>1. SegmentStart(t, ".", at) BY <1>3, <3>2 DEF SegmentStart, FlagsTell
      <4>2. t[at] \notin Lower BY <2>1 DEF Lower
      <4>3. ~ CommandName(t) BY <1>1, <4>1, <4>2 DEF CommandName
      <4> QED BY <1>1, <1>3, <4>3 DEF Accepts, Obeys, EmptyAllowed
    <3> QED BY <1>3, <2>1, <3>1, <3>2 DEF BadCommandChar
  <2>2. CASE t[at] # "."
    <3>1. CASE previous_was_dot /\ t[at] \notin Lower
      <4>1. SegmentStart(t, ".", at) BY <1>3, <3>1 DEF SegmentStart, FlagsTell
      <4>2. ~ CommandName(t) BY <1>1, <3>1, <4>1 DEF CommandName
      <4> QED BY <1>1, <1>3, <4>2 DEF Accepts, Obeys, EmptyAllowed
    <3>2. CASE t[at] \notin WordChars
      <4>1. ~ CommandName(t) BY <1>1, <2>2, <3>2 DEF CommandName, AllIn
      <4> QED BY <1>1, <1>3, <4>1 DEF Accepts, Obeys, EmptyAllowed
    <3> QED BY <1>3, <2>2, <3>1, <3>2 DEF BadCommandChar
  <2> QED BY <2>1, <2>2
<1>4. CASE rule \in {"name", "name_or_empty"} /\ t[at] \notin NameChars
  BY <1>1, <1>4 DEF Accepts, Obeys, Name, AllIn
<1>5. CASE rule = "digest" /\ t[at] \notin HexChars
  BY <1>1, <1>5 DEF Accepts, Obeys, Digest, AllIn, EmptyAllowed
<1>6. CASE rule = "path" /\ t[at] = "\\"
  <2>1. ~ RelativePath(t) BY <1>1, <1>6 DEF RelativePath, AllIn
  <2> QED BY <1>1, <1>6, <2>1 DEF Accepts, Obeys, EmptyAllowed
<1>7. CASE rule = "path" /\ DotDotHere
  <2>1. at + 1 \in DOMAIN t BY <1>1, <1>7 DEF DotDotHere
  <2>2. SegmentStart(t, "/", at) BY <1>7 DEF DotDotHere, SegmentStart
  <2>3. SegmentEnd(t, "/", at + 1)
    <3>1. (at + 1) + 1 = at + 2 BY <1>1
    <3> QED BY <1>1, <1>7, <3>1 DEF DotDotHere, SegmentEnd
  <2>4. t[at] = "." /\ t[at + 1] = "." BY <1>7 DEF DotDotHere
  <2>5. ~ RelativePath(t) BY <1>1, <2>1, <2>2, <2>3, <2>4 DEF RelativePath
  <2> QED BY <1>1, <1>7, <2>5 DEF Accepts, Obeys, EmptyAllowed
<1> QED BY <1>2, <1>3, <1>4, <1>5, <1>6, <1>7 DEF BadChar

\* A character the loop passes extends the prefix that obeys the rule.
LEMMA PrefixGrows ==
    ASSUME rule \in Rules, view \in View, Entered, at \in 1..size,
           PrefixObeys, FlagsTell, previous_was_dot \in BOOLEAN, ~ BadChar,
           at' = at + 1, UNCHANGED <<rule, view>>
    PROVE  PrefixObeys'
<1> DEFINE seen == {i \in DOMAIN t : i < at}
           now  == {i \in DOMAIN t : i < at + 1}
<1>1. /\ size = Len(t) /\ size \in Nat /\ DOMAIN t = 1..size
      /\ at \in DOMAIN t /\ at \in Nat /\ at >= 1 /\ at <= size
  BY ViewFacts DEF t, size, Entered
<1>2. now = seen \cup {at} BY <1>1
<1>3. t' = t /\ size' = size /\ rule' = rule BY DEF t, size
<1>4. rule \in {"identifier", "identifier_or_empty"} =>
        t[1] \in AlphaNum /\ \A i \in now : t[i] \in IdChars
  BY <1>2 DEF PrefixObeys, BadChar
<1>5. rule = "command" =>
        /\ t[1] \in Lower
        /\ \A i \in now : /\ t[i] \in WordChars \cup {"."}
                          /\ SegmentStart(t, ".", i) => t[i] \in Lower
                          /\ t[i] = "." => i # size
  <2> SUFFICES ASSUME rule = "command"
               PROVE  /\ t[at] \in WordChars \cup {"."}
                      /\ SegmentStart(t, ".", at) => t[at] \in Lower
                      /\ t[at] = "." => at # size
    BY <1>2 DEF PrefixObeys
  <2>1. ~ BadCommandChar BY DEF BadChar
  <2>2. CASE t[at] = "."
    <3>1. at # 1 /\ at # size /\ ~ previous_was_dot
      BY <2>1, <2>2 DEF BadCommandChar
    <3>2. t[at - 1] # "." BY <1>1, <3>1 DEF FlagsTell
    <3> QED BY <2>2, <3>1, <3>2 DEF SegmentStart
  <2>3. CASE t[at] # "."
    <3>1. t[at] \in WordChars /\ (previous_was_dot => t[at] \in Lower)
      BY <2>1, <2>3 DEF BadCommandChar
    <3>2. CASE at = 1
      <4>1. t[1] \in Lower BY DEF PrefixObeys
      <4> QED BY <2>3, <3>1, <3>2, <4>1
    <3>3. CASE at # 1
      BY <1>1, <2>3, <3>1, <3>3 DEF SegmentStart, FlagsTell
    <3> QED BY <3>2, <3>3
  <2> QED BY <2>2, <2>3
<1>6. rule \in {"name", "name_or_empty"} => \A i \in now : t[i] \in NameChars
  BY <1>2 DEF PrefixObeys, BadChar
<1>7. rule = "digest" => \A i \in now : t[i] \in HexChars
  BY <1>2 DEF PrefixObeys, BadChar
<1>8. rule = "path" =>
        /\ t[1] # "/"
        /\ \A i \in DOMAIN t : t[i] # "NUL"
        /\ \A i \in now : /\ t[i] # "\\"
                          /\ ~ /\ SegmentStart(t, "/", i)
                               /\ i < size
                               /\ SegmentEnd(t, "/", i + 1)
                               /\ t[i] = "."
                               /\ t[i + 1] = "."
  <2> SUFFICES ASSUME rule = "path"
               PROVE  /\ t[at] # "\\"
                      /\ ~ /\ SegmentStart(t, "/", at)
                           /\ at < size
                           /\ SegmentEnd(t, "/", at + 1)
                           /\ t[at] = "."
                           /\ t[at + 1] = "."
    BY <1>2 DEF PrefixObeys
  <2>1. t[at] # "\\" /\ ~ DotDotHere BY DEF BadChar
  <2>2. (at + 1) + 1 = at + 2 BY <1>1
  <2> QED BY <1>1, <2>1, <2>2 DEF DotDotHere, SegmentStart, SegmentEnd
<1> QED BY <1>3, <1>4, <1>5, <1>6, <1>7, <1>8 DEF PrefixObeys

\* A loop that ran to the end decided its rule.
LEMMA EndDecides ==
    ASSUME rule \in Rules, rule # "text", view \in View, Entered,
           PrefixObeys, FlagsTell, at = size + 1
    PROVE  Accepts(rule, view) <=> (rule = "command" => saw_dot)
<1>1. /\ t = view.text /\ size = Len(t) /\ size \in Nat /\ t \in Seq(Chars)
      /\ DOMAIN t = 1..size /\ \A i \in DOMAIN t : t[i] \in Chars
      /\ t # << >>
  BY ViewFacts DEF t, size, Entered
<1>2. /\ view.data /\ size > 0
      /\ rule = "digest" => size = DigestSize
      /\ rule \notin {"digest", "text", "path"} => size \in 1..NameLimit
  BY SizeKnown
<1>3. {i \in DOMAIN t : i < at} = DOMAIN t BY <1>1
<1>4. Accepts(rule, view) <=> Obeys(rule, t) BY <1>1, <1>2 DEF Accepts
<1>5. CASE rule \in {"identifier", "identifier_or_empty"}
  <2>1. Identifier(t)
    BY <1>1, <1>2, <1>3, <1>5 DEF PrefixObeys, Identifier, AllIn
  <2> QED BY <1>4, <1>5, <2>1 DEF Obeys
<1>6. CASE rule = "command"
  <2>1. size \in DOMAIN t BY <1>1, <1>2
  <2>2. AllIn(t, WordChars \cup {"."})
    BY <1>3, <1>6 DEF PrefixObeys, AllIn
  <2>3. \A i \in DOMAIN t : SegmentStart(t, ".", i) => t[i] \in Lower
    BY <1>3, <1>6 DEF PrefixObeys
  <2>4. t[Len(t)] # "." BY <1>1, <1>3, <1>6, <2>1 DEF PrefixObeys
  <2>5. saw_dot <=> \E i \in DOMAIN t : t[i] = "."
    BY <1>3, <1>6 DEF FlagsTell
  <2>6. CommandName(t) <=> saw_dot
    BY <1>1, <1>2, <1>6, <2>2, <2>3, <2>4, <2>5 DEF CommandName
  <2>7. Obeys(rule, t) <=> CommandName(t) BY <1>6 DEF Obeys, EmptyAllowed
  <2> QED BY <1>4, <1>6, <2>6, <2>7
<1>7. CASE rule \in {"name", "name_or_empty"}
  <2>1. Name(t) BY <1>1, <1>2, <1>3, <1>7 DEF PrefixObeys, Name, AllIn
  <2> QED BY <1>4, <1>7, <2>1 DEF Obeys
<1>8. CASE rule = "digest"
  <2>1. Digest(t) BY <1>1, <1>2, <1>3, <1>8 DEF PrefixObeys, Digest, AllIn
  <2> QED BY <1>4, <1>8, <2>1 DEF Obeys
<1>9. CASE rule = "path"
  <2>1. Text(t) BY <1>1, <1>2, <1>9 DEF PrefixObeys, Text, AllIn
  <2>2. t[1] # "/" /\ AllIn(t, Chars \ {"\\"})
    BY <1>1, <1>3, <1>9 DEF PrefixObeys, AllIn
  <2>3. ASSUME NEW i \in DOMAIN t, NEW j \in DOMAIN t,
               SegmentStart(t, "/", i), SegmentEnd(t, "/", j)
        PROVE  ~ (j = i + 1 /\ t[i] = "." /\ t[j] = ".")
    <3> SUFFICES ASSUME j = i + 1, t[i] = ".", t[j] = "." PROVE FALSE
      OBVIOUS
    <3>1. i < size BY <1>1
    <3> QED BY <1>3, <1>9, <2>3, <3>1 DEF PrefixObeys
  <2>4. RelativePath(t) BY <2>1, <2>2, <2>3 DEF RelativePath
  <2> QED BY <1>4, <1>9, <2>4 DEF Obeys
<1> QED BY <1>5, <1>6, <1>7, <1>8, <1>9 DEF Rules

\* The reads of one iteration stay inside the view.
LEMMA ReadsHere ==
    ASSUME view \in View, at \in 1..size
    PROVE  Reads \subseteq 1..size
<1>1. size \in Nat /\ at \in Nat /\ at >= 1 /\ at <= size BY ViewFacts
<1>2. PathReads \subseteq 1..size
  <2> DEFINE second == t[at] = "." /\ at < size
             third  == second /\ t[at + 1] = "."
             fourth == third /\ (at = 1 \/ t[at - 1] = "/")
  <2>1. second => at + 1 \in 1..size BY <1>1
  <2>2. third /\ at > 1 => at - 1 \in 1..size BY <1>1
  <2>3. fourth /\ at + 1 # size => at + 2 \in 1..size BY <1>1
  <2> HIDE DEF second, third, fourth
  <2>4. PathReads = {at} \cup (IF second THEN {at + 1} ELSE {})
                        \cup (IF third /\ at > 1 THEN {at - 1} ELSE {})
                        \cup (IF fourth /\ at + 1 # size THEN {at + 2} ELSE {})
    BY DEF PathReads, second, third, fourth
  <2> QED BY <2>1, <2>2, <2>3, <2>4
<1> QED BY <1>2 DEF Reads
-----------------------------------------------------------------------------
\* The initial states satisfy the invariant.
LEMMA InitInv == Init => IInv
<1> SUFFICES ASSUME Init PROVE IInv OBVIOUS
<1>1. view \in View BY InputAssumption DEF Init
<1>2. size \in Nat BY <1>1, ViewFacts
<1>3. at \in 1..size + 1 BY <1>2 DEF Init
<1> QED BY <1>1, <1>3 DEF Init, IInv, ReadsInside, ScanDecides

\* A return with the right answer and reads inside the view.
LEMMA ReturnInv ==
    ASSUME IInv, NEW value \in BOOLEAN, NEW reads, Return(value, reads),
           value <=> Accepts(rule, view),
           reads \subseteq 1..size, reads # {} => view.data
    PROVE  IInv'
<1>1. /\ rule' = rule /\ view' = view /\ at' = at /\ pc' = "done"
      /\ previous_was_dot' = previous_was_dot /\ saw_dot' = saw_dot
      /\ verdict' = value /\ touched' = touched \cup reads
  BY DEF Return
<1>2. size' = size /\ t' = t BY <1>1 DEF size, t
<1>3. ReadsInside' BY <1>1, <1>2 DEF IInv, ReadsInside
<1>4. ScanDecides' BY <1>1 DEF ScanDecides
<1>5. /\ rule' \in Rules /\ view' \in View /\ at' \in 1..size' + 1
      /\ pc' \in {"entry", "nul", "loop", "done"}
  BY <1>1, <1>2 DEF IInv
<1>6. previous_was_dot' \in BOOLEAN /\ saw_dot' \in BOOLEAN /\ verdict' \in BOOLEAN
  BY <1>1 DEF IInv
<1>7. pc' # "entry" /\ pc' # "nul" /\ pc' # "loop" BY <1>1
<1> QED BY <1>3, <1>4, <1>5, <1>6, <1>7 DEF IInv

\* What the invariant says of the types and of the view.
LEMMA Basics ==
    ASSUME IInv
    PROVE  /\ rule \in Rules /\ view \in View
           /\ size \in Nat /\ DOMAIN t = 1..size
           /\ at \in 1..size + 1
           /\ previous_was_dot \in BOOLEAN /\ saw_dot \in BOOLEAN
           /\ verdict \in BOOLEAN
BY ViewFacts DEF IInv

\* The checks before the loop keep the invariant.
LEMMA EnterInv == IInv /\ Enter => IInv'
<1> SUFFICES ASSUME IInv, Enter PROVE IInv' OBVIOUS
<1>1. /\ rule \in Rules /\ view \in View /\ size \in Nat
      /\ DOMAIN t = 1..size /\ at = 1 /\ touched = {} /\ pc = "entry"
      /\ ~ previous_was_dot /\ ~ saw_dot
  BY Basics DEF IInv, Enter
<1>2. CASE BadSize
  <2>1. Return(FALSE, {}) BY <1>2 DEF Enter
  <2> QED BY <1>1, <1>2, <2>1, SizeDecides, ReturnInv
<1>3. CASE ~ BadSize /\ size = 0
  <2>1. Return(TRUE, {}) BY <1>3 DEF Enter
  <2> QED BY <1>1, <1>3, <2>1, EmptyDecides, ReturnInv
<1>4. CASE ~ BadSize /\ size # 0
  <2>1. Entered /\ size > 0 /\ 1 \in 1..size BY <1>1, <1>4 DEF Entered
  <2>2. view.data BY <1>1, <2>1, SizeKnown
  <2>3. CASE LooksAtFirst /\ BadFirst
    <3>1. Return(FALSE, {1}) BY <1>4, <2>3 DEF Enter
    <3> QED BY <1>1, <2>1, <2>2, <2>3, <3>1, FirstDecides, ReturnInv
  <2>4. CASE ~ (LooksAtFirst /\ BadFirst)
    <3>1. /\ pc' = IF rule \in {"text", "path"} THEN "nul" ELSE "loop"
          /\ touched' = IF LooksAtFirst THEN {1} ELSE {}
          /\ UNCHANGED <<rule, view, at, previous_was_dot, saw_dot, verdict>>
      BY <1>4, <2>4 DEF Enter
    <3>2. t' = t /\ size' = size BY <3>1 DEF t, size
    <3>3. Entered' BY <2>1, <3>1, <3>2 DEF Entered, BadSize
    <3>4. ReadsInside' BY <2>1, <2>2, <3>1, <3>2 DEF ReadsInside
    <3>5. ScanDecides' BY <3>1 DEF ScanDecides
    <3>6. pc' = "nul" => /\ rule' \in {"text", "path"}
                         /\ \A i \in DOMAIN t' : i < at' => t'[i] # "NUL"
      BY <1>1, <3>1, <3>2
    <3>7. pc' = "loop" => rule' # "text" /\ PrefixObeys' /\ FlagsTell'
      <4> SUFFICES ASSUME pc' = "loop"
                   PROVE rule' # "text" /\ PrefixObeys' /\ FlagsTell'
        OBVIOUS
      <4>1. rule \notin {"text", "path"} BY <3>1
      <4>2. at' = 1 /\ rule' = rule BY <1>1, <3>1
      <4>3. {i \in DOMAIN t' : i < at'} = {} BY <1>1, <3>2, <4>2
      <4>4. /\ rule = "command" => t[1] \in Lower
            /\ rule \in {"identifier", "identifier_or_empty"} => t[1] \in AlphaNum
        BY <2>4 DEF LooksAtFirst, BadFirst
      <4>5. PrefixObeys' BY <3>2, <4>1, <4>2, <4>3, <4>4 DEF PrefixObeys
      <4>6. ~ previous_was_dot' /\ ~ saw_dot' BY <1>1, <3>1
      <4>7. FlagsTell' BY <4>2, <4>3, <4>6 DEF FlagsTell
      <4> QED BY <4>1, <4>2, <4>5, <4>7
    <3>8. /\ rule' \in Rules /\ view' \in View /\ at' \in 1..size' + 1
          /\ pc' \in {"nul", "loop"}
      BY <1>1, <3>1, <3>2
    <3>9. previous_was_dot' \in BOOLEAN /\ saw_dot' \in BOOLEAN /\ verdict' \in BOOLEAN
      BY <3>1, Basics
    <3> QED BY <3>3, <3>4, <3>5, <3>6, <3>7, <3>8, <3>9 DEF IInv
  <2> QED BY <2>3, <2>4
<1> QED BY <1>2, <1>3, <1>4

\* A NUL byte breaks the rules of the scans that look for one.
LEMMA NulDecides ==
    ASSUME rule \in {"text", "path"}, view \in View, NEW i \in DOMAIN t,
           t[i] = "NUL"
    PROVE  ~ Accepts(rule, view)
<1>1. ~ AllIn(t, Chars \ {"NUL"}) BY DEF AllIn
<1>2. ~ Text(t) /\ ~ RelativePath(t) BY <1>1 DEF Text, RelativePath
<1> QED BY <1>2 DEF Accepts, Obeys, EmptyAllowed, t

\* The pass that looks for a NUL byte keeps the invariant.
LEMMA ScanForNulInv == IInv /\ ScanForNul => IInv'
<1> SUFFICES ASSUME IInv, ScanForNul PROVE IInv' OBVIOUS
<1>1. /\ rule \in Rules /\ view \in View /\ size \in Nat
      /\ DOMAIN t = 1..size /\ at \in 1..size + 1 /\ at <= size
      /\ pc = "nul" /\ rule \in {"text", "path"} /\ Entered
      /\ \A i \in DOMAIN t : i < at => t[i] # "NUL"
  BY Basics DEF IInv, ScanForNul
<1>2. at \in 1..size /\ at \in DOMAIN t BY <1>1
<1>3. view.data BY <1>1, SizeKnown
<1>4. CASE t[at] = "NUL"
  <2>1. Return(FALSE, {at}) BY <1>4 DEF ScanForNul
  <2> QED BY <1>1, <1>2, <1>3, <1>4, <2>1, NulDecides, ReturnInv
<1>5. CASE t[at] # "NUL"
  <2>1. /\ at' = at + 1 /\ touched' = touched \cup {at}
        /\ UNCHANGED <<rule, view, pc, previous_was_dot, saw_dot, verdict>>
    BY <1>5 DEF ScanForNul
  <2>2. t' = t /\ size' = size BY <2>1 DEF t, size
  <2>3. Entered' BY <1>1, <2>1, <2>2 DEF Entered, BadSize
  <2>4. ReadsInside' BY <1>2, <1>3, <2>1, <2>2 DEF IInv, ReadsInside
  <2>5. ScanDecides' BY <1>1, <2>1 DEF ScanDecides
  <2>6. \A i \in DOMAIN t' : i < at' => t'[i] # "NUL"
    BY <1>1, <1>5, <2>1, <2>2
  <2>7. /\ rule' \in {"text", "path"} /\ rule' \in Rules /\ view' \in View
        /\ at' \in 1..size' + 1 /\ pc' = "nul"
    BY <1>1, <2>1, <2>2
  <2>8. previous_was_dot' \in BOOLEAN /\ saw_dot' \in BOOLEAN /\ verdict' \in BOOLEAN
    BY <2>1, Basics
  <2> QED BY <2>3, <2>4, <2>5, <2>6, <2>7, <2>8 DEF IInv
<1> QED BY <1>4, <1>5

\* The end of that pass keeps the invariant.
LEMMA NoNulInv == IInv /\ NoNul => IInv'
<1> SUFFICES ASSUME IInv, NoNul PROVE IInv' OBVIOUS
<1>1. /\ rule \in Rules /\ view \in View /\ size \in Nat
      /\ DOMAIN t = 1..size /\ at \in 1..size + 1 /\ at > size
      /\ pc = "nul" /\ rule \in {"text", "path"} /\ Entered
      /\ \A i \in DOMAIN t : i < at => t[i] # "NUL"
  BY Basics DEF IInv, NoNul
<1>2. /\ t = view.text /\ size = Len(t) /\ t # << >> /\ size > 0
      /\ \A i \in DOMAIN t : t[i] \in Chars
      /\ \A i \in DOMAIN t : t[i] # "NUL"
  BY <1>1, ViewFacts DEF t, size, Entered
<1>3. view.data BY <1>1, SizeKnown
<1>4. Text(t) BY <1>2 DEF Text, AllIn
<1>5. CASE rule = "text"
  <2>1. Return(TRUE, {}) BY <1>5 DEF NoNul
  <2>2. Accepts(rule, view) BY <1>2, <1>3, <1>4, <1>5 DEF Accepts, Obeys
  <2> QED BY <2>1, <2>2, ReturnInv
<1>6. CASE rule = "path" /\ (t[1] = "/" \/ t[1] = "\\")
  <2>1. Return(FALSE, {1}) BY <1>6 DEF NoNul
  <2>2. 1 \in DOMAIN t /\ 1 \in 1..size BY <1>1, <1>2
  <2>3. ~ RelativePath(t) BY <1>6, <2>2 DEF RelativePath, AllIn
  <2>4. ~ Accepts(rule, view)
    BY <1>2, <1>6, <2>3 DEF Accepts, Obeys, EmptyAllowed
  <2> QED BY <1>3, <2>1, <2>2, <2>4, ReturnInv
<1>7. CASE rule = "path" /\ ~ (t[1] = "/" \/ t[1] = "\\")
  <2>1. /\ pc' = "loop" /\ at' = 1 /\ touched' = touched \cup {1}
        /\ UNCHANGED <<rule, view, previous_was_dot, saw_dot, verdict>>
    BY <1>7 DEF NoNul
  <2>2. t' = t /\ size' = size BY <2>1 DEF t, size
  <2>3. Entered' BY <1>1, <2>1, <2>2 DEF Entered, BadSize
  <2>4. ReadsInside'
    <3>1. 1 \in 1..size BY <1>1, <1>2
    <3> QED BY <1>3, <2>1, <2>2, <3>1 DEF IInv, ReadsInside
  <2>5. ScanDecides' BY <2>1 DEF ScanDecides
  <2>6. {i \in DOMAIN t' : i < at'} = {} BY <1>1, <2>1, <2>2
  <2>7. PrefixObeys' BY <1>2, <1>7, <2>1, <2>2, <2>6 DEF PrefixObeys
  <2>8. FlagsTell' BY <1>7, <2>1 DEF FlagsTell
  <2>9. /\ rule' # "text" /\ rule' \in Rules /\ view' \in View
        /\ at' \in 1..size' + 1
    BY <1>1, <1>7, <2>1, <2>2
  <2>10. previous_was_dot' \in BOOLEAN /\ saw_dot' \in BOOLEAN /\ verdict' \in BOOLEAN
    BY <2>1, Basics
  <2> QED BY <2>1, <2>3, <2>4, <2>5, <2>7, <2>8, <2>9, <2>10 DEF IInv
<1> QED BY <1>1, <1>5, <1>6, <1>7

\* An iteration of a rule's loop keeps the invariant.
LEMMA ScanInv == IInv /\ Scan => IInv'
<1> SUFFICES ASSUME IInv, Scan PROVE IInv' OBVIOUS
<1>1. /\ rule \in Rules /\ rule # "text" /\ view \in View /\ size \in Nat
      /\ DOMAIN t = 1..size /\ at \in 1..size + 1 /\ at <= size
      /\ pc = "loop" /\ Entered /\ PrefixObeys /\ FlagsTell
      /\ previous_was_dot \in BOOLEAN /\ saw_dot \in BOOLEAN
  BY Basics DEF IInv, Scan
<1>2. at \in 1..size /\ at \in DOMAIN t /\ at \in Nat BY <1>1
<1>3. view.data BY <1>1, SizeKnown
<1>4. Reads \subseteq 1..size BY <1>1, <1>2, ReadsHere
<1>5. CASE BadChar
  <2>1. Return(FALSE, Reads) BY <1>5 DEF Scan
  <2>2. ~ Accepts(rule, view) BY <1>1, <1>2, <1>5, CharDecides
  <2> QED BY <1>3, <1>4, <2>1, <2>2, ReturnInv
<1>6. CASE ~ BadChar
  <2>1. /\ at' = at + 1 /\ touched' = touched \cup Reads
        /\ UNCHANGED <<rule, view, pc, verdict>>
    BY <1>6 DEF Scan
  <2>2. /\ previous_was_dot' = (rule = "command" /\ t[at] = ".")
        /\ saw_dot' = (saw_dot \/ (rule = "command" /\ t[at] = "."))
    BY <1>6, Zenon DEF Scan
  <2>3. t' = t /\ size' = size BY <2>1 DEF t, size
  <2>4. Entered' BY <1>1, <2>1, <2>3 DEF Entered, BadSize
  <2>5. ReadsInside' BY <1>3, <1>4, <2>1, <2>3 DEF IInv, ReadsInside
  <2>6. ScanDecides' BY <1>1, <2>1 DEF ScanDecides
  <2>7. PrefixObeys' BY <1>1, <1>2, <1>6, <2>1, PrefixGrows
  <2>8. FlagsTell'
    <3> SUFFICES ASSUME rule = "command"
                 PROVE /\ previous_was_dot' <=> (at' > 1 /\ t[at' - 1] = ".")
                       /\ saw_dot' <=> \E i \in DOMAIN t : i < at' /\ t[i] = "."
      BY <2>1, <2>3 DEF FlagsTell
    <3>1. at' > 1 /\ at' - 1 = at BY <1>2, <2>1
    <3>2. previous_was_dot' <=> t[at] = "." BY <2>2, Zenon
    <3>3. saw_dot' <=> (saw_dot \/ t[at] = ".") BY <2>2, Zenon
    <3>4. \A i \in DOMAIN t : i < at' <=> (i < at \/ i = at)
      BY <1>1, <1>2, <2>1
    <3>5. saw_dot <=> \E i \in DOMAIN t : i < at /\ t[i] = "."
      BY <1>1 DEF FlagsTell
    <3>6. saw_dot' <=> \E i \in DOMAIN t : i < at' /\ t[i] = "."
      BY <1>2, <3>3, <3>4, <3>5
    <3> QED BY <3>1, <3>2, <3>6
  <2>9. /\ rule' # "text" /\ rule' \in Rules /\ view' \in View
        /\ at' \in 1..size' + 1 /\ pc' = "loop"
    BY <1>1, <1>2, <2>1, <2>3
  <2>10. previous_was_dot' \in BOOLEAN /\ saw_dot' \in BOOLEAN BY <2>2, Zenon
  <2>11. verdict' \in BOOLEAN BY <2>1, Basics
  <2> QED BY <2>4, <2>5, <2>6, <2>7, <2>8, <2>9, <2>10, <2>11 DEF IInv
<1> QED BY <1>5, <1>6

\* The end of a rule's loop keeps the invariant.
LEMMA ScanEndInv == IInv /\ ScanEnd => IInv'
<1> SUFFICES ASSUME IInv, ScanEnd PROVE IInv' OBVIOUS
<1>1. /\ rule \in Rules /\ rule # "text" /\ view \in View /\ size \in Nat
      /\ at \in 1..size + 1 /\ at > size
      /\ Entered /\ PrefixObeys /\ FlagsTell
  BY Basics DEF IInv, ScanEnd
<1>2. at = size + 1 BY <1>1
<1>3. (rule = "command" => saw_dot) <=> Accepts(rule, view)
  BY <1>1, <1>2, EndDecides
<1>4. Return(rule = "command" => saw_dot, {}) BY DEF ScanEnd
<1>5. (rule = "command" => saw_dot) \in BOOLEAN OBVIOUS
<1> QED BY <1>3, <1>4, <1>5, ReturnInv

\* Every step keeps the invariant.
LEMMA StepInv == IInv /\ [Next]_vars => IInv'
<1> SUFFICES ASSUME IInv, [Next]_vars PROVE IInv' OBVIOUS
<1>1. CASE Next
  BY <1>1, EnterInv, ScanForNulInv, NoNulInv, ScanInv, ScanEndInv DEF Next
<1>2. CASE UNCHANGED vars
  <2>1. t' = t /\ size' = size BY <1>2 DEF vars, t, size
  <2>2. ReadsInside' BY <1>2, <2>1 DEF vars, IInv, ReadsInside
  <2>3. ScanDecides' BY <1>2 DEF vars, IInv, ScanDecides
  <2>4. PrefixObeys' <=> PrefixObeys BY <1>2, <2>1 DEF vars, PrefixObeys
  <2>5. FlagsTell' <=> FlagsTell BY <1>2, <2>1 DEF vars, FlagsTell
  <2>6. Entered' <=> Entered BY <1>2, <2>1 DEF vars, Entered, BadSize
  <2> QED BY <1>2, <2>1, <2>2, <2>3, <2>4, <2>5, <2>6 DEF vars, IInv
<1> QED BY <1>1, <1>2

\* The invariant holds throughout every scan.
THEOREM Invariance == Spec => []IInv
BY InitInv, StepInv, PTL DEF Spec

(***************************************************************************)
(* The scans of ulk_operation.c and ulk_product_composition.c accept       *)
(* exactly the texts of their rules, whatever the length of the text.      *)
(***************************************************************************)
THEOREM ScansDecide == Spec => []ScanDecides
<1>1. IInv => ScanDecides BY DEF IInv
<1> QED BY <1>1, Invariance, PTL

(***************************************************************************)
(* No scan reads outside its view or reads a view without data, whatever   *)
(* the length of the text.                                                 *)
(***************************************************************************)
THEOREM ScansReadInside == Spec => []ReadsInside
<1>1. IInv => ReadsInside BY DEF IInv
<1> QED BY <1>1, Invariance, PTL
-----------------------------------------------------------------------------
(* Operation results *)

\* A view that spans something has data.
Holds(v) == v.text # << >> => v.data

\* What the rules of the operation validator say of a view.
LEMMA OperationRules ==
    ASSUME NEW v
    PROVE  /\ Accepts("identifier", v) <=> Holds(v) /\ Identifier(v.text)
           /\ Accepts("identifier_or_empty", v) <=>
                Holds(v) /\ (v.text = << >> \/ Identifier(v.text))
           /\ Accepts("command", v) <=> Holds(v) /\ CommandName(v.text)
BY DEF Accepts, Obeys, EmptyAllowed, Holds

\* The table of the schema, row by row: the outcomes it names are those of the
\* enumeration, and its two columns say what the consistency checks say.
LEMMA TableRows ==
    ASSUME NEW outcome \in 0..7, NEW effects
    PROVE  /\ OutcomeName(outcome) \in DOMAIN Table <=> OutcomeValid(outcome)
           /\ OutcomeValid(outcome) =>
                /\ effects \in Table[OutcomeName(outcome)][1] <=>
                     /\ effects \in {0, 1}
                     /\ outcome \in {1, 2} => effects = 0
                     /\ outcome \in {5, 6} => effects = 1
                /\ Table[OutcomeName(outcome)][2] <=> outcome \in {5, 6}
<1> USE DEF OutcomeValid, CancelledBeforeDispatch, RefusedBeforeEffects, Completed,
            CancelledButCompleted, RecoveryRequired, OutcomeUnknown
<1>1. DOMAIN Table = {"cancelled_before_dispatch", "refused_before_effects", "completed",
                      "cancellation_requested_but_completed", "recovery_required",
                      "outcome_unknown"}
  BY DEF Table
<1>2. CASE outcome \in {0, 7}
  <2>1. OutcomeName(outcome) = "unknown" BY <1>2 DEF OutcomeName
  <2> QED BY <1>1, <1>2, <2>1
<1>3. CASE outcome = 1
  <2>1. OutcomeName(outcome) = "cancelled_before_dispatch" BY <1>3 DEF OutcomeName
  <2>2. Table["cancelled_before_dispatch"][1] = {0} BY DEF Table
  <2>3. ~Table["cancelled_before_dispatch"][2] BY DEF Table
  <2> QED BY <1>1, <1>3, <2>1, <2>2, <2>3
<1>4. CASE outcome = 2
  <2>1. OutcomeName(outcome) = "refused_before_effects" BY <1>4 DEF OutcomeName
  <2>2. Table["refused_before_effects"][1] = {0} BY DEF Table
  <2>3. ~Table["refused_before_effects"][2] BY DEF Table
  <2> QED BY <1>1, <1>4, <2>1, <2>2, <2>3
<1>5. CASE outcome = 3
  <2>1. OutcomeName(outcome) = "completed" BY <1>5 DEF OutcomeName
  <2>2. Table["completed"][1] = {0, 1} BY DEF Table
  <2>3. ~Table["completed"][2] BY DEF Table
  <2> QED BY <1>1, <1>5, <2>1, <2>2, <2>3
<1>6. CASE outcome = 4
  <2>1. OutcomeName(outcome) = "cancellation_requested_but_completed"
    BY <1>6 DEF OutcomeName
  <2>2. Table["cancellation_requested_but_completed"][1] = {0, 1} BY DEF Table
  <2>3. ~Table["cancellation_requested_but_completed"][2] BY DEF Table
  <2> QED BY <1>1, <1>6, <2>1, <2>2, <2>3
<1>7. CASE outcome = 5
  <2>1. OutcomeName(outcome) = "recovery_required" BY <1>7 DEF OutcomeName
  <2>2. Table["recovery_required"][1] = {1} BY DEF Table
  <2>3. Table["recovery_required"][2] BY DEF Table
  <2> QED BY <1>1, <1>7, <2>1, <2>2, <2>3
<1>8. CASE outcome = 6
  <2>1. OutcomeName(outcome) = "outcome_unknown" BY <1>8 DEF OutcomeName
  <2>2. Table["outcome_unknown"][1] = {1} BY DEF Table
  <2>3. Table["outcome_unknown"][2] BY DEF Table
  <2> QED BY <1>1, <1>8, <2>1, <2>2, <2>3
<1> QED BY <1>2, <1>3, <1>4, <1>5, <1>6, <1>7, <1>8

\* The checks of ulk_operation_result_validate_v1 and the schema say the same
\* of every result.
LEMMA ResultDecided ==
    ASSUME NEW r \in Result
    PROVE  FieldsValid(r) /\ Consistent(r) <=> Readable(r) /\ FitsSchema(r)
<1> DEFINE name == OutcomeName(r.outcome)
<1>1. r.outcome \in 0..7 BY DEF Result
<1>2. r.recovery.required \in 0..2 BY DEF Result, Recovery, Flag
<1>3. Uncertain(r) <=> r.outcome \in {5, 6}
  BY DEF Uncertain, RecoveryRequired, OutcomeUnknown
<1>4. PreEffect(r) <=> r.outcome \in {1, 2}
  BY DEF PreEffect, CancelledBeforeDispatch, RefusedBeforeEffects
<1>5. name \in DOMAIN Table <=> OutcomeValid(r.outcome) BY <1>1, TableRows
<1>6. OutcomeValid(r.outcome) =>
        /\ r.effects \in Table[name][1] <=>
             /\ r.effects \in {0, 1}
             /\ PreEffect(r) => r.effects = 0
             /\ Uncertain(r) => r.effects = 1
        /\ Table[name][2] <=> Uncertain(r)
  BY <1>1, <1>3, <1>4, TableRows
<1>7. Readable(r) <=>
        /\ r.whole /\ r.identity.whole /\ r.recovery.whole
        /\ Holds(r.identity.operation_id) /\ Holds(r.identity.attempt_id)
        /\ Holds(r.recovery.transaction_id) /\ Holds(r.recovery.inspect_command)
  BY DEF Readable, Holds
<1>8. FieldsValid(r) <=>
        /\ r.whole /\ r.identity.whole /\ r.recovery.whole
        /\ Holds(r.identity.operation_id) /\ Identifier(r.identity.operation_id.text)
        /\ Holds(r.identity.attempt_id) /\ Identifier(r.identity.attempt_id.text)
        /\ OutcomeValid(r.outcome) /\ r.effects \in {0, 1}
        /\ r.recovery.required \in {0, 1}
        /\ Holds(r.recovery.transaction_id)
        /\ \/ r.recovery.transaction_id.text = << >>
           \/ Identifier(r.recovery.transaction_id.text)
        /\ Holds(r.recovery.inspect_command)
  BY OperationRules DEF FieldsValid, IdentityValid, Holds
<1>9. Consistent(r) <=>
        /\ PreEffect(r) => r.effects = 0 /\ r.recovery.required = 0
        /\ Uncertain(r) => /\ r.effects = 1
                           /\ r.recovery.required = 1
                           /\ Holds(r.recovery.inspect_command)
                           /\ CommandName(r.recovery.inspect_command.text)
        /\ ~ Uncertain(r) => /\ r.recovery.required = 0
                             /\ r.recovery.transaction_id.text = << >>
                             /\ r.recovery.inspect_command.text = << >>
  BY OperationRules DEF Consistent
<1>10. OutcomeValid(r.outcome) =>
        (FitsSchema(r) <=>
          /\ Identifier(r.identity.operation_id.text)
          /\ Identifier(r.identity.attempt_id.text)
          /\ r.effects \in {0, 1}
          /\ PreEffect(r) => r.effects = 0
          /\ Uncertain(r) => r.effects = 1
          /\ Uncertain(r) => /\ r.recovery.required = 1
                             /\ CommandName(r.recovery.inspect_command.text)
                             /\ \/ r.recovery.transaction_id.text = << >>
                                \/ Identifier(r.recovery.transaction_id.text)
          /\ ~ Uncertain(r) => /\ r.recovery.required = 0
                               /\ r.recovery.inspect_command.text = << >>
                               /\ r.recovery.transaction_id.text = << >>)
  <2> HIDE DEF name
  <2>1. FitsSchema(r) <=>
          /\ name \in DOMAIN Table
          /\ Identifier(r.identity.operation_id.text)
          /\ Identifier(r.identity.attempt_id.text)
          /\ r.effects \in Table[name][1]
          /\ IF Table[name][2]
             THEN /\ r.recovery.required = 1
                  /\ CommandName(r.recovery.inspect_command.text)
                  /\ \/ r.recovery.transaction_id.text = << >>
                     \/ Identifier(r.recovery.transaction_id.text)
             ELSE /\ r.recovery.required = 0
                  /\ r.recovery.inspect_command.text = << >>
                  /\ r.recovery.transaction_id.text = << >>
    BY DEF FitsSchema, name
  <2> QED BY <2>1, <1>5, <1>6
<1>11. ~OutcomeValid(r.outcome) => ~FitsSchema(r) BY <1>5 DEF FitsSchema
<1>12. Uncertain(r) => ~PreEffect(r) BY <1>3, <1>4
<1>13. r.recovery.required \in {0, 1} <=>
         (r.recovery.required = 0 \/ r.recovery.required = 1)
  OBVIOUS
<1> QED BY <1>7, <1>8, <1>9, <1>10, <1>11, <1>12, <1>13

\* An answered question was answered by the checks.
AnswerInv ==
    /\ result \in Result
    /\ answer # "unasked" =>
         (answer = "ok" <=> FieldsValid(result) /\ Consistent(result))

\* ulk_operation_result_validate_v1 accepts exactly the results that
\* operation_outcome.v1.schema.json admits, whatever texts they carry.
THEOREM ResultsFitSchema == ResultSpec => []ValidIffFitsSchema
<1>1. ResultInit => AnswerInv BY DEF ResultInit, AnswerInv
<1>2. AnswerInv /\ [ResultNext]_resultVars => AnswerInv'
  <2> SUFFICES ASSUME AnswerInv, [ResultNext]_resultVars PROVE AnswerInv' OBVIOUS
  <2>1. result' = result BY DEF ResultNext, ValidateResult, resultVars
  <2>2. CASE ResultNext
    BY <2>1, <2>2 DEF AnswerInv, ResultNext, ValidateResult
  <2>3. CASE UNCHANGED resultVars BY <2>1, <2>3 DEF AnswerInv, resultVars
  <2> QED BY <2>2, <2>3
<1>3. AnswerInv => ValidIffFitsSchema
  BY ResultDecided DEF AnswerInv, ValidIffFitsSchema
<1> QED BY <1>1, <1>2, <1>3, PTL DEF ResultSpec
-----------------------------------------------------------------------------
(* Product compositions *)

Texts == Samples \cup {Plain, Hex}

Arrays(S) == [set : BOOLEAN, items : Seq(S)]

Capabilities == [whole : BOOLEAN, kind : Int, required : Int]

Entrypoints ==
    [whole : BOOLEAN, entrypoint_id : Texts, relative_path : Texts,
     artifact_set_id : Texts, capabilities : Arrays(Capabilities)]

Descriptors ==
    [whole : BOOLEAN, set : BOOLEAN, product_id : Texts, exact_version : Texts,
     publisher_id : Texts, composition_revision : Texts]

ContractSets ==
    [whole : BOOLEAN, set : BOOLEAN, contract_set_id : Texts, version : Texts,
     sha256 : Texts]

Compositions ==
    [whole : BOOLEAN, product : Descriptors, entrypoints : Arrays(Entrypoints),
     contract_set : ContractSets]

\* An array changes into an array of the same kind of items.
LEMMA ArrayTyped ==
    ASSUME NEW S, NEW array \in Arrays(S), NEW fresh \in S, NEW others,
           \A i \in DOMAIN array.items : others[i] \subseteq S
    PROVE  ChangedArray(array, fresh, others) \subseteq Arrays(S)
<1> DEFINE items == array.items
<1>0. items \in Seq(S) /\ array.set \in BOOLEAN BY DEF Arrays
<1>1. {[array EXCEPT !.set = FALSE]} \subseteq Arrays(S) BY DEF Arrays
<1>2. ASSUME NEW i \in DOMAIN items, NEW x \in others[i]
      PROVE  [array EXCEPT !.items[i] = x] \in Arrays(S)
  <2>1. x \in S OBVIOUS
  <2>2. [items EXCEPT ![i] = x] \in Seq(S) BY <1>0, <2>1
  <2> QED BY <2>2 DEF Arrays
<1>3. [array EXCEPT !.items = Append(items, fresh)] \in Arrays(S) BY <1>0 DEF Arrays
<1>4. Len(items) > 0 => [array EXCEPT !.items = Front(items)] \in Arrays(S)
  <2>1. Len(items) > 0 => Front(items) \in Seq(S) BY <1>0 DEF Front
  <2> QED BY <2>1 DEF Arrays
<1>5. UNION {{[array EXCEPT !.items[i] = x] : x \in others[i]} : i \in DOMAIN items}
        \subseteq Arrays(S)
  BY <1>2
<1>6. (IF Len(items) < MaxItems
       THEN {[array EXCEPT !.items = Append(items, fresh)]} ELSE {}) \subseteq Arrays(S)
  BY <1>3
<1>7. (IF Len(items) > 0 THEN {[array EXCEPT !.items = Front(items)]} ELSE {})
        \subseteq Arrays(S)
  BY <1>4
<1> QED BY <1>1, <1>5, <1>6, <1>7, Zenon DEF ChangedArray

\* The fixture is a composition, and an edit makes one of one.
LEMMA FixtureTyped == Fixture \in Compositions /\ FixtureEntrypoint \in Entrypoints
                      /\ FixtureCapability \in Capabilities
<1>1. FixtureCapability \in Capabilities BY DEF FixtureCapability, Capabilities
<1>2. Array(<<FixtureCapability>>) \in Arrays(Capabilities)
  BY <1>1 DEF Array, Arrays
<1>3. FixtureEntrypoint \in Entrypoints
  BY <1>2 DEF FixtureEntrypoint, Entrypoints, Texts
<1>4. Array(<<FixtureEntrypoint>>) \in Arrays(Entrypoints)
  BY <1>3 DEF Array, Arrays
<1> QED BY <1>1, <1>3, <1>4 DEF Fixture, Compositions, Descriptors, ContractSets, Texts

\* A struct changes in a text, its size or its pointer.
LEMMA StructTyped ==
    /\ \A x \in Descriptors : Changed(x) \subseteq Descriptors
    /\ \A x \in ContractSets : Changed(x) \subseteq ContractSets
    /\ \A x \in Entrypoints : Changed(x) \subseteq Entrypoints
<1>1. ASSUME NEW x \in Descriptors, NEW y \in Changed(x) PROVE y \in Descriptors
  <2>1. DOMAIN x = {"whole", "set", "product_id", "exact_version", "publisher_id",
                    "composition_revision"}
    BY DEF Descriptors
  <2>2. CASE \E f \in DOMAIN x \cap TextFields, v \in Samples : y = [x EXCEPT ![f] = v]
    BY <2>1, <2>2 DEF Descriptors, Texts, TextFields
  <2>3. CASE \E f \in DOMAIN x \cap {"whole", "set"} : y = [x EXCEPT ![f] = FALSE]
    BY <2>1, <2>3 DEF Descriptors
  <2> QED BY <1>1, <2>2, <2>3 DEF Changed
<1>2. ASSUME NEW x \in ContractSets, NEW y \in Changed(x) PROVE y \in ContractSets
  <2>1. DOMAIN x = {"whole", "set", "contract_set_id", "version", "sha256"}
    BY DEF ContractSets
  <2>2. CASE \E f \in DOMAIN x \cap TextFields, v \in Samples : y = [x EXCEPT ![f] = v]
    BY <2>1, <2>2 DEF ContractSets, Texts, TextFields
  <2>3. CASE \E f \in DOMAIN x \cap {"whole", "set"} : y = [x EXCEPT ![f] = FALSE]
    BY <2>1, <2>3 DEF ContractSets
  <2> QED BY <1>2, <2>2, <2>3 DEF Changed
<1>3. ASSUME NEW x \in Entrypoints, NEW y \in Changed(x) PROVE y \in Entrypoints
  <2>1. DOMAIN x = {"whole", "entrypoint_id", "relative_path", "artifact_set_id",
                    "capabilities"}
    BY DEF Entrypoints
  <2>2. CASE \E f \in DOMAIN x \cap TextFields, v \in Samples : y = [x EXCEPT ![f] = v]
    BY <2>1, <2>2 DEF Entrypoints, Texts, TextFields
  <2>3. CASE \E f \in DOMAIN x \cap {"whole", "set"} : y = [x EXCEPT ![f] = FALSE]
    BY <2>1, <2>3 DEF Entrypoints
  <2> QED BY <1>3, <2>2, <2>3 DEF Changed
<1> QED BY <1>1, <1>2, <1>3

LEMMA EditTyped ==
    ASSUME composition \in Compositions, EditComposition
    PROVE  composition' \in Compositions
<1>1. /\ composition.product \in Descriptors
      /\ composition.contract_set \in ContractSets
      /\ composition.entrypoints \in Arrays(Entrypoints)
  BY DEF Compositions
<1>2. ASSUME NEW c \in Capabilities PROVE ChangedCapability(c) \subseteq Capabilities
  <2>1. [c EXCEPT !.whole = FALSE] \in Capabilities BY DEF Capabilities
  <2>2. \A k \in Int : [c EXCEPT !.kind = k] \in Capabilities BY DEF Capabilities
  <2>3. \A k \in Int : [c EXCEPT !.required = k] \in Capabilities BY DEF Capabilities
  <2>4. {0, 8, 9} \subseteq Int /\ {0, 2} \subseteq Int OBVIOUS
  <2>5. /\ {[c EXCEPT !.kind = k] : k \in {0, 8, 9}} \subseteq Capabilities
        /\ {[c EXCEPT !.required = k] : k \in {0, 2}} \subseteq Capabilities
    BY <2>2, <2>3, <2>4
  <2> QED BY <2>1, <2>5, Zenon DEF ChangedCapability
<1>3. ASSUME NEW e \in Entrypoints PROVE ChangedEntrypoint(e) \subseteq Entrypoints
  <2>1. e.capabilities \in Arrays(Capabilities) BY DEF Entrypoints
  <2>2. ChangedCapabilities(e.capabilities) \subseteq Arrays(Capabilities)
    <3> DEFINE items == e.capabilities.items
               others == [i \in DOMAIN items |-> ChangedCapability(items[i])]
    <3>1. \A i \in DOMAIN items : items[i] \in Capabilities BY <2>1 DEF Arrays
    <3>2. \A i \in DOMAIN items : others[i] \subseteq Capabilities BY <1>2, <3>1
    <3> HIDE DEF others
    <3>3. ChangedArray(e.capabilities, FixtureCapability, others) \subseteq Arrays(Capabilities)
      BY <2>1, <3>2, FixtureTyped, ArrayTyped
    <3> QED BY <3>3 DEF ChangedCapabilities, others
  <2>3. ASSUME NEW a \in Arrays(Capabilities)
        PROVE  [e EXCEPT !.capabilities = a] \in Entrypoints
    BY DEF Entrypoints
  <2> QED BY <2>2, <2>3, StructTyped DEF ChangedEntrypoint
<1>4. ChangedEntrypoints(composition.entrypoints) \subseteq Arrays(Entrypoints)
  <2> DEFINE items == composition.entrypoints.items
             others == [i \in DOMAIN items |-> ChangedEntrypoint(items[i])]
  <2>1. \A i \in DOMAIN items : items[i] \in Entrypoints BY <1>1 DEF Arrays
  <2>2. \A i \in DOMAIN items : others[i] \subseteq Entrypoints BY <1>3, <2>1
  <2> HIDE DEF others
  <2>3. ChangedArray(composition.entrypoints, FixtureEntrypoint, others)
          \subseteq Arrays(Entrypoints)
    BY <1>1, <2>2, FixtureTyped, ArrayTyped
  <2> QED BY <2>3 DEF ChangedEntrypoints, others
<1>5. /\ Changed(composition.product) \subseteq Descriptors
      /\ Changed(composition.contract_set) \subseteq ContractSets
  BY <1>1, StructTyped
<1>6. /\ [composition EXCEPT !.whole = FALSE] \in Compositions
      /\ \A x \in Descriptors : [composition EXCEPT !.product = x] \in Compositions
      /\ \A x \in ContractSets : [composition EXCEPT !.contract_set = x] \in Compositions
      /\ \A x \in Arrays(Entrypoints) :
           [composition EXCEPT !.entrypoints = x] \in Compositions
  BY DEF Compositions
<1> QED BY <1>4, <1>5, <1>6 DEF EditComposition

\* What is checked before the loops.
HeadFits(c) ==
    /\ c.whole /\ c.product.set /\ c.entrypoints.set
    /\ Len(c.entrypoints.items) # 0
    /\ c.contract_set.set
    /\ DescriptorValid(c.product) /\ ContractSetValid(c.contract_set)

\* What is checked of the capabilities of an entrypoint, up to a position.
CapabilitiesFit(e, n) ==
    \A k \in DOMAIN e.capabilities.items :
        k < n => CapabilityValid(e.capabilities.items[k])

\* What the two loops check of an entrypoint.
EntrypointFits(e) ==
    EntrypointValid(e) /\ CapabilitiesFit(e, Len(e.capabilities.items) + 1)

\* What the rules of the composition validator say of a view.
LEMMA CompositionRules ==
    ASSUME NEW v
    PROVE  /\ Accepts("name", v) <=> Holds(v) /\ Name(v.text)
           /\ Accepts("name_or_empty", v) <=>
                Holds(v) /\ (v.text # << >> => Name(v.text))
           /\ Accepts("text", v) <=> Holds(v) /\ Text(v.text)
           /\ Accepts("digest", v) <=> Holds(v) /\ Digest(v.text)
           /\ Accepts("path", v) <=> Holds(v) /\ RelativePath(v.text)
BY DEF Accepts, Obeys, EmptyAllowed, Holds

\* The texts of the structs.
LEMMA StructTexts ==
    /\ \A x \in Descriptors :
         {x[f] : f \in DOMAIN x \cap TextFields} =
           {x.product_id, x.exact_version, x.publisher_id, x.composition_revision}
    /\ \A x \in ContractSets :
         {x[f] : f \in DOMAIN x \cap TextFields} =
           {x.contract_set_id, x.version, x.sha256}
    /\ \A x \in Entrypoints :
         {x[f] : f \in DOMAIN x \cap TextFields} =
           {x.entrypoint_id, x.relative_path, x.artifact_set_id}
<1>1. ASSUME NEW x \in Descriptors
      PROVE  DOMAIN x \cap TextFields =
               {"product_id", "exact_version", "publisher_id", "composition_revision"}
  <2>1. DOMAIN x = {"whole", "set", "product_id", "exact_version", "publisher_id",
                    "composition_revision"}
    BY DEF Descriptors
  <2> QED BY <2>1 DEF TextFields
<1>2. ASSUME NEW x \in ContractSets
      PROVE  DOMAIN x \cap TextFields = {"contract_set_id", "version", "sha256"}
  <2>1. DOMAIN x = {"whole", "set", "contract_set_id", "version", "sha256"}
    BY DEF ContractSets
  <2> QED BY <2>1 DEF TextFields
<1>3. ASSUME NEW x \in Entrypoints
      PROVE  DOMAIN x \cap TextFields =
               {"entrypoint_id", "relative_path", "artifact_set_id"}
  <2>1. DOMAIN x = {"whole", "entrypoint_id", "relative_path", "artifact_set_id",
                    "capabilities"}
    BY DEF Entrypoints
  <2> QED BY <2>1 DEF TextFields
<1> QED BY <1>1, <1>2, <1>3

\* An array has items exactly if its length is not zero.
LEMMA NoItems ==
    ASSUME NEW S, NEW array \in Arrays(S)
    PROVE  /\ Len(array.items) \in Nat /\ DOMAIN array.items = 1..Len(array.items)
           /\ Len(array.items) # 0 <=> array.items # << >>
           /\ \A i \in DOMAIN array.items : array.items[i] \in S
           /\ Range(array.items) = {array.items[i] : i \in DOMAIN array.items}
<1>1. array.items \in Seq(S) BY DEF Arrays
<1> QED BY <1>1 DEF Range

\* One entrypoint fits as the loops see it exactly if it does as the schemas
\* see it.
LEMMA EntrypointDecided ==
    ASSUME NEW e \in Entrypoints
    PROVE  EntrypointFits(e) <=>
             /\ e.whole
             /\ \A v \in {e[f] : f \in DOMAIN e \cap TextFields} : Holds(v)
             /\ Name(e.entrypoint_id.text)
             /\ RelativePath(e.relative_path.text)
             /\ e.artifact_set_id.text # << >> => Name(e.artifact_set_id.text)
             /\ e.capabilities.set /\ e.capabilities.items # << >>
             /\ \A k \in Range(e.capabilities.items) :
                  k.whole /\ k.kind \in 1..8 /\ k.required \in 0..1
<1> DEFINE items == e.capabilities.items
<1>1. e.capabilities \in Arrays(Capabilities) BY DEF Entrypoints
<1>2. /\ Len(items) \in Nat /\ DOMAIN items = 1..Len(items)
      /\ Len(items) # 0 <=> items # << >>
      /\ \A i \in DOMAIN items : items[i] \in Capabilities
      /\ Range(items) = {items[i] : i \in DOMAIN items}
  BY <1>1, NoItems
<1>3. CapabilitiesFit(e, Len(items) + 1) <=>
        \A i \in DOMAIN items : CapabilityValid(items[i])
  BY <1>2 DEF CapabilitiesFit
<1>4. \A k \in Capabilities :
        CapabilityValid(k) <=> k.whole /\ k.kind \in 1..8 /\ k.required \in 0..1
  BY DEF CapabilityValid, Capabilities
<1>5. (\A i \in DOMAIN items : CapabilityValid(items[i])) <=>
        \A k \in Range(items) : k.whole /\ k.kind \in 1..8 /\ k.required \in 0..1
  BY <1>2, <1>4
<1>6. (\A v \in {e[f] : f \in DOMAIN e \cap TextFields} : Holds(v)) <=>
        Holds(e.entrypoint_id) /\ Holds(e.relative_path) /\ Holds(e.artifact_set_id)
  BY StructTexts
<1>7. EntrypointValid(e) <=>
        /\ e.whole
        /\ Holds(e.entrypoint_id) /\ Name(e.entrypoint_id.text)
        /\ Holds(e.relative_path) /\ RelativePath(e.relative_path.text)
        /\ Holds(e.artifact_set_id)
        /\ e.artifact_set_id.text # << >> => Name(e.artifact_set_id.text)
        /\ Len(items) # 0 /\ e.capabilities.set
  BY CompositionRules DEF EntrypointValid
<1> HIDE DEF items
<1>8. EntrypointFits(e) <=>
        EntrypointValid(e) /\ \A i \in DOMAIN items : CapabilityValid(items[i])
  BY <1>3 DEF EntrypointFits, items
<1> QED BY <1>2, <1>5, <1>6, <1>7, <1>8 DEF items

\* A composition is one of the schemas exactly if it passes the first checks
\* and each of its entrypoints fits.
LEMMA CompositionDecided ==
    ASSUME NEW c \in Compositions
    PROVE  SchemaForm(c) <=>
             /\ HeadFits(c)
             /\ \A i \in DOMAIN c.entrypoints.items :
                  EntrypointFits(c.entrypoints.items[i])
<1> DEFINE items == c.entrypoints.items
           entryFits(e) ==
             /\ e.whole
             /\ \A v \in {e[f] : f \in DOMAIN e \cap TextFields} : Holds(v)
             /\ Name(e.entrypoint_id.text)
             /\ RelativePath(e.relative_path.text)
             /\ e.artifact_set_id.text # << >> => Name(e.artifact_set_id.text)
             /\ e.capabilities.set /\ e.capabilities.items # << >>
             /\ \A k \in Range(e.capabilities.items) :
                  k.whole /\ k.kind \in 1..8 /\ k.required \in 0..1
           textsHold ==
             \A v \in {c.product[f] : f \in DOMAIN c.product \cap TextFields}
                      \cup {c.contract_set[f] : f \in DOMAIN c.contract_set \cap TextFields} :
                Holds(v)
<1>1. /\ c.product \in Descriptors /\ c.contract_set \in ContractSets
      /\ c.entrypoints \in Arrays(Entrypoints)
  BY DEF Compositions
<1>2. /\ Len(items) # 0 <=> items # << >>
      /\ \A i \in DOMAIN items : items[i] \in Entrypoints
      /\ Range(items) = {items[i] : i \in DOMAIN items}
  BY <1>1, NoItems
<1>3. textsHold <=>
        /\ Holds(c.product.product_id) /\ Holds(c.product.exact_version)
        /\ Holds(c.product.publisher_id) /\ Holds(c.product.composition_revision)
        /\ Holds(c.contract_set.contract_set_id) /\ Holds(c.contract_set.version)
        /\ Holds(c.contract_set.sha256)
  BY <1>1, StructTexts
<1>4. HeadFits(c) <=>
        /\ c.whole /\ c.product.set /\ c.contract_set.set /\ c.entrypoints.set
        /\ c.product.whole /\ c.contract_set.whole
        /\ Holds(c.product.product_id) /\ Holds(c.product.exact_version)
        /\ Holds(c.product.publisher_id) /\ Holds(c.product.composition_revision)
        /\ Holds(c.contract_set.contract_set_id) /\ Holds(c.contract_set.version)
        /\ Holds(c.contract_set.sha256)
        /\ Name(c.product.product_id.text) /\ Name(c.product.publisher_id.text)
        /\ Text(c.product.exact_version.text)
        /\ Text(c.product.composition_revision.text)
        /\ Name(c.contract_set.contract_set_id.text)
        /\ Text(c.contract_set.version.text)
        /\ Digest(c.contract_set.sha256.text)
        /\ Len(items) # 0
  BY CompositionRules DEF HeadFits, DescriptorValid, ContractSetValid
<1>5. (\A i \in DOMAIN items : EntrypointFits(items[i])) <=>
        \A e \in Range(items) : entryFits(e)
  <2>1. \A e \in Entrypoints : EntrypointFits(e) <=> entryFits(e)
    BY EntrypointDecided
  <2> HIDE DEF entryFits, items
  <2> QED BY <1>2, <2>1
<1>6. SchemaForm(c) <=>
        /\ c.whole /\ c.product.set /\ c.contract_set.set /\ c.entrypoints.set
        /\ c.product.whole /\ c.contract_set.whole
        /\ textsHold
        /\ Name(c.product.product_id.text) /\ Name(c.product.publisher_id.text)
        /\ Text(c.product.exact_version.text)
        /\ Text(c.product.composition_revision.text)
        /\ Name(c.contract_set.contract_set_id.text)
        /\ Text(c.contract_set.version.text)
        /\ Digest(c.contract_set.sha256.text)
        /\ items # << >>
        /\ \A e \in Range(items) : entryFits(e)
  BY Zenon DEF SchemaForm, Holds
<1> HIDE DEF entryFits, textsHold, items
<1>7. (Len(items) # 0) <=> (items # << >>) BY <1>2
<1> QED BY <1>3, <1>4, <1>5, <1>6, <1>7 DEF items

(***************************************************************************)
(* The invariant of the two loops: the entrypoints before the outer        *)
(* position fit, and of the entrypoint at it, once its own checks have     *)
(* passed, the capabilities before the inner position.                     *)
(***************************************************************************)
LoopInv ==
    LET items == composition.entrypoints.items IN
    /\ HeadFits(composition)
    /\ entrypoint \in 1..Len(items) + 1
    /\ \A i \in DOMAIN items : i < entrypoint => EntrypointFits(items[i])
    /\ capability \in Nat
    /\ capability # 0 =>
         /\ entrypoint \in DOMAIN items
         /\ EntrypointValid(items[entrypoint])
         /\ CapabilitiesFit(items[entrypoint], capability)

FormDecided ==
    status \in {"ok", "invalid_argument"} => (status = "ok" <=> SchemaForm(composition))

CompositionInv ==
    /\ composition \in Compositions
    /\ status = "running" => LoopInv
    /\ FormDecided

\* The answer of a step that ends the walk.
LEMMA AnswerDecides ==
    ASSUME composition \in Compositions, NEW s, Answer(s), s \in {"ok", "invalid_argument"},
           (s = "ok") <=> SchemaForm(composition)
    PROVE  CompositionInv'
<1>1. composition' = composition /\ status' = s BY DEF Answer
<1>2. s # "running" OBVIOUS
<1> QED BY <1>1, <1>2 DEF CompositionInv, FormDecided

\* An edit, and the first checks.
LEMMA EditInv == CompositionInv /\ EditComposition => CompositionInv'
<1> SUFFICES ASSUME CompositionInv, EditComposition PROVE CompositionInv' OBVIOUS
<1>1. composition' \in Compositions BY EditTyped DEF CompositionInv
<1>2. status' = "unasked" BY DEF EditComposition
<1> QED BY <1>1, <1>2 DEF CompositionInv, FormDecided

LEMMA StartInv == CompositionInv /\ Start => CompositionInv'
<1> SUFFICES ASSUME CompositionInv, Start PROVE CompositionInv' OBVIOUS
<1> DEFINE items == composition.entrypoints.items
<1>1. composition \in Compositions BY DEF CompositionInv
<1>2. Len(items) \in Nat /\ DOMAIN items = 1..Len(items)
  <2>1. composition.entrypoints \in Arrays(Entrypoints) BY <1>1 DEF Compositions
  <2> QED BY <2>1, NoItems
<1>3. CASE HeadFits(composition)
  <2>1. /\ status' = "running" /\ entrypoint' = 1 /\ capability' = 0
        /\ composition' = composition
    BY <1>3 DEF Start, HeadFits
  <2>2. LoopInv' BY <1>2, <1>3, <2>1 DEF LoopInv, HeadFits
  <2> QED BY <1>1, <2>1, <2>2 DEF CompositionInv, FormDecided
<1>4. CASE ~HeadFits(composition)
  <2>1. Answer("invalid_argument") BY <1>4 DEF Start, HeadFits
  <2>2. ~SchemaForm(composition) BY <1>1, <1>4, CompositionDecided
  <2>3. "invalid_argument" # "ok" OBVIOUS
  <2> QED BY <1>1, <2>1, <2>2, <2>3, AnswerDecides
<1> QED BY <1>3, <1>4

\* The outer loop.
LEMMA CheckEntrypointInv == CompositionInv /\ CheckEntrypoint => CompositionInv'
<1> SUFFICES ASSUME CompositionInv, CheckEntrypoint PROVE CompositionInv' OBVIOUS
<1> DEFINE items == composition.entrypoints.items
<1>1. composition \in Compositions /\ LoopInv /\ capability = 0 /\ status = "running"
  BY DEF CompositionInv, CheckEntrypoint
<1>2. Len(items) \in Nat /\ DOMAIN items = 1..Len(items)
  <2>1. composition.entrypoints \in Arrays(Entrypoints) BY <1>1 DEF Compositions
  <2> QED BY <2>1, NoItems
<1>3. /\ entrypoint \in 1..Len(items) + 1 /\ HeadFits(composition)
      /\ \A i \in DOMAIN items : i < entrypoint => EntrypointFits(items[i])
  BY <1>1 DEF LoopInv
<1>4. CASE entrypoint > Len(items)
  <2>1. \A i \in DOMAIN items : EntrypointFits(items[i]) BY <1>2, <1>3, <1>4
  <2>2. SchemaForm(composition) BY <1>1, <1>3, <2>1, CompositionDecided
  <2>3. Answer("ok") BY <1>4 DEF CheckEntrypoint
  <2> QED BY <1>1, <2>2, <2>3, AnswerDecides
<1>5. CASE ~(entrypoint > Len(items))
  <2>0. entrypoint \in DOMAIN items BY <1>2, <1>3, <1>5
  <2>1. CASE EntrypointValid(items[entrypoint])
    <3>1. /\ capability' = 1
          /\ UNCHANGED <<composition, entrypoint, status>>
      BY <1>5, <2>1 DEF CheckEntrypoint
    <3>2. CapabilitiesFit(items[entrypoint], 1)
      <4>1. items[entrypoint].capabilities \in Arrays(Capabilities)
        <5>1. composition.entrypoints \in Arrays(Entrypoints) BY <1>1 DEF Compositions
        <5>2. items[entrypoint] \in Entrypoints BY <2>0, <5>1, NoItems
        <5> QED BY <5>2 DEF Entrypoints
      <4>2. \A k \in DOMAIN items[entrypoint].capabilities.items : ~(k < 1)
        BY <4>1, NoItems
      <4> QED BY <4>2 DEF CapabilitiesFit
    <3>3. LoopInv' BY <1>3, <2>0, <2>1, <3>1, <3>2 DEF LoopInv
    <3>4. status' = "running" BY <1>1, <3>1
    <3> QED BY <1>1, <3>1, <3>3, <3>4 DEF CompositionInv, FormDecided
  <2>2. CASE ~EntrypointValid(items[entrypoint])
    <3>1. Answer("invalid_argument") BY <1>5, <2>2 DEF CheckEntrypoint
    <3>2. ~SchemaForm(composition)
      BY <1>1, <2>0, <2>2, CompositionDecided DEF EntrypointFits
    <3>3. "invalid_argument" # "ok" OBVIOUS
    <3> QED BY <1>1, <3>1, <3>2, <3>3, AnswerDecides
  <2> QED BY <2>1, <2>2
<1> QED BY <1>4, <1>5

\* The inner loop.
LEMMA CheckCapabilityInv == CompositionInv /\ CheckCapability => CompositionInv'
<1> SUFFICES ASSUME CompositionInv, CheckCapability PROVE CompositionInv' OBVIOUS
<1> DEFINE items == composition.entrypoints.items
           e == items[entrypoint]
           caps == e.capabilities.items
<1>1. composition \in Compositions /\ LoopInv /\ capability # 0 /\ status = "running"
  BY DEF CompositionInv, CheckCapability
<1>2. /\ entrypoint \in 1..Len(items) + 1 /\ HeadFits(composition)
      /\ \A i \in DOMAIN items : i < entrypoint => EntrypointFits(items[i])
      /\ capability \in Nat /\ entrypoint \in DOMAIN items
      /\ EntrypointValid(e) /\ CapabilitiesFit(e, capability)
  BY <1>1 DEF LoopInv
<1>3. /\ Len(items) \in Nat /\ DOMAIN items = 1..Len(items)
      /\ Len(caps) \in Nat /\ DOMAIN caps = 1..Len(caps)
  <2>1. composition.entrypoints \in Arrays(Entrypoints) BY <1>1 DEF Compositions
  <2>2. e \in Entrypoints BY <1>2, <2>1, NoItems
  <2>3. e.capabilities \in Arrays(Capabilities) BY <2>2 DEF Entrypoints
  <2> QED BY <2>1, <2>3, NoItems
<1>4. CASE capability > Len(caps)
  <2>1. /\ entrypoint' = entrypoint + 1 /\ capability' = 0
        /\ UNCHANGED <<composition, status>>
    BY <1>4 DEF CheckCapability
  <2>2. CapabilitiesFit(e, Len(caps) + 1)
    BY <1>2, <1>3, <1>4 DEF CapabilitiesFit
  <2>3. EntrypointFits(e) BY <1>2, <2>2 DEF EntrypointFits
  <2>4. \A i \in DOMAIN items : i < entrypoint + 1 => EntrypointFits(items[i])
    BY <1>2, <1>3, <2>3
  <2>5. entrypoint + 1 \in 1..Len(items) + 1 BY <1>2, <1>3
  <2> HIDE DEF items
  <2>6. LoopInv' BY <1>2, <2>1, <2>4, <2>5 DEF LoopInv, items
  <2> QED BY <1>1, <2>1, <2>6 DEF CompositionInv, FormDecided
<1>5. CASE ~(capability > Len(caps))
  <2>0. capability \in DOMAIN caps BY <1>1, <1>2, <1>3, <1>5
  <2>1. CASE CapabilityValid(caps[capability])
    <3>1. /\ capability' = capability + 1
          /\ UNCHANGED <<composition, entrypoint, status>>
      BY <1>5, <2>1 DEF CheckCapability
    <3>2. CapabilitiesFit(e, capability + 1)
      BY <1>2, <1>3, <2>0, <2>1 DEF CapabilitiesFit
    <3> HIDE DEF items
    <3>3. capability + 1 \in Nat BY <1>2
    <3>4. LoopInv' BY <1>2, <3>1, <3>2, <3>3 DEF LoopInv, items
    <3> QED BY <1>1, <3>1, <3>4 DEF CompositionInv, FormDecided
  <2>2. CASE ~CapabilityValid(caps[capability])
    <3>1. Answer("invalid_argument") BY <1>5, <2>2 DEF CheckCapability
    <3>2. ~CapabilitiesFit(e, Len(caps) + 1)
      BY <1>3, <2>0, <2>2 DEF CapabilitiesFit
    <3>3. ~SchemaForm(composition)
      BY <1>1, <1>2, <3>2, CompositionDecided DEF EntrypointFits
    <3>4. "invalid_argument" # "ok" OBVIOUS
    <3> QED BY <1>1, <3>1, <3>3, <3>4, AnswerDecides
  <2> QED BY <2>1, <2>2
<1> QED BY <1>4, <1>5

\* ulk_product_composition_validate_v1 accepts the compositions of the schemas
\* and those that are only too long for them, whatever they contain and
\* however many entrypoints and capabilities they have.
THEOREM CompositionsFitOrTooLong == CompositionSpec => []ValidIffFitsOrTooLong
<1>1. CompositionInit => CompositionInv
  <2> SUFFICES ASSUME CompositionInit PROVE CompositionInv OBVIOUS
  <2>1. composition \in Compositions BY FixtureTyped DEF CompositionInit
  <2>2. status = "unasked" BY DEF CompositionInit
  <2> QED BY <2>1, <2>2 DEF CompositionInv, FormDecided
<1>2. CompositionInv /\ [CompositionNext]_compositionVars => CompositionInv'
  <2>1. CompositionInv /\ UNCHANGED compositionVars => CompositionInv'
    BY DEF CompositionInv, compositionVars, LoopInv, FormDecided
  <2> QED BY <2>1, EditInv, StartInv, CheckEntrypointInv, CheckCapabilityInv
      DEF CompositionNext
<1>3. CompositionInv => ValidIffFitsOrTooLong
  BY DEF CompositionInv, FormDecided, ValidIffFitsOrTooLong, FitsSchemas, OnlyTooLong
<1> QED BY <1>1, <1>2, <1>3, PTL DEF CompositionSpec
-----------------------------------------------------------------------------
(* Reference graphs *)

Roles == {"product", "install", "instance", "profile", "artifacts", "plan"}

\* What a reference of a role may be.
References(role) == [FieldsOf[role] -> Values]

\* A graph has all references, but perhaps no profile and no artifact set.
GraphShaped(g) ==
    /\ g \in [Roles -> (UNION {References(role) : role \in Roles}) \cup {Absent}]
    /\ \A role \in Roles :
         \/ g[role] \in References(role)
         \/ role \in {"profile", "artifacts"} /\ g[role] = Absent
    /\ g.install.owner = "managed" /\ g.install.life = "active"

\* The fields of each role.
LEMMA FieldFacts ==
    /\ DOMAIN FieldsOf = Roles
    /\ FieldsOf["product"] = ProductFields /\ FieldsOf["install"] = InstallFields
    /\ FieldsOf["instance"] = InstanceFields /\ FieldsOf["profile"] = ProfileFields
    /\ FieldsOf["artifacts"] = ArtifactSetFields /\ FieldsOf["plan"] = LaunchPlanFields
BY DEF FieldsOf, Roles

\* A reference is not absent, and has the fields of its role.
LEMMA PresentFacts ==
    ASSUME NEW g, GraphShaped(g), NEW role \in Roles
    PROVE  /\ role \notin {"profile", "artifacts"} => g[role] # Absent
           /\ g[role] # Absent => /\ g[role] \in References(role)
                                  /\ DOMAIN g[role] = FieldsOf[role]
<1>1. \A x \in References(role) : x # Absent /\ DOMAIN x = FieldsOf[role]
  BY AbsentAssumption, FieldFacts DEF References
<1> QED BY <1>1 DEF GraphShaped

\* The steps of the caller keep the shape.
LEMMA ShapeInit ==
    ASSUME NEW p \in {Mine, Empty}, NEW a \in {Mine, Empty}
    PROVE  GraphShaped(CoherentGraph(p, a))
<1> DEFINE g == CoherentGraph(p, a)
<1>1. g.product \in References("product")
  BY FieldFacts DEF CoherentGraph, References, Values, ProductFields
<1>2. g.install \in References("install")
  BY FieldFacts DEF CoherentGraph, References, Values, InstallFields
<1>3. g.instance \in References("instance")
  BY FieldFacts DEF CoherentGraph, References, Values, InstanceFields
<1>4. g.profile \in References("profile") \/ g.profile = Absent
  BY FieldFacts DEF CoherentGraph, References, Values, ProfileFields
<1>5. g.artifacts \in References("artifacts") \/ g.artifacts = Absent
  BY FieldFacts DEF CoherentGraph, References, Values, ArtifactSetFields
<1>6. g.plan \in References("plan")
  BY FieldFacts DEF CoherentGraph, References, Values, LaunchPlanFields
<1>7. g.install.owner = "managed" /\ g.install.life = "active" BY DEF CoherentGraph
<1>8. g = [role \in Roles |-> g[role]] BY DEF CoherentGraph, Roles
<1> HIDE DEF g
<1>9. \A role \in Roles :
        \/ g[role] \in References(role)
        \/ role \in {"profile", "artifacts"} /\ g[role] = Absent
  BY <1>1, <1>2, <1>3, <1>4, <1>5, <1>6 DEF Roles
<1>10. g \in [Roles -> (UNION {References(role) : role \in Roles}) \cup {Absent}]
  BY <1>8, <1>9
<1> QED BY <1>7, <1>9, <1>10 DEF GraphShaped, g

LEMMA ShapeEdited ==
    ASSUME GraphShaped(graph), NEW role \in Roles, NEW field \in FieldsOf[role],
           NEW value \in {Other, Bad, Empty}, EditReference(role, field, value)
    PROVE  GraphShaped(graph')
<1>1. /\ graph[role] # Absent /\ field \notin {"owner", "life"}
      /\ graph' = [graph EXCEPT ![role][field] = value]
  BY DEF EditReference
<1>2. graph[role] \in References(role) BY <1>1, PresentFacts
<1>3. value \in Values BY DEF Values
<1>4. [graph[role] EXCEPT ![field] = value] \in References(role)
  BY <1>2, <1>3 DEF References
<1>5. /\ graph'[role] = [graph[role] EXCEPT ![field] = value]
      /\ \A x \in Roles \ {role} : graph'[x] = graph[x]
  BY <1>1 DEF GraphShaped
<1>6. graph' \in [Roles -> (UNION {References(x) : x \in Roles}) \cup {Absent}]
  BY <1>1, <1>4 DEF GraphShaped
<1>7. graph'.install.owner = "managed" /\ graph'.install.life = "active"
  <2>1. "install" \in Roles BY DEF Roles
  <2>2. CASE role = "install"
    <3>1. "owner" \in FieldsOf["install"] /\ "life" \in FieldsOf["install"]
      BY FieldFacts DEF InstallFields
    <3> QED BY <1>1, <1>2, <1>5, <2>2, <3>1 DEF GraphShaped, References
  <2> QED BY <1>5, <2>1, <2>2 DEF GraphShaped
<1> QED BY <1>4, <1>5, <1>6, <1>7 DEF GraphShaped

LEMMA ShapeOmitted ==
    ASSUME GraphShaped(graph), NEW role \in Roles, OmitReference(role)
    PROVE  GraphShaped(graph')
<1>1. role \in {"profile", "artifacts"} /\ graph' = [graph EXCEPT ![role] = Absent]
  BY DEF OmitReference
<1>2. graph'[role] = Absent /\ \A x \in Roles \ {role} : graph'[x] = graph[x]
  BY <1>1 DEF GraphShaped
<1>3. graph' \in [Roles -> (UNION {References(x) : x \in Roles}) \cup {Absent}]
  BY <1>1 DEF GraphShaped
<1>4. "install" \in Roles \ {role} BY <1>1 DEF Roles
<1> QED BY <1>1, <1>2, <1>3, <1>4 DEF GraphShaped

\* What WellFormed asks of one text, and of one reference.
FieldWell(role, field, x) ==
    /\ x # Bad
    /\ x = Empty => role \in {"instance", "plan"} /\ field \in {"profile", "artifacts"}
    /\ field \in {"product", "install", "instance", "profile", "artifacts", "plan"}
         \/ (role = "product" /\ field = "binding")
         => x \in Identifiers \cup {Empty}

RoleWell(g, role) ==
    \A field \in FieldsOf[role] \ {"owner", "life"} : FieldWell(role, field, g[role][field])

\* The three kinds of text: one that must be an identifier, one that may also
\* be empty, and one that may be anything else.
LEMMA FieldKinds ==
    ASSUME NEW role, NEW field, NEW x
    PROVE  /\ /\ field \in Roles \/ (role = "product" /\ field = "binding")
              /\ ~(role \in {"instance", "plan"} /\ field \in {"profile", "artifacts"})
              => (FieldWell(role, field, x) <=> IdentifierValid(x))
           /\ role \in {"instance", "plan"} /\ field \in {"profile", "artifacts"}
              => (FieldWell(role, field, x) <=> OptionalValid(x))
           /\ field \notin Roles /\ ~(role = "product" /\ field = "binding")
              => (FieldWell(role, field, x) <=> ViewValid(x))
BY TextAssumption DEF FieldWell, IdentifierValid, OptionalValid, ViewValid, Roles

\* Each reference is well formed exactly if its validator accepts it.
LEMMA RolesWell ==
    ASSUME NEW g, GraphShaped(g)
    PROVE  /\ RoleWell(g, "product") <=> ProductValid(g.product)
           /\ RoleWell(g, "install") <=> InstallReferenceValid(g.install)
           /\ RoleWell(g, "instance") <=> InstanceValid(g.instance)
           /\ RoleWell(g, "profile") <=> ProfileValid(g.profile)
           /\ RoleWell(g, "artifacts") <=> ArtifactSetValid(g.artifacts)
           /\ RoleWell(g, "plan") <=> LaunchPlanValid(g.plan)
<1>1. RoleWell(g, "product") <=> ProductValid(g.product)
  <2>1. /\ FieldWell("product", "product", g.product.product)
             <=> IdentifierValid(g.product.product)
        /\ FieldWell("product", "binding", g.product.binding)
             <=> IdentifierValid(g.product.binding)
    BY FieldKinds DEF Roles
  <2> QED BY <2>1, FieldFacts DEF RoleWell, ProductFields, ProductValid
<1>2. RoleWell(g, "install") <=> InstallReferenceValid(g.install)
  <2> DEFINE f == g.install
  <2>1. /\ FieldWell("install", "install", f.install) <=> IdentifierValid(f.install)
        /\ FieldWell("install", "product", f.product) <=> IdentifierValid(f.product)
        /\ FieldWell("install", "version", f.version) <=> ViewValid(f.version)
        /\ FieldWell("install", "place", f.place) <=> ViewValid(f.place)
        /\ FieldWell("install", "verification", f.verification) <=> ViewValid(f.verification)
        /\ FieldWell("install", "revision", f.revision) <=> ViewValid(f.revision)
    BY FieldKinds DEF Roles
  <2>2. f.owner = "managed" /\ f.life = "active" BY DEF GraphShaped
  <2> QED BY <2>1, <2>2, FieldFacts DEF RoleWell, InstallFields, InstallReferenceValid
<1>3. RoleWell(g, "instance") <=> InstanceValid(g.instance)
  <2> DEFINE f == g.instance
  <2>1. /\ FieldWell("instance", "instance", f.instance) <=> IdentifierValid(f.instance)
        /\ FieldWell("instance", "product", f.product) <=> IdentifierValid(f.product)
        /\ FieldWell("instance", "install", f.install) <=> IdentifierValid(f.install)
        /\ FieldWell("instance", "profile", f.profile) <=> OptionalValid(f.profile)
        /\ FieldWell("instance", "artifacts", f.artifacts) <=> OptionalValid(f.artifacts)
        /\ FieldWell("instance", "binding", f.binding) <=> ViewValid(f.binding)
    BY FieldKinds DEF Roles
  <2> QED BY <2>1, FieldFacts DEF RoleWell, InstanceFields, InstanceValid
<1>4. RoleWell(g, "profile") <=> ProfileValid(g.profile)
  <2> DEFINE f == g.profile
  <2>1. /\ FieldWell("profile", "profile", f.profile) <=> IdentifierValid(f.profile)
        /\ FieldWell("profile", "product", f.product) <=> IdentifierValid(f.product)
        /\ FieldWell("profile", "revision", f.revision) <=> ViewValid(f.revision)
    BY FieldKinds DEF Roles
  <2> QED BY <2>1, FieldFacts DEF RoleWell, ProfileFields, ProfileValid
<1>5. RoleWell(g, "artifacts") <=> ArtifactSetValid(g.artifacts)
  <2> DEFINE f == g.artifacts
  <2>1. /\ FieldWell("artifacts", "artifacts", f.artifacts) <=> IdentifierValid(f.artifacts)
        /\ FieldWell("artifacts", "product", f.product) <=> IdentifierValid(f.product)
        /\ FieldWell("artifacts", "lock", f.lock) <=> ViewValid(f.lock)
    BY FieldKinds DEF Roles
  <2> QED BY <2>1, FieldFacts DEF RoleWell, ArtifactSetFields, ArtifactSetValid
<1>6. RoleWell(g, "plan") <=> LaunchPlanValid(g.plan)
  <2> DEFINE f == g.plan
  <2>1. /\ FieldWell("plan", "plan", f.plan) <=> IdentifierValid(f.plan)
        /\ FieldWell("plan", "product", f.product) <=> IdentifierValid(f.product)
        /\ FieldWell("plan", "instance", f.instance) <=> IdentifierValid(f.instance)
        /\ FieldWell("plan", "install", f.install) <=> IdentifierValid(f.install)
        /\ FieldWell("plan", "profile", f.profile) <=> OptionalValid(f.profile)
        /\ FieldWell("plan", "artifacts", f.artifacts) <=> OptionalValid(f.artifacts)
        /\ FieldWell("plan", "revision", f.revision) <=> ViewValid(f.revision)
        /\ FieldWell("plan", "binding", f.binding) <=> ViewValid(f.binding)
        /\ FieldWell("plan", "composition", f.composition) <=> ViewValid(f.composition)
    BY FieldKinds DEF Roles
  <2> QED BY <2>1, FieldFacts DEF RoleWell, LaunchPlanFields, LaunchPlanValid
<1> QED BY <1>1, <1>2, <1>3, <1>4, <1>5, <1>6

\* A graph is well formed exactly if the validators accept its references.
LEMMA WellDecided ==
    ASSUME NEW g, GraphShaped(g)
    PROVE  WellFormed(g) <=>
             /\ ProductValid(g.product) /\ InstallReferenceValid(g.install)
             /\ InstanceValid(g.instance)
             /\ g.profile # Absent => ProfileValid(g.profile)
             /\ g.artifacts # Absent => ArtifactSetValid(g.artifacts)
             /\ LaunchPlanValid(g.plan)
<1>1. DOMAIN g = Roles BY DEF GraphShaped
<1>2. \A role \in Roles : g[role] # Absent => DOMAIN g[role] = FieldsOf[role]
  BY PresentFacts
<1>3. WellFormed(g) <=> \A role \in Roles : g[role] # Absent => RoleWell(g, role)
  BY <1>1, <1>2, Zenon DEF WellFormed, RoleWell, FieldWell
<1>4. g.product # Absent /\ g.install # Absent /\ g.instance # Absent /\ g.plan # Absent
  BY PresentFacts DEF Roles
<1> QED BY <1>3, <1>4, RolesWell DEF Roles

\* The texts that references give for one identity are at most seven.
LEMMA NamedFinite ==
    ASSUME NEW g, GraphShaped(g), NEW id \in Roles
    PROVE  /\ IsFiniteSet(Named(g, id))
           /\ \A y : y \in Named(g, id) <=>
                \/ \E role \in Roles :
                     g[role] # Absent /\ id \in FieldsOf[role] /\ y = g[role][id]
                \/ g[id] = Absent /\ y = Empty
<1>1. DOMAIN g = Roles BY DEF GraphShaped
<1>2. \A role \in Roles : g[role] # Absent => DOMAIN g[role] = FieldsOf[role]
  BY PresentFacts
<1>3. \A y : y \in Named(g, id) <=>
        \/ \E role \in Roles :
             g[role] # Absent /\ id \in FieldsOf[role] /\ y = g[role][id]
        \/ g[id] = Absent /\ y = Empty
  BY <1>1, <1>2 DEF Named
<1> DEFINE A == {} \cup {g["product"][id]}
           B == A \cup {g["install"][id]}
           C == B \cup {g["instance"][id]}
           D == C \cup {g["profile"][id]}
           E == D \cup {g["artifacts"][id]}
           F == E \cup {g["plan"][id]}
           G == F \cup {Empty}
<1>4. IsFiniteSet(G)
  <2>1. IsFiniteSet(A) BY FS_EmptySet, FS_AddElement
  <2>2. IsFiniteSet(B) BY <2>1, FS_AddElement
  <2>3. IsFiniteSet(C) BY <2>2, FS_AddElement
  <2>4. IsFiniteSet(D) BY <2>3, FS_AddElement
  <2>5. IsFiniteSet(E) BY <2>4, FS_AddElement
  <2>6. IsFiniteSet(F) BY <2>5, FS_AddElement
  <2> QED BY <2>6, FS_AddElement
<1>5. Named(g, id) \subseteq G BY <1>3 DEF Roles
<1>6. IsFiniteSet(Named(g, id)) BY <1>4, <1>5, FS_Subset
<1> QED BY <1>3, <1>6

\* One text is given for an identity exactly if all are the same.
LEMMA OneText ==
    ASSUME NEW g, GraphShaped(g), NEW id \in Roles, NEW x \in Named(g, id)
    PROVE  Cardinality(Named(g, id)) = 1 <=> \A y \in Named(g, id) : y = x
<1>1. IsFiniteSet(Named(g, id)) BY NamedFinite
<1>2. Cardinality(Named(g, id)) = 1 <=> \E z : Named(g, id) = {z} BY <1>1, FS_Singleton
<1>3. (\E z : Named(g, id) = {z}) <=> \A y \in Named(g, id) : y = x OBVIOUS
<1> QED BY <1>2, <1>3

\* The five agreement checks say that one text is given for each identity.
LEMMA AgreeDecided ==
    ASSUME NEW g, GraphShaped(g)
    PROVE  /\ Cardinality(Named(g, "product")) = 1 <=> ProductsAgree(g)
           /\ Cardinality(Named(g, "install")) = 1 <=> InstallsAgree(g)
           /\ Cardinality(Named(g, "instance")) = 1 <=> InstancesAgree(g)
           /\ Cardinality(Named(g, "profile")) = 1 <=> ProfilesAgree(g)
           /\ Cardinality(Named(g, "artifacts")) = 1 <=> ArtifactSetsAgree(g)
<1>0. g.product # Absent /\ g.install # Absent /\ g.instance # Absent /\ g.plan # Absent
  BY PresentFacts DEF Roles
<1> USE FieldFacts DEF ProductFields, InstallFields, InstanceFields, ProfileFields,
        ArtifactSetFields, LaunchPlanFields, Roles
<1>1. Cardinality(Named(g, "product")) = 1 <=> ProductsAgree(g)
  <2>1. \A y : y \in Named(g, "product") <=>
          \/ y = g.product.product \/ y = g.install.product \/ y = g.instance.product
          \/ y = g.plan.product
          \/ g.profile # Absent /\ y = g.profile.product
          \/ g.artifacts # Absent /\ y = g.artifacts.product
    BY <1>0, NamedFinite
  <2>2. Cardinality(Named(g, "product")) = 1
          <=> \A y \in Named(g, "product") : y = g.product.product
    BY <2>1, OneText
  <2> QED BY <2>1, <2>2 DEF ProductsAgree
<1>2. Cardinality(Named(g, "install")) = 1 <=> InstallsAgree(g)
  <2>1. \A y : y \in Named(g, "install") <=>
          y = g.install.install \/ y = g.instance.install \/ y = g.plan.install
    BY <1>0, NamedFinite
  <2>2. Cardinality(Named(g, "install")) = 1
          <=> \A y \in Named(g, "install") : y = g.install.install
    BY <2>1, OneText
  <2> QED BY <2>1, <2>2 DEF InstallsAgree
<1>3. Cardinality(Named(g, "instance")) = 1 <=> InstancesAgree(g)
  <2>1. \A y : y \in Named(g, "instance") <=>
          y = g.instance.instance \/ y = g.plan.instance
    BY <1>0, NamedFinite
  <2>2. Cardinality(Named(g, "instance")) = 1
          <=> \A y \in Named(g, "instance") : y = g.instance.instance
    BY <2>1, OneText
  <2> QED BY <2>1, <2>2 DEF InstancesAgree
<1>4. Cardinality(Named(g, "profile")) = 1 <=> ProfilesAgree(g)
  <2>1. \A y : y \in Named(g, "profile") <=>
          \/ y = g.instance.profile \/ y = g.plan.profile
          \/ g.profile # Absent /\ y = g.profile.profile
          \/ g.profile = Absent /\ y = Empty
    BY <1>0, NamedFinite
  <2>2. Cardinality(Named(g, "profile")) = 1
          <=> \A y \in Named(g, "profile") : y = g.instance.profile
    BY <2>1, OneText
  <2> QED BY <2>1, <2>2 DEF ProfilesAgree
<1>5. Cardinality(Named(g, "artifacts")) = 1 <=> ArtifactSetsAgree(g)
  <2>1. \A y : y \in Named(g, "artifacts") <=>
          \/ y = g.instance.artifacts \/ y = g.plan.artifacts
          \/ g.artifacts # Absent /\ y = g.artifacts.artifacts
          \/ g.artifacts = Absent /\ y = Empty
    BY <1>0, NamedFinite
  <2>2. Cardinality(Named(g, "artifacts")) = 1
          <=> \A y \in Named(g, "artifacts") : y = g.instance.artifacts
    BY <2>1, OneText
  <2> QED BY <2>1, <2>2 DEF ArtifactSetsAgree
<1> QED BY <1>1, <1>2, <1>3, <1>4, <1>5

\* The list of checks has no failed one exactly if each of them passes.
AllPass(g) ==
    /\ ProductValid(g.product) /\ InstallReferenceValid(g.install)
    /\ InstanceValid(g.instance)
    /\ g.profile # Absent => ProfileValid(g.profile)
    /\ g.artifacts # Absent => ArtifactSetValid(g.artifacts)
    /\ LaunchPlanValid(g.plan)
    /\ ProductsAgree(g) /\ InstallsAgree(g) /\ InstancesAgree(g)
    /\ ProfilesAgree(g) /\ ArtifactSetsAgree(g)

LEMMA ChecksPass ==
    ASSUME NEW g
    PROVE  {k \in DOMAIN Checks(g) : ~Checks(g)[k][2]} = {} <=> AllPass(g)
<1>1. DOMAIN Checks(g) = 1..11 BY DEF Checks
<1>2. /\ Checks(g)[1][2] <=> ProductValid(g.product)
      /\ Checks(g)[2][2] <=> InstallReferenceValid(g.install)
      /\ Checks(g)[3][2] <=> InstanceValid(g.instance)
      /\ Checks(g)[4][2] <=> (g.profile # Absent => ProfileValid(g.profile))
      /\ Checks(g)[5][2] <=> (g.artifacts # Absent => ArtifactSetValid(g.artifacts))
      /\ Checks(g)[6][2] <=> LaunchPlanValid(g.plan)
      /\ Checks(g)[7][2] <=> ProductsAgree(g)
      /\ Checks(g)[8][2] <=> InstallsAgree(g)
      /\ Checks(g)[9][2] <=> InstancesAgree(g)
      /\ Checks(g)[10][2] <=> ProfilesAgree(g)
      /\ Checks(g)[11][2] <=> ArtifactSetsAgree(g)
  BY DEF Checks
<1>3. \A k \in 1..11 : k = 1 \/ k = 2 \/ k = 3 \/ k = 4 \/ k = 5 \/ k = 6 \/ k = 7
                       \/ k = 8 \/ k = 9 \/ k = 10 \/ k = 11
  OBVIOUS
<1>4. {1, 2, 3, 4, 5, 6, 7, 8, 9, 10, 11} \subseteq 1..11 OBVIOUS
<1> QED BY <1>1, <1>2, <1>3, <1>4 DEF AllPass

\* What the validator says of a graph.
LEMMA VerdictTells ==
    ASSUME NEW g
    PROVE  /\ GraphValidate(g).valid <=> AllPass(g)
           /\ GraphValidate(g).plans = "fresh" <=> AllPass(g) /\ ~Stale(g)
<1>1. CASE AllPass(g)
  <2>1. GraphValidate(g) = [valid |-> TRUE, issue |-> "none",
                            plans |-> IF Stale(g) THEN "stale" ELSE "fresh"]
    BY <1>1, ChecksPass DEF GraphValidate
  <2> QED BY <1>1, <2>1
<1>2. CASE ~AllPass(g)
  <2> DEFINE failed == {k \in DOMAIN Checks(g) : ~Checks(g)[k][2]}
  <2>1. GraphValidate(g) = [valid |-> FALSE, issue |-> Checks(g)[Min(failed)][1],
                            plans |-> "stale"]
    BY <1>2, ChecksPass DEF GraphValidate
  <2> HIDE DEF failed
  <2> QED BY <1>2, <2>1
<1> QED BY <1>1, <1>2

GraphInv ==
    /\ GraphShaped(graph)
    /\ validation = NoVerdict \/ validation = GraphValidate(graph)

\* ulk_reference_graph_validate_v1 accepts exactly the well formed graphs that
\* give one text for each identity, and calls a launch plan fresh exactly if,
\* besides, both revisions are those it was built for.
THEOREM GraphsCoherent == GraphSpec => []ValidIffCoherent
<1>1. GraphInit => GraphInv BY ShapeInit DEF GraphInit, GraphInv
<1>2. GraphInv /\ [GraphNext]_graphVars => GraphInv'
  <2> SUFFICES ASSUME GraphInv, [GraphNext]_graphVars PROVE GraphInv' OBVIOUS
  <2>0. DOMAIN graph = Roles BY DEF GraphInv, GraphShaped
  <2>1. ASSUME NEW role \in Roles, NEW field \in FieldsOf[role],
               NEW value \in {Other, Bad, Empty}, EditReference(role, field, value)
        PROVE  GraphInv'
    <3>1. GraphShaped(graph') BY <2>1, ShapeEdited DEF GraphInv
    <3> QED BY <2>1, <3>1 DEF GraphInv, EditReference
  <2>2. ASSUME NEW role \in Roles, OmitReference(role) PROVE GraphInv'
    <3>1. GraphShaped(graph') BY <2>2, ShapeOmitted DEF GraphInv
    <3> QED BY <2>2, <3>1 DEF GraphInv, OmitReference
  <2>3. CASE ValidateGraph BY <2>3 DEF GraphInv, ValidateGraph
  <2>4. CASE UNCHANGED graphVars BY <2>4 DEF GraphInv, graphVars
  <2> QED BY <2>0, <2>1, <2>2, <2>3, <2>4 DEF GraphNext
<1>3. GraphInv => ValidIffCoherent
  <2> SUFFICES ASSUME GraphInv, validation # NoVerdict
               PROVE  /\ validation.valid <=>
                           /\ WellFormed(graph)
                           /\ \A id \in {"product", "install", "instance", "profile",
                                         "artifacts"} :
                                Cardinality(Named(graph, id)) = 1
                      /\ validation.plans = "fresh" <=>
                           /\ validation.valid
                           /\ graph.plan.revision = graph.install.revision
                           /\ graph.plan.binding = graph.instance.binding
    BY DEF ValidIffCoherent
  <2>1. GraphShaped(graph) /\ validation = GraphValidate(graph) BY DEF GraphInv
  <2>2. /\ validation.valid <=> AllPass(graph)
        /\ validation.plans = "fresh" <=> AllPass(graph) /\ ~Stale(graph)
    BY <2>1, VerdictTells
  <2>3. ~Stale(graph) <=> /\ graph.plan.revision = graph.install.revision
                          /\ graph.plan.binding = graph.instance.binding
    BY DEF Stale
  <2>4. AllPass(graph) <=>
          /\ WellFormed(graph)
          /\ \A id \in {"product", "install", "instance", "profile", "artifacts"} :
               Cardinality(Named(graph, id)) = 1
    BY <2>1, WellDecided, AgreeDecided DEF AllPass
  <2> QED BY <2>2, <2>3, <2>4
<1> QED BY <1>1, <1>2, <1>3, PTL DEF GraphSpec
=============================================================================
