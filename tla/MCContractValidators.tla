------------------------ MODULE MCContractValidators ------------------------
(***************************************************************************)
(* The validators of the public contracts, for TLC.  They keep no state    *)
(* and do not call each other but for the text scans, so one behaviour     *)
(* follows one of them: a text scan, an operation result, a product        *)
(* composition or a reference graph.  The variables of the others rest.    *)
(***************************************************************************)
EXTENDS TextScan, OperationOutcome, ProductComposition, ReferenceGraph

CONSTANT MaxText        \* bound: the longest text that is scanned

VARIABLE subject        \* the validator that the behaviour follows

validatorVars == <<subject, vars, resultVars, compositionVars, graphVars>>

Of(s) == [data |-> TRUE, text |-> s]
NoData(s) == [data |-> FALSE, text |-> s]

\* Every text up to the bound, and every size without data behind it.
MCInputs ==
    {Of(s) : s \in UNION {[1..n -> Chars] : n \in 0..MaxText}}
    \cup {NoData([i \in 1..n |-> "a"]) : n \in 0..MaxText}

\* Identifiers: a plain word, one that starts like no identifier, and a span
\* of nothing.
MCIds == {Of(<<"a", "-">>), Of(<<"-", "a">>), NoData(<<"a">>)}

\* The empty text is one a transaction ID may be.
MCTransactions == {Of(<<"a">>), Of(<<"a", "/">>), NoData(<<"a">>), NoData(<< >>)}

\* A command, a word without a dot, a command in capitals, one too long.
MCCommands == {Of(<<"a", ".", "g">>), Of(<<"a">>), Of(<<"A", ".", "g">>),
               Of(<<"a", ".", "g", "g">>), NoData(<<"a", ".", "g">>), NoData(<< >>)}

MCPlain == Of(<<"a">>)
MCHex == Of(<<"a", "0">>)

\* Some samples are as long as these, some longer.
MCSchemaLength == [version |-> 1, exact_version |-> 2, composition_revision |-> 2,
                   relative_path |-> 2]

\* A text for each way a rule can tell two apart: an empty one, one without
\* data, a NUL byte, an identifier that is no name, a name that is no path, a
\* path that is no name, an absolute path, and a name that is too long.
MCSamples ==
    {NoData(<< >>), NoData(<<"a", "0">>), Of(<<"NUL">>), Of(<<"a", ":">>),
     Of(<<".", ".">>), Of(<<"a", "/">>), Of(<<"/", "a">>), Of(<<"a", "a", "a", "a">>)}
-----------------------------------------------------------------------------
\* What a validator that is not followed shows: a question nobody asked.
TextRests ==
    /\ rule = "text" /\ view = NoData(<< >>) /\ pc = "entry" /\ at = 1
    /\ previous_was_dot = FALSE /\ saw_dot = FALSE /\ touched = {} /\ verdict = FALSE
ResultRests == result = << >> /\ answer = "unasked"
GraphRests == graph = CoherentGraph(Mine, Mine) /\ edited = {} /\ validation = NoVerdict

ValidatorsInit ==
    /\ \/ subject = "text" /\ Init /\ ResultRests /\ GraphRests
       \/ subject = "result" /\ ResultInit /\ TextRests /\ GraphRests
       \/ subject = "composition" /\ TextRests /\ ResultRests /\ GraphRests
       \/ subject = "graph" /\ GraphInit /\ TextRests /\ ResultRests
    /\ CompositionInit

ValidatorsNext ==
    /\ \/ /\ subject = "text" /\ Next
          /\ UNCHANGED <<resultVars, compositionVars, graphVars>>
       \/ /\ subject = "result" /\ ResultNext
          /\ UNCHANGED <<vars, compositionVars, graphVars>>
       \/ /\ subject = "composition" /\ CompositionNext
          /\ UNCHANGED <<vars, resultVars, graphVars>>
       \/ /\ subject = "graph" /\ GraphNext
          /\ UNCHANGED <<vars, resultVars, compositionVars>>
    /\ UNCHANGED subject

ValidatorsSpec == ValidatorsInit /\ [][ValidatorsNext]_validatorVars
=============================================================================
