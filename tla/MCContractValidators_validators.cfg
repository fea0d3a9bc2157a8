\* Texts of up to four characters of the twelve classes under each of the eight
\* rules, one longer than the limit on names; every combination of outcome,
\* flags and sample texts; up to three edits of a composition or a graph.
SPECIFICATION ValidatorsSpec
CONSTANTS
    NameLimit = 3
    DigestSize = 2
    MaxText = 4
    Inputs <- MCInputs
    Ids <- MCIds
    Transactions <- MCTransactions
    Commands <- MCCommands
    Samples <- MCSamples
    Plain <- MCPlain
    Hex <- MCHex
    SchemaLength <- MCSchemaLength
    MaxItems = 2
    MaxEdits = 3
    Mine = mine
    Other = other
    Identifiers = {mine, other}
    Empty = empty
    Bad = bad
    Absent = absent
    MaxReferenceEdits = 3
INVARIANTS ScanDecides ReadsInside ValidIffFitsSchema ValidIffFitsOrTooLong ValidIffCoherent
CHECK_DEADLOCK FALSE
