\* An array that grows 2, 3 (clamped) under four names, one of which overrides
\* a built-in command; two handlers, and metadata that may change.
SPECIFICATION Spec
CONSTANTS
    inspect = inspect  create = create  list = list
    c1 = c1  c2 = c2  c3 = c3  alias = alias
    BuiltinSeq <- MCBuiltinSeq
    Inspect = inspect
    PreviewOnly = {create}
    Bindable = {create, c1, c2, c3}
    Malformed = {alias}
    Effects = {fx}
    DefaultEffects = none
    NoEffects = absent
    Facts = {f1}
    BuiltinMeta = builtin
    LegacyFacts = legacy
    BadText = bad
    Handlers = {h1, h2}
    NoHandler = null
    Fields = 3
    Initial = 2
    Limit = 3
SYMMETRY MCSymmetry
INVARIANTS HeapExact ViewLives RefusedOnlyWhenFull GraphParity
