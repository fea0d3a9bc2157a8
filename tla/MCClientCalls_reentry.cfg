\* Handlers that call back, two deep, over an array that moves.
SPECIFICATION CallsSpec
CONSTANTS
    inspect = inspect  create = create  c1 = c1  alias = alias
    BuiltinSeq <- MCBuiltinSeq
    Inspect = inspect
    PreviewOnly = {create}
    Bindable = {create, c1}
    Malformed = {alias}
    Effects = {}
    DefaultEffects = none
    NoEffects = absent
    Facts = {}
    BuiltinMeta = builtin
    LegacyFacts = legacy
    BadText = bad
    Handlers = {h1}
    NoHandler = null
    Fields = 2
    Initial = 1
    Limit = 2
    Adapters <- MCAdapters
    Zeroed <- MCZeroed
    MaxDepth = 2
INVARIANT ArgumentsLive
PROPERTY ImplementsRegistry
