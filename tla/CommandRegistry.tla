-------------------------- MODULE CommandRegistry ---------------------------
(***************************************************************************)
(* The command registry of one ulk_context (ulk_api.c): the commands that  *)
(* bindings register over the built-in ones, the command graph generated   *)
(* from both, and the memory they are kept in, when any allocation may     *)
(* fail.                                                                   *)
(*                                                                         *)
(* A context is a serialized boundary, so a call is one step.  A           *)
(* registered handler may itself call the context, but after the handler   *)
(* returns ulk_command_execute_v1 touches the context no more: such calls  *)
(* are steps that follow.                                                  *)
(*                                                                         *)
(* An allocated block is named by what it was allocated for.  "view" is    *)
(* the graph text that the caller may still read by the documented rule:   *)
(* until the next registry mutation, graph inspection or destruction.      *)
(***************************************************************************)
EXTENDS Integers, Sequences, FiniteSets

CONSTANTS
    BuiltinSeq,      \* names of ULK_BUILTIN_COMMANDS, in order
    Inspect,         \* "command_graph.inspect"
    PreviewOnly,     \* built-in commands that refuse without dry_run
    Bindable,        \* canonical names that callers register
    Malformed,       \* names that are not canonical, aliases included
    Effects,         \* effects_json texts that callers pass
    DefaultEffects,  \* "[\"none\"]"
    NoEffects,       \* an absent effects_json
    Facts,           \* the other eight descriptor texts, taken together
    BuiltinMeta,     \* the metadata of a built-in descriptor
    LegacyFacts,     \* those that a v1 descriptor is given
    BadText,         \* text that validation rejects
    Handlers,        \* registered handlers
    NoHandler,       \* the null handler
    Fields,          \* number of strings copied per entry (10 in the code)
    Initial,         \* ULK_INITIAL_REGISTRY_CAPACITY
    Limit            \* ulk_registry_capacity_limit()

ASSUME RegistryAssumption ==
    /\ Fields \in Nat \ {0}
    /\ Initial \in Nat \ {0} /\ Limit \in Nat /\ Initial <= Limit
    /\ NoHandler \notin Handlers
    /\ Len(BuiltinSeq) \in Nat
    /\ \A i, j \in 1..Len(BuiltinSeq) : BuiltinSeq[i] = BuiltinSeq[j] => i = j
    /\ BadText \notin Facts \cup Effects \cup {DefaultEffects, LegacyFacts}

VARIABLES
    alive,     \* the context exists
    registry,  \* context->registered[0 .. registered_count - 1]
    capacity,  \* context->registered_capacity
    graph,     \* context->command_graph_json: the set of its text, or {}
    heap,      \* blocks allocated and not freed
    view,      \* the graph text the caller may still read
    reply      \* what the last call returned

vars == <<alive, registry, capacity, graph, heap, view, reply>>

Builtins == {BuiltinSeq[i] : i \in 1..Len(BuiltinSeq)}
Names    == Builtins \cup Bindable

Entry(n, m, h) == [name |-> n, meta |-> m, handler |-> h]
Meta(e, f)     == [effects |-> e, facts |-> f]
Reply(op, status, detail) == [op |-> op, status |-> status, detail |-> detail]
-----------------------------------------------------------------------------
(* Memory *)

ContextBlock  == <<"context">>
ArrayBlock(c) == <<"array", c>>
TextBlock(n, i) == <<"text", n, i>>
GraphBlock    == <<"graph">>

NoGraph    == {}
Arrays(c)  == IF c = 0 THEN {} ELSE {ArrayBlock(c)}
Graphs(g)  == IF g = NoGraph THEN {} ELSE {GraphBlock}
Texts(n)   == {TextBlock(n, i) : i \in 1..Fields}

\* Mutant: the last field is forgotten.
ClearRegistered_SkipsLast(n, I) == {TextBlock(n, i) : i \in I \ {Fields}}

\* ulk_clear_registered frees the strings I of an entry that were copied.
ClearRegistered(n, I) == {TextBlock(n, i) : i \in I}
-----------------------------------------------------------------------------
(* Lookup *)

\* ulk_find_registered returns entry i.
Finds(reg, n, i) ==
    /\ i \in 1..Len(reg) /\ reg[i].name = n
    /\ \A j \in 1..(i - 1) : reg[j].name # n

IsRegistered(reg, n) == \E i \in 1..Len(reg) : reg[i].name = n

\* ulk_find_registered, for a name that is registered.
FindRegistered(reg, n) == reg[CHOOSE i \in 1..Len(reg) : Finds(reg, n, i)]

\* ulk_metadata_from_registered
RowOf(e) == [name |-> e.name, meta |-> e.meta, by |-> "registered"]

\* The descriptor that the graph shows for a built-in name.
BuiltinRow(reg, n) ==
    IF IsRegistered(reg, n)
    THEN RowOf(FindRegistered(reg, n))
    ELSE [name |-> n, meta |-> BuiltinMeta, by |-> "builtin"]

\* The entries that override no built-in command.
Additional(reg) == {j \in 1..Len(reg) : reg[j].name \notin Builtins}

\* The row of an additional entry: they follow the built-in ones in order.
RowNumber(reg, j) ==
    Len(BuiltinSeq) + Cardinality({k \in Additional(reg) : k <= j})

\* ulk_build_command_graph: the built-in commands with their overrides, then
\* the commands that are only registered.
GraphRows(reg) ==
    [i \in 1..(Len(BuiltinSeq) + Cardinality(Additional(reg))) |->
        IF i <= Len(BuiltinSeq) THEN BuiltinRow(reg, BuiltinSeq[i])
        ELSE RowOf(reg[CHOOSE j \in Additional(reg) : RowNumber(reg, j) = i])]
-----------------------------------------------------------------------------
(* Registration *)

\* Mutant: doubling is refused where the limit cuts it short.
NewCapacity_NoClamp(c) == IF c = 0 THEN Initial ELSE 2 * c

\* The growth loop of ulk_ensure_registry_capacity.  One entry more than the
\* capacity is asked for, so one round is enough.
NewCapacity(c) ==
    IF c = 0 THEN Initial
    ELSE IF c > Limit \div 2 THEN Limit ELSE 2 * c

NeedsArray(reg, c) == Len(reg) + 1 > c

\* The larger array stays within the limit.
Affordable(reg, c) == Len(reg) + 1 <= Limit /\ NewCapacity(c) <= Limit

GrowthPossible(reg, c) == NeedsArray(reg, c) => Affordable(reg, c)

\* ulk_effects_json_is_valid, or ulk_view_is_text for each of the facts.
ValidText(t) == t # BadText

\* The validation of ulk_register_internal.
Acceptable(reg, n, m, h) ==
    /\ n \in Names /\ n # Inspect
    /\ ValidText(m.effects) /\ ValidText(m.facts)
    /\ h # NoHandler
    /\ ~IsRegistered(reg, n)

\* Mutant: the graph is given up before the strings are copied.
CopyFails_Invalidates(n, m, h) ==
    \E copied \in SUBSET (1..Fields) :
        /\ copied # 1..Fields
        /\ capacity' = IF NeedsArray(registry, capacity) THEN NewCapacity(capacity) ELSE capacity
        /\ heap' = (heap \ (Arrays(capacity) \cup Graphs(graph))) \cup Arrays(capacity')
        /\ graph' = NoGraph
        /\ reply' = Reply("register", "error", "copy")
        /\ UNCHANGED <<alive, registry, view>>

\* The array grows if it must, but not all strings can be copied: those that
\* were are freed again.
CopyFails(n, m, h) ==
    \E copied \in SUBSET (1..Fields) :
        /\ copied # 1..Fields
        /\ capacity' = IF NeedsArray(registry, capacity) THEN NewCapacity(capacity) ELSE capacity
        /\ heap' = ((heap \ Arrays(capacity)) \cup Arrays(capacity')
                      \cup {TextBlock(n, i) : i \in copied})
                    \ ClearRegistered(n, copied)
        /\ reply' = Reply("register", "error", "copy")
        /\ UNCHANGED <<alive, registry, graph, view>>

\* The array must grow and cannot: past the limit, or out of memory.
GrowthFails ==
    /\ NeedsArray(registry, capacity)
    /\ \/ /\ ~Affordable(registry, capacity)
          /\ reply' = Reply("register", "invalid", "capacity")
       \/ /\ Affordable(registry, capacity)
          /\ reply' = Reply("register", "error", "array")
    /\ UNCHANGED <<alive, registry, capacity, graph, heap, view>>

\* All goes well: the entry is appended and the graph invalidated.
Registers(n, m, h) ==
    /\ capacity' = IF NeedsArray(registry, capacity) THEN NewCapacity(capacity) ELSE capacity
    /\ registry' = Append(registry, Entry(n, m, h))
    /\ graph' = NoGraph
    /\ heap' = (heap \ (Arrays(capacity) \cup Graphs(graph)))
                 \cup Arrays(capacity') \cup Texts(n)
    /\ view' = NoGraph
    /\ reply' = Reply("register", "ok", "registered")
    /\ UNCHANGED alive

RegisterInternal(n, m, h) ==
    /\ alive
    /\ \/ /\ ~Acceptable(registry, n, m, h)
          /\ reply' = Reply("register", "invalid", "descriptor")
          /\ UNCHANGED <<alive, registry, capacity, graph, heap, view>>
       \/ Acceptable(registry, n, m, h) /\ GrowthFails
       \/ Acceptable(registry, n, m, h) /\ GrowthPossible(registry, capacity)
            /\ CopyFails(n, m, h)
       \/ Acceptable(registry, n, m, h) /\ GrowthPossible(registry, capacity)
            /\ Registers(n, m, h)

RegisterV1(n, e, h) ==
    RegisterInternal(n, Meta(IF e = NoEffects THEN DefaultEffects ELSE e, LegacyFacts), h)

RegisterV2(n, e, f, h) ==
    RegisterInternal(n, Meta(IF e = NoEffects THEN BadText ELSE e, f), h)
-----------------------------------------------------------------------------
(* The other calls *)

\* ulk_context_create_v1
Create ==
    /\ ~alive
    /\ \/ /\ alive' = TRUE
          /\ heap' = heap \cup {ContextBlock}
          /\ reply' = Reply("create", "ok", "created")
       \/ /\ reply' = Reply("create", "error", "context")
          /\ UNCHANGED <<alive, heap>>
    /\ UNCHANGED <<registry, capacity, graph, view>>

\* The shift that closes the gap of entry i.
Shifted(reg, i) ==
    [j \in 1..(Len(reg) - 1) |-> IF j < i THEN reg[j] ELSE reg[j + 1]]

\* ulk_command_unregister_v1
Unregister(n) ==
    /\ alive
    /\ \/ /\ n \notin Names \/ ~IsRegistered(registry, n)
          /\ reply' = Reply("unregister", "invalid", "name")
          /\ UNCHANGED <<alive, registry, capacity, graph, heap, view>>
       \/ \E i \in 1..Len(registry) :
             /\ n \in Names /\ Finds(registry, n, i)
             /\ registry' = Shifted(registry, i)
             /\ graph' = NoGraph
             /\ heap' = heap \ (ClearRegistered(n, 1..Fields) \cup Graphs(graph))
             /\ view' = NoGraph
             /\ reply' = Reply("unregister", "ok", "unregistered")
             /\ UNCHANGED <<alive, capacity>>

\* ulk_command_execute_v1 for command_graph.inspect: the old graph goes in any
\* case, the new one may not come.
InspectGraph ==
    /\ alive /\ ~IsRegistered(registry, Inspect)
    /\ \/ /\ graph' = {GraphRows(registry)}
          /\ heap' = heap \cup {GraphBlock}
          /\ view' = graph'
          /\ reply' = Reply("inspect", "ok", "graph")
       \/ /\ graph' = NoGraph
          /\ heap' = heap \ Graphs(graph)
          /\ view' = NoGraph
          /\ reply' = Reply("inspect", "error", "projection")
    /\ UNCHANGED <<alive, registry, capacity>>

\* ulk_dispatch_builtin
BuiltinAnswer(n, dry) ==
    IF n \notin Builtins THEN Reply(n, "unsupported", "unsupported")
    ELSE IF n \in PreviewOnly /\ ~dry THEN Reply(n, "error", "builtin")
    ELSE Reply(n, "ok", "builtin")

\* Mutant: the built-in commands are looked up first.
Answer_BuiltinFirst(n, dry) ==
    IF IsRegistered(registry, n) /\ n \notin Builtins
    THEN Reply(n, "handler", FindRegistered(registry, n).handler)
    ELSE BuiltinAnswer(n, dry)

\* Who answers: the registered handler, or else the built-in command.
Answer(n, dry) ==
    IF IsRegistered(registry, n)
    THEN Reply(n, "handler", FindRegistered(registry, n).handler)
    ELSE BuiltinAnswer(n, dry)

\* ulk_command_execute_v1 for any other command.
Execute(n, dry) ==
    /\ alive
    /\ n # Inspect \/ IsRegistered(registry, n)
    /\ reply' = Answer(n, dry)
    /\ UNCHANGED <<alive, registry, capacity, graph, heap, view>>

\* The argument checks of every call: a null context, a null or short
\* structure, an empty command name.
RejectArguments ==
    /\ reply' = Reply("any", "invalid", "argument")
    /\ UNCHANGED <<alive, registry, capacity, graph, heap, view>>

\* ulk_context_destroy_v1
Destroy ==
    /\ alive
    /\ heap' = heap \ (Graphs(graph) \cup Arrays(capacity) \cup {ContextBlock}
                        \cup UNION {ClearRegistered(registry[i].name, 1..Fields) :
                                       i \in 1..Len(registry)})
    /\ alive' = FALSE /\ registry' = <<>> /\ capacity' = 0
    /\ graph' = NoGraph /\ view' = NoGraph
    /\ reply' = Reply("destroy", "ok", "destroyed")
-----------------------------------------------------------------------------
Init ==
    /\ alive = FALSE
    /\ registry = <<>>
    /\ capacity = 0
    /\ graph = NoGraph
    /\ heap = {}
    /\ view = NoGraph
    /\ reply = Reply("none", "ok", "none")

Next ==
    \/ Create
    \/ \E n \in Bindable \cup Malformed \cup {Inspect}, e \in Effects \cup {NoEffects, BadText},
          h \in Handlers \cup {NoHandler} :
          \/ RegisterV1(n, e, h)
          \/ \E f \in Facts \cup {BadText} : RegisterV2(n, e, f, h)
    \/ \E n \in Bindable \cup Malformed : Unregister(n)
    \/ InspectGraph
    \/ \E n \in Names \cup Malformed, dry \in BOOLEAN : Execute(n, dry)
    \/ RejectArguments
    \/ Destroy

Spec == Init /\ [][Next]_vars
-----------------------------------------------------------------------------
(* Properties *)

MetaRecords ==
    [effects : Effects \cup {DefaultEffects}, facts : Facts \cup {LegacyFacts}]

Entries == [name : Names \ {Inspect}, meta : MetaRecords, handler : Handlers]

\* Every variable has its type; without a context there is nothing else.
TypeOK ==
    /\ alive \in BOOLEAN
    /\ registry \in Seq(Entries)
    /\ capacity \in 0..Limit
    /\ ~alive => registry = <<>> /\ capacity = 0 /\ graph = NoGraph

\* The entries never run past the end of their array, whatever order of
\* growth, failed copies and removals led here.
WithinCapacity == Len(registry) <= capacity

\* A name is registered at most once, so which handler answers does not
\* depend on where the linear search starts.
NamesUnique ==
    \A i, j \in 1..Len(registry) : registry[i].name = registry[j].name => i = j

\* What the context owns: itself, its array, the strings of its entries, and
\* the graph.
Owned ==
    IF alive
    THEN {ContextBlock} \cup Arrays(capacity) \cup Graphs(graph)
           \cup UNION {Texts(registry[i].name) : i \in 1..Len(registry)}
    ELSE {}

\* Nothing leaks and nothing is freed too early: after every call, failed ones
\* and destruction included, the allocated blocks are those the context owns.
HeapExact == heap = Owned

\* command_graph.md: graph JSON "remains valid until the next registry
\* mutation, graph inspection, or context destruction".  As long as the rule
\* lets the caller read the graph, it is there and unchanged; a registration
\* that fails half-way does not take it away.
ViewLives == view # NoGraph => graph = view /\ GraphBlock \in heap

\* command_graph.md: "The registry has no fixed command-count ceiling; growth
\* is bounded by a 64 KiB entry-storage budget".  A registration is refused for
\* lack of room only when the budget is used up to the last whole entry.
RefusedOnlyWhenFull ==
    reply = Reply("register", "invalid", "capacity") => Len(registry) = Limit

\* The inductive invariant.
IInv ==
    /\ TypeOK /\ WithinCapacity /\ NamesUnique /\ HeapExact /\ ViewLives
    /\ RefusedOnlyWhenFull

\* The graph that a caller may still read tells the truth about execution: a
\* command is listed once if some handler answers it and not at all if none
\* does, it is shown as registered or built in as it is answered, and with
\* the metadata of the registration in force.
GraphParity ==
    \A text \in view, n \in Names \cup Malformed, dry \in BOOLEAN :
        LET rows   == {i \in DOMAIN text : text[i].name = n}
            answer == Answer(n, dry)
        IN  /\ Cardinality(rows) = IF answer.status = "unsupported" THEN 0 ELSE 1
            /\ \A i \in rows :
                  IF answer.status = "handler"
                  THEN /\ text[i].by = "registered"
                       /\ \E j \in 1..Len(registry) :
                             registry[j] = Entry(n, text[i].meta, answer.detail)
                  ELSE text[i].by = "builtin" /\ text[i].meta = BuiltinMeta
=============================================================================
