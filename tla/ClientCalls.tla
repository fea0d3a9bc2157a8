----------------------------- MODULE ClientCalls ----------------------------
(***************************************************************************)
(* Calls on one context, step by step, when the callers' code and the      *)
(* handlers' code can get between the steps.                               *)
(*                                                                         *)
(* CommandRegistry takes a call for one step.  In ulk_api.c it is several: *)
(* a registration checks its texts, grows the array, copies ten strings    *)
(* with an allocation each, appends the entry and then gives the graph up; *)
(* a graph inspection frees the old graph before it builds the new one; an *)
(* execution finds an entry and hands over to its handler, which may use   *)
(* the context again, unregister itself, or destroy the context, before    *)
(* the execution returns.                                                  *)
(*                                                                         *)
(* "mem" is the context's memory as it is now.  The variables of           *)
(* CommandRegistry hold the context as the last call to return left it:    *)
(* they take over "mem" when a call returns.  "op" is the call in          *)
(* progress.  The texts a caller passes may be views into the graph JSON   *)
(* that the last inspection lent it: "from" remembers that text.           *)
(*                                                                         *)
(* A client (ulk_client.c) stands in front of the context: its transport   *)
(* adapters are caller code, a direct one calls ulk_command_execute_v1 of  *)
(* this context, and the process and daemon transports do not exist yet: a *)
(* request one of them takes leaves this context alone.                    *)
(***************************************************************************)
EXTENDS CommandRegistry

CONSTANTS
    Adapters,  \* the transport adapters that callers pass
    Zeroed,    \* the transport of a client that was not initialized
    MaxDepth   \* bound: handlers running at once

ASSUME CallsAssumption ==
    /\ \A a \in Adapters \cup {Zeroed} :
          a = [kind |-> a.kind, revision |-> a.revision, execute |-> a.execute]
    /\ Zeroed.execute = FALSE
    /\ MaxDepth \in Nat

VARIABLES
    mem,     \* registry, capacity, graph and heap at this moment
    op,      \* the call in progress
    client,  \* client->transport: its kind, and whether it has the others
    stack    \* the commands whose handlers are running

callsVars == <<alive, registry, capacity, graph, heap, view, reply, mem, op, client, stack>>

Memory(reg, c, g, hp) == [registry |-> reg, capacity |-> c, graph |-> g, heap |-> hp]

\* A call that is about to do "at": with a command's name, the metadata and
\* handler of a descriptor, dry_run of a request, and the graph text that some
\* of its texts are views into.  "next" counts the round of its loop and
\* "copied" the strings that it owns.
Call(at, n, m, h, dry, from) ==
    [at |-> at, name |-> n, meta |-> m, handler |-> h, dry |-> dry, from |-> from,
     next |-> 1, copied |-> {}]

NoMeta == Meta(NoEffects, NoEffects)
Idle   == Call("idle", Inspect, NoMeta, NoHandler, FALSE, NoGraph)

\* The call goes on.
Continues(at) ==
    /\ op' = [op EXCEPT !.at = at, !.next = 1]
    /\ UNCHANGED <<vars, client, stack>>

\* The call goes on with the next round of its loop.
NextRound(copied) ==
    /\ op' = [op EXCEPT !.next = @ + 1, !.copied = copied]
    /\ UNCHANGED <<vars, client, stack>>

\* The call returns "answer", and its caller may read the graph text "lent".
Returns(answer, lent) ==
    /\ registry' = mem'.registry /\ capacity' = mem'.capacity
    /\ graph' = mem'.graph /\ heap' = mem'.heap
    /\ view' = lent /\ reply' = answer
    /\ op' = Idle
    /\ UNCHANGED <<alive, client>>
-----------------------------------------------------------------------------
(* The client *)

\* ulk_transport_kind_is_valid
Kinds == {"direct", "process", "daemon"}

\* The adapter checks of ulk_client_initialize_v1.
AdapterValid(a) == a.kind \in Kinds /\ a.revision /\ a.execute

\* The client checks of ulk_client_execute_v1.
Ready(c) == c.kind \in Kinds /\ c.execute

\* ulk_client_initialize_v1
ClientInitialize(a) ==
    /\ op = Idle
    /\ client' = IF AdapterValid(a) THEN a ELSE client
    /\ UNCHANGED <<vars, mem, op, stack>>

\* ulk_command_execute_v1 of the context is called with a sound request.
Dispatch(n, dry, from) ==
    /\ alive
    /\ op' = Call("find", n, NoMeta, NoHandler, dry, from)
    /\ UNCHANGED <<vars, mem, client, stack>>

\* ulk_client_execute_v1; "good" says that request and response pass its
\* checks.  It refuses, or hands over to the adapter.
ClientExecute(n, dry, from, good) ==
    /\ op = Idle /\ Len(stack) < MaxDepth
    /\ \/ ~(Ready(client) /\ good) /\ UNCHANGED callsVars
       \/ Ready(client) /\ good /\ client.kind # "direct" /\ UNCHANGED callsVars
       \/ Ready(client) /\ good /\ client.kind = "direct" /\ Dispatch(n, dry, from)

\* A caller executes without the client.
ContextExecute(n, dry, from) == op = Idle /\ Len(stack) < MaxDepth /\ Dispatch(n, dry, from)
-----------------------------------------------------------------------------
(* Execution *)

\* A registered command: its handler starts, and what it returns is returned
\* as it is.
HandlerStarts ==
    /\ op.at = "find"
    /\ \E i \in 1..Len(mem.registry) :
          /\ Finds(mem.registry, op.name, i)
          /\ stack' = Append(stack, op.name)
          /\ UNCHANGED mem
          /\ Returns(Reply(op.name, "handler", mem.registry[i].handler), view)

\* The handler returns, and ulk_command_execute_v1 after it: the entry, which
\* may be gone or moved by then, is not looked at again.
HandlerReturns ==
    /\ op = Idle /\ stack # <<>>
    /\ stack' = SubSeq(stack, 1, Len(stack) - 1)
    /\ UNCHANGED <<vars, mem, op, client>>

\* No handler is registered: a built-in command answers, or none does.
BuiltinAnswers ==
    /\ op.at = "find" /\ ~IsRegistered(mem.registry, op.name)
    /\ UNCHANGED mem
    /\ \/ op.name = Inspect /\ Continues("replace")
       \/ /\ op.name # Inspect
          /\ Returns(BuiltinAnswer(op.name, op.dry), view)
          /\ UNCHANGED stack

\* ulk_invalidate_graph
InvalidateGraph == mem' = [mem EXCEPT !.graph = NoGraph, !.heap = @ \ Graphs(mem.graph)]

\* ulk_build_command_graph gives the old graph up first.
InvalidateForInspect == op.at = "replace" /\ InvalidateGraph /\ Continues("build")

\* The new graph, if there is memory for it.
BuildGraph ==
    /\ op.at = "build"
    /\ \/ /\ mem' = [mem EXCEPT !.graph = {GraphRows(mem.registry)},
                                !.heap = @ \cup {GraphBlock}]
          /\ Returns(Reply("inspect", "ok", "graph"), mem'.graph)
       \/ /\ UNCHANGED mem
          /\ Returns(Reply("inspect", "error", "projection"), NoGraph)
    /\ UNCHANGED stack
-----------------------------------------------------------------------------
(* Registration *)

\* ulk_command_register_v1 and _v2 are called with a descriptor.
CallRegister(n, m, h, from) ==
    /\ op = Idle /\ alive
    /\ op' = Call("check", n, m, h, FALSE, from)
    /\ UNCHANGED <<vars, mem, client, stack>>

\* The validation of ulk_register_internal.
CheckDescriptor ==
    /\ op.at = "check"
    /\ UNCHANGED mem
    /\ \/ /\ ~Acceptable(mem.registry, op.name, op.meta, op.handler)
          /\ Returns(Reply("register", "invalid", "descriptor"), view)
          /\ UNCHANGED stack
       \/ /\ Acceptable(mem.registry, op.name, op.meta, op.handler)
          /\ Continues("grow")

\* ulk_ensure_registry_capacity refuses, or there is no memory for the array.
CannotGrow ==
    /\ op.at = "grow" /\ NeedsArray(mem.registry, mem.capacity)
    /\ UNCHANGED <<mem, stack>>
    /\ Returns(IF Affordable(mem.registry, mem.capacity)
                  THEN Reply("register", "error", "array")
                  ELSE Reply("register", "invalid", "capacity"), view)

\* Mutant: the graph is given up as soon as there is room for the entry.
Grow_Invalidates ==
    /\ op.at = "grow" /\ GrowthPossible(mem.registry, mem.capacity)
    /\ LET c == IF NeedsArray(mem.registry, mem.capacity)
                THEN NewCapacity(mem.capacity) ELSE mem.capacity
       IN  mem' = [mem EXCEPT !.capacity = c, !.graph = NoGraph,
                     !.heap = (@ \ (Arrays(mem.capacity) \cup Graphs(mem.graph))) \cup Arrays(c)]
    /\ Continues("copy")

\* There is room, or a larger array takes the place of the old one.
Grow ==
    /\ op.at = "grow" /\ GrowthPossible(mem.registry, mem.capacity)
    /\ LET c == IF NeedsArray(mem.registry, mem.capacity)
                THEN NewCapacity(mem.capacity) ELSE mem.capacity
       IN  mem' = [mem EXCEPT !.capacity = c,
                     !.heap = (@ \ Arrays(mem.capacity)) \cup Arrays(c)]
    /\ Continues("copy")

\* ulk_copy_view of the next text: all of them are tried, whichever fail.
CopyText ==
    /\ op.at = "copy" /\ op.next <= Fields
    /\ \/ /\ mem' = [mem EXCEPT !.heap = @ \cup {TextBlock(op.name, op.next)}]
          /\ NextRound(op.copied \cup {op.next})
       \/ UNCHANGED mem /\ NextRound(op.copied)

\* Mutant: what was copied is only given back if the name was.
DropCopies_KeepsSome ==
    /\ op.at = "copy" /\ op.next > Fields /\ op.copied # 1..Fields
    /\ mem' = [mem EXCEPT
                 !.heap = @ \ ClearRegistered(op.name, IF 1 \in op.copied THEN op.copied ELSE {})]
    /\ Returns(Reply("register", "error", "copy"), view)
    /\ UNCHANGED stack

\* Some text is missing: those that were copied are freed.
DropCopies ==
    /\ op.at = "copy" /\ op.next > Fields /\ op.copied # 1..Fields
    /\ mem' = [mem EXCEPT !.heap = @ \ ClearRegistered(op.name, op.copied)]
    /\ Returns(Reply("register", "error", "copy"), view)
    /\ UNCHANGED stack

\* The entry is appended.
AppendEntry ==
    /\ op.at = "copy" /\ op.next > Fields /\ op.copied = 1..Fields
    /\ mem' = [mem EXCEPT !.registry = Append(@, Entry(op.name, op.meta, op.handler))]
    /\ Continues("registered")

InvalidateForRegister ==
    /\ op.at = "registered"
    /\ InvalidateGraph
    /\ Returns(Reply("register", "ok", "registered"), NoGraph)
    /\ UNCHANGED stack
-----------------------------------------------------------------------------
(* The other calls *)

\* ulk_command_unregister_v1 is called.
CallUnregister(n, from) ==
    /\ op = Idle /\ alive
    /\ op' = Call("search", n, NoMeta, NoHandler, FALSE, from)
    /\ UNCHANGED <<vars, mem, client, stack>>

\* The entry is cleared and the gap closed, if there is one.
RemoveEntry ==
    /\ op.at = "search"
    /\ \/ /\ op.name \notin Names \/ ~IsRegistered(mem.registry, op.name)
          /\ UNCHANGED <<mem, stack>>
          /\ Returns(Reply("unregister", "invalid", "name"), view)
       \/ \E i \in 1..Len(mem.registry) :
             /\ op.name \in Names /\ Finds(mem.registry, op.name, i)
             /\ mem' = [mem EXCEPT !.registry = Shifted(@, i),
                                   !.heap = @ \ ClearRegistered(op.name, 1..Fields)]
             /\ Continues("removed")

InvalidateForUnregister ==
    /\ op.at = "removed"
    /\ InvalidateGraph
    /\ Returns(Reply("unregister", "ok", "unregistered"), NoGraph)
    /\ UNCHANGED stack

\* ulk_context_create_v1, and calls that the argument checks refuse.
ShortCall ==
    /\ op = Idle
    /\ (Create /\ stack = <<>>) \/ RejectArguments
    /\ mem' = Memory(registry', capacity', graph', heap')
    /\ UNCHANGED <<op, client, stack>>

\* ulk_context_destroy_v1 is called: the graph goes first.
CallDestroy ==
    /\ op = Idle /\ alive
    /\ InvalidateGraph
    /\ op' = Call("destroy", Inspect, NoMeta, NoHandler, FALSE, NoGraph)
    /\ UNCHANGED <<vars, client, stack>>

\* The strings of the next entry.
ClearNext ==
    /\ op.at = "destroy" /\ op.next <= Len(mem.registry)
    /\ mem' = [mem EXCEPT !.heap = @ \ ClearRegistered(mem.registry[op.next].name, 1..Fields)]
    /\ NextRound({})

\* The array and the context.
FreeContext ==
    /\ op.at = "destroy" /\ op.next > Len(mem.registry)
    /\ mem' = Memory(<<>>, 0, NoGraph, mem.heap \ (Arrays(mem.capacity) \cup {ContextBlock}))
    /\ alive' = FALSE /\ registry' = <<>> /\ capacity' = 0 /\ graph' = NoGraph
    /\ heap' = mem'.heap /\ view' = NoGraph
    /\ reply' = Reply("destroy", "ok", "destroyed")
    /\ op' = Idle
    /\ UNCHANGED <<client, stack>>
-----------------------------------------------------------------------------
CallsInit ==
    /\ Init
    /\ mem = Memory(registry, capacity, graph, heap)
    /\ op = Idle
    /\ client = Zeroed
    /\ stack = <<>>

\* Texts of the caller's own, or views into the graph it may read.
Sources == {NoGraph, view}

\* The metadata of a v1 and of a v2 descriptor.
Described(e) ==
    {Meta(IF e = NoEffects THEN DefaultEffects ELSE e, LegacyFacts)}
      \cup {Meta(IF e = NoEffects THEN BadText ELSE e, f) : f \in Facts \cup {BadText}}

CallsNext ==
    \/ \E a \in Adapters : ClientInitialize(a)
    \/ \E n \in Names \cup Malformed, dry \in BOOLEAN, from \in Sources :
          \/ \E good \in BOOLEAN : ClientExecute(n, dry, from, good)
          \/ ContextExecute(n, dry, from)
    \/ HandlerStarts \/ HandlerReturns \/ BuiltinAnswers \/ InvalidateForInspect \/ BuildGraph
    \/ \E n \in Bindable \cup Malformed \cup {Inspect}, e \in Effects \cup {NoEffects, BadText},
          h \in Handlers \cup {NoHandler}, from \in Sources :
          \E m \in Described(e) : CallRegister(n, m, h, from)
    \/ CheckDescriptor \/ CannotGrow \/ Grow \/ CopyText \/ DropCopies \/ AppendEntry
    \/ InvalidateForRegister
    \/ \E n \in Bindable \cup Malformed, from \in Sources : CallUnregister(n, from)
    \/ RemoveEntry \/ InvalidateForUnregister
    \/ ShortCall
    \/ CallDestroy \/ ClearNext \/ FreeContext

CallsSpec == CallsInit /\ [][CallsNext]_callsVars
-----------------------------------------------------------------------------
(* Properties *)

\* ulk_command.h lends the graph JSON to the caller "until the next command
\* call", and command_graph.md until a mutation: a caller that passes a name or
\* metadata out of that JSON to the very call that ends the loan, a
\* registration, an unregistration or another inspection, is right only if the
\* call is through with its arguments before it frees the graph.  At every
\* step that still reads them, the text they are views into is there.
ArgumentsLive ==
    op.at \in {"find", "check", "grow", "copy", "search"} /\ op.from # NoGraph =>
        mem.graph = op.from /\ GraphBlock \in mem.heap

\* Calls of many steps, with any of their allocations failing, and calls that
\* handlers make while they run, at any depth and through the client or not,
\* change the context as single steps one after the other would: a call that
\* fails half-way leaves nothing behind.
ImplementsRegistry == Spec
=============================================================================
