----------------------- MODULE CommandRegistryProofs ------------------------
(***************************************************************************)
(* Proofs about CommandRegistry: for every number of commands, strings per *)
(* entry and storage budget, memory is exact, names are unique, and the    *)
(* caller's view of the graph lives as long as documented and is true; and *)
(* about ClientCalls: calls of many steps, made by callers and by running  *)
(* handlers, implement the registry of one step per call, so all of this   *)
(* holds for them, and no call reads its arguments in freed memory.        *)
(***************************************************************************)
EXTENDS ClientCalls, TLAPS, FiniteSetTheorems

\* The growth step makes room for one entry more and keeps the limit.
LEMMA GrowthLaw ==
    ASSUME NEW c \in 0..Limit
    PROVE  /\ NewCapacity(c) \in 1..Limit
           /\ c < Limit => NewCapacity(c) >= c + 1
BY RegistryAssumption DEF NewCapacity

\* A call that changes neither the context nor what the caller may read.
LEMMA QuietInv ==
    ASSUME IInv, UNCHANGED <<alive, registry, capacity, graph, heap, view>>,
           reply' # Reply("register", "invalid", "capacity")
    PROVE  IInv'
BY DEF IInv, TypeOK, WithinCapacity, NamesUnique, HeapExact, Owned, ViewLives,
       RefusedOnlyWhenFull

\* The initial state satisfies the invariant.
LEMMA InitInv == Init => IInv
<1> SUFFICES ASSUME Init PROVE IInv OBVIOUS
<1>5. alive \in BOOLEAN BY Zenon DEF Init
<1>6. <<>> \in Seq(Entries) OBVIOUS
<1>7. 0 \in 0..Limit BY RegistryAssumption
<1>1. TypeOK BY <1>5, <1>6, <1>7, Zenon DEF Init, TypeOK
<1>2. WithinCapacity /\ NamesUnique BY DEF Init, WithinCapacity, NamesUnique
<1>3. HeapExact /\ ViewLives BY DEF Init, HeapExact, Owned, ViewLives
<1>4. RefusedOnlyWhenFull BY DEF Init, RefusedOnlyWhenFull, Reply
<1> QED BY <1>1, <1>2, <1>3, <1>4 DEF IInv
-----------------------------------------------------------------------------
(* Registration *)

\* What stays owned when an unregistered name's strings come or go.
LEMMA TextsApart ==
    ASSUME NEW n, NEW i, NEW c
    PROVE  /\ TextBlock(n, i) # ContextBlock
           /\ TextBlock(n, i) # GraphBlock
           /\ TextBlock(n, i) # ArrayBlock(c)
           /\ \A m, j : TextBlock(n, i) = TextBlock(m, j) => n = m
           /\ ContextBlock # GraphBlock /\ ContextBlock # ArrayBlock(c)
           /\ GraphBlock # ArrayBlock(c)
           /\ \A d : ArrayBlock(c) = ArrayBlock(d) => c = d
BY DEF TextBlock, ContextBlock, GraphBlock, ArrayBlock

\* The capacity after a growth that is possible.
LEMMA RoomForOne ==
    ASSUME IInv, GrowthPossible(registry, capacity),
           capacity' = IF NeedsArray(registry, capacity) THEN NewCapacity(capacity) ELSE capacity
    PROVE  capacity' \in 0..Limit /\ Len(registry) + 1 <= capacity'
<1>1. capacity \in 0..Limit /\ Len(registry) <= capacity /\ Len(registry) \in Nat
  BY DEF IInv, TypeOK, WithinCapacity
<1>2. CASE ~NeedsArray(registry, capacity) BY <1>1, <1>2, RegistryAssumption DEF NeedsArray
<1>3. CASE NeedsArray(registry, capacity)
  <2>1. Len(registry) = capacity /\ capacity < Limit
    BY <1>1, <1>3, RegistryAssumption DEF NeedsArray, GrowthPossible, Affordable
  <2> QED BY <1>1, <1>3, <2>1, GrowthLaw, RegistryAssumption
<1> QED BY <1>2, <1>3

\* GrowthFails keeps the invariant.
LEMMA GrowthFailsInv == ASSUME IInv, GrowthFails PROVE IInv'
<1>1. capacity \in 0..Limit /\ Len(registry) <= capacity /\ Len(registry) \in Nat
  BY DEF IInv, TypeOK, WithinCapacity
<1>2. reply' = Reply("register", "invalid", "capacity") => Len(registry) = Limit
  <2>1. NewCapacity(capacity) \in 1..Limit BY <1>1, GrowthLaw
  <2>2. Reply("register", "error", "array") # Reply("register", "invalid", "capacity")
    BY DEF Reply
  <2>3. reply' = Reply("register", "invalid", "capacity") =>
          Len(registry) + 1 > Limit \/ NewCapacity(capacity) > Limit
    BY <1>1, <2>1, <2>2, RegistryAssumption DEF GrowthFails, Affordable
  <2>4. Limit \in Nat BY RegistryAssumption
  <2> QED BY <1>1, <2>1, <2>3, <2>4
<1>3. RefusedOnlyWhenFull' BY <1>2 DEF RefusedOnlyWhenFull, GrowthFails
<1> QED BY <1>3 DEF GrowthFails, IInv, TypeOK, WithinCapacity, NamesUnique,
                    HeapExact, Owned, ViewLives

\* A registration that runs out of memory keeps the invariant.
LEMMA CopyFailsInv ==
    ASSUME IInv, alive, NEW n, NEW m, NEW h, ~IsRegistered(registry, n),
           GrowthPossible(registry, capacity),
           CopyFails(n, m, h)
    PROVE  IInv'
<1>1. PICK copied \in SUBSET (1..Fields) :
        /\ capacity' = IF NeedsArray(registry, capacity) THEN NewCapacity(capacity) ELSE capacity
        /\ heap' = ((heap \ Arrays(capacity)) \cup Arrays(capacity')
                      \cup {TextBlock(n, i) : i \in copied})
                    \ ClearRegistered(n, copied)
        /\ reply' = Reply("register", "error", "copy")
        /\ UNCHANGED <<alive, registry, graph, view>>
  BY DEF CopyFails
<1>2. capacity' \in 0..Limit /\ Len(registry) + 1 <= capacity' BY <1>1, RoomForOne
<1>3. TypeOK' BY <1>1, <1>2 DEF IInv, TypeOK
<1>4. WithinCapacity' /\ NamesUnique'
  BY <1>1, <1>2 DEF IInv, TypeOK, WithinCapacity, NamesUnique
<1>5. HeapExact'
  <2> DEFINE T == UNION {Texts(registry[i].name) : i \in 1..Len(registry)}
  <2>1. heap = {ContextBlock} \cup Arrays(capacity) \cup Graphs(graph) \cup T
    BY DEF IInv, HeapExact, Owned
  <2>2. \A i \in copied : TextBlock(n, i) \notin T
    BY TextsApart DEF Texts, IsRegistered
  <2>3. \A i \in copied : TextBlock(n, i) \notin {ContextBlock} \cup Arrays(capacity')
                             \cup Graphs(graph)
    BY TextsApart DEF Arrays, Graphs
  <2>4. Arrays(capacity) \cap ({ContextBlock} \cup Graphs(graph) \cup T) = {}
    BY TextsApart DEF Arrays, Graphs, Texts
  <2> HIDE DEF T
  <2>5. heap' = {ContextBlock} \cup Arrays(capacity') \cup Graphs(graph) \cup T
    BY <1>1, <2>1, <2>2, <2>3, <2>4 DEF ClearRegistered
  <2> QED BY <1>1, <2>5 DEF HeapExact, Owned, T
<1>6. ViewLives'
  <2>1. \A i \in copied : TextBlock(n, i) # GraphBlock BY TextsApart
  <2>2. GraphBlock \notin Arrays(capacity) BY TextsApart DEF Arrays
  <2> QED BY <1>1, <2>1, <2>2 DEF IInv, ViewLives, ClearRegistered
<1>7. RefusedOnlyWhenFull' BY <1>1 DEF RefusedOnlyWhenFull, Reply
<1> QED BY <1>3, <1>4, <1>5, <1>6, <1>7 DEF IInv

\* Registers keeps the invariant.
LEMMA RegistersInv ==
    ASSUME IInv, alive, NEW n \in Names \ {Inspect}, NEW m \in MetaRecords,
           NEW h \in Handlers, ~IsRegistered(registry, n),
           GrowthPossible(registry, capacity),
           Registers(n, m, h)
    PROVE  IInv'
<1> USE DEF Registers
<1> DEFINE e == Entry(n, m, h)
<1>0. registry \in Seq(Entries) /\ e \in Entries
  BY DEF IInv, TypeOK, Entry, Entries
<1>1. /\ registry' = Append(registry, e)
      /\ Len(registry') = Len(registry) + 1 /\ Len(registry) \in Nat
      /\ registry' \in Seq(Entries)
      /\ \A i \in 1..Len(registry) : registry'[i] = registry[i]
      /\ registry'[Len(registry) + 1] = e
  BY <1>0
<1>2. capacity' \in 0..Limit /\ Len(registry) + 1 <= capacity' BY RoomForOne
<1>3. TypeOK' BY <1>1, <1>2 DEF IInv, TypeOK
<1>4. WithinCapacity' BY <1>1, <1>2 DEF WithinCapacity
<1>5. e.name = n BY DEF Entry
<1> HIDE DEF e
<1>6. NamesUnique'
  BY <1>1, <1>5 DEF IInv, NamesUnique, IsRegistered
<1>7. HeapExact'
  <2> DEFINE T == UNION {Texts(registry[i].name) : i \in 1..Len(registry)}
  <2>1. heap = {ContextBlock} \cup Arrays(capacity) \cup Graphs(graph) \cup T
    BY DEF IInv, HeapExact, Owned
  <2>2. Arrays(capacity) \cap ({ContextBlock} \cup T) = {}
    BY TextsApart DEF Arrays, Texts
  <2>3. Graphs(graph) \cap ({ContextBlock} \cup T) = {}
    BY TextsApart DEF Graphs, Texts
  <2>4. UNION {Texts(registry'[i].name) : i \in 1..Len(registry')} = T \cup Texts(n)
    BY <1>1, <1>5
  <2> HIDE DEF T
  <2>5. heap' = {ContextBlock} \cup Arrays(capacity') \cup (T \cup Texts(n))
    BY <2>1, <2>2, <2>3
  <2>6. Graphs(graph') = {} BY DEF Graphs
  <2> QED BY <2>4, <2>5, <2>6 DEF HeapExact, Owned
<1>8. ViewLives' BY DEF ViewLives
<1>9. RefusedOnlyWhenFull' BY DEF RefusedOnlyWhenFull, Reply
<1> QED BY <1>3, <1>4, <1>6, <1>7, <1>8, <1>9 DEF IInv

\* RegisterInternal keeps the invariant.
LEMMA RegisterInternalInv ==
    ASSUME IInv, NEW n, NEW e \in Effects \cup {DefaultEffects, BadText},
           NEW f \in Facts \cup {LegacyFacts, BadText},
           NEW h \in Handlers \cup {NoHandler},
           RegisterInternal(n, Meta(e, f), h)
    PROVE  IInv'
<1>1. CASE ~Acceptable(registry, n, Meta(e, f), h)
  <2>1. Reply("register", "invalid", "descriptor")
          # Reply("register", "invalid", "capacity") BY DEF Reply
  <2> QED BY <1>1, <2>1, QuietInv DEF RegisterInternal, GrowthFails, Reply
<1>2. CASE Acceptable(registry, n, Meta(e, f), h)
  <2>1. /\ n \in Names \ {Inspect} /\ Meta(e, f) \in MetaRecords
        /\ h \in Handlers /\ ~IsRegistered(registry, n)
    BY <1>2 DEF Acceptable, ValidText, Meta, MetaRecords
  <2> QED BY <1>2, <2>1, GrowthFailsInv, CopyFailsInv, RegistersInv DEF RegisterInternal
<1> QED BY <1>1, <1>2
-----------------------------------------------------------------------------
(* The other calls *)

\* Create keeps the invariant.
LEMMA CreateInv == ASSUME IInv, Create PROVE IInv'
<1>1. CASE UNCHANGED <<alive, heap>> /\ reply' = Reply("create", "error", "context")
  BY <1>1, QuietInv DEF Create, Reply
<1>2. CASE alive' = TRUE /\ heap' = heap \cup {ContextBlock}
           /\ reply' = Reply("create", "ok", "created")
  <2>1. registry = <<>> /\ capacity = 0 /\ graph = NoGraph /\ heap = {} /\ view = NoGraph
    BY DEF Create, IInv, TypeOK, HeapExact, Owned, ViewLives
  <2>2. HeapExact'
    BY <1>2, <2>1 DEF Create, HeapExact, Owned, Arrays, Graphs
  <2>3. TypeOK' /\ WithinCapacity' /\ NamesUnique'
    BY <1>2, <2>1 DEF Create, IInv, TypeOK, WithinCapacity, NamesUnique
  <2>4. ViewLives' /\ RefusedOnlyWhenFull'
    BY <1>2, <2>1 DEF Create, ViewLives, RefusedOnlyWhenFull, Reply
  <2> QED BY <2>2, <2>3, <2>4 DEF IInv
<1> QED BY <1>1, <1>2 DEF Create

\* Unregister keeps the invariant.
LEMMA UnregisterInv == ASSUME IInv, NEW n, Unregister(n) PROVE IInv'
<1>1. CASE UNCHANGED <<alive, registry, capacity, graph, heap, view>>
           /\ reply' = Reply("unregister", "invalid", "name")
  BY <1>1, QuietInv DEF Reply
<1>2. ASSUME NEW i \in 1..Len(registry), Finds(registry, n, i), alive,
             registry' = Shifted(registry, i), graph' = NoGraph,
             heap' = heap \ (ClearRegistered(n, 1..Fields) \cup Graphs(graph)),
             view' = NoGraph, reply' = Reply("unregister", "ok", "unregistered"),
             UNCHANGED <<alive, capacity>>
      PROVE  IInv'
  <2> DEFINE L == Len(registry)
  <2>1. registry \in Seq(Entries) /\ L \in Nat /\ L >= 1 /\ i \in 1..L
    BY DEF IInv, TypeOK
  <2>2. /\ Len(registry') = L - 1
        /\ \A j \in 1..(L - 1) : registry'[j] = IF j < i THEN registry[j] ELSE registry[j + 1]
        /\ registry' \in Seq(Entries)
    BY <1>2, <2>1 DEF Shifted
  <2>3. TypeOK' BY <1>2, <2>2 DEF IInv, TypeOK
  <2>4. WithinCapacity'
    BY <1>2, <2>1, <2>2 DEF IInv, TypeOK, WithinCapacity
  <2>5. NamesUnique'
    <3> DEFINE D(j) == IF j < i THEN j ELSE j + 1
    <3>1. \A j \in 1..(L - 1) : D(j) \in 1..L /\ registry'[j] = registry[D(j)]
      BY <2>1, <2>2
    <3>2. \A j, k \in 1..(L - 1) : D(j) = D(k) => j = k BY <2>1
    <3> HIDE DEF D
    <3> QED BY <2>2, <3>1, <3>2 DEF IInv, NamesUnique
  <2>6. HeapExact'
    <3> DEFINE T(reg) == UNION {Texts(reg[j].name) : j \in 1..Len(reg)}
    <3>1. heap = {ContextBlock} \cup Arrays(capacity) \cup Graphs(graph) \cup T(registry)
      BY <1>2 DEF IInv, HeapExact, Owned
    <3>2. ClearRegistered(n, 1..Fields) = Texts(n) BY DEF ClearRegistered, Texts
    <3>3. \A j \in 1..(L - 1) : registry'[j].name # n
      BY <1>2, <2>1, <2>2 DEF IInv, NamesUnique, Finds
    <3>4. \A j \in 1..L : j # i => \E k \in 1..(L - 1) : registry'[k] = registry[j]
      <4> SUFFICES ASSUME NEW j \in 1..L, j # i
                   PROVE  \E k \in 1..(L - 1) : registry'[k] = registry[j]
        OBVIOUS
      <4>1. CASE j < i BY <4>1, <2>1, <2>2
      <4>2. CASE j > i
        <5>1. j - 1 \in 1..(L - 1) /\ ~(j - 1 < i) /\ (j - 1) + 1 = j BY <4>2, <2>1
        <5> QED BY <5>1, <2>2
      <4> QED BY <4>1, <4>2, <2>1
    <3>5. \A j \in 1..(L - 1) : \E k \in 1..L : k # i /\ registry'[j] = registry[k]
      <4> SUFFICES ASSUME NEW j \in 1..(L - 1)
                   PROVE  \E k \in 1..L : k # i /\ registry'[j] = registry[k]
        OBVIOUS
      <4>1. CASE j < i BY <4>1, <2>1, <2>2
      <4>2. CASE ~(j < i)
        <5>1. j + 1 \in 1..L /\ j + 1 # i BY <4>2, <2>1
        <5> QED BY <4>2, <5>1, <2>2
      <4> QED BY <4>1, <4>2
    <3>6. \A a, b : a # b => Texts(a) \cap Texts(b) = {} BY TextsApart DEF Texts
    <3>7. registry[i].name = n BY <1>2 DEF Finds
    <3>8. T(registry) = T(registry') \cup Texts(n)
      BY <2>1, <2>2, <3>4, <3>5, <3>7
    <3>9. T(registry') \cap Texts(n) = {} BY <2>2, <3>3, <3>6
    <3>10. Texts(n) \cap ({ContextBlock} \cup Arrays(capacity) \cup Graphs(graph)) = {}
      BY TextsApart DEF Texts, Arrays, Graphs
    <3>11. Graphs(graph) \cap ({ContextBlock} \cup Arrays(capacity) \cup T(registry')) = {}
      BY TextsApart DEF Texts, Arrays, Graphs
    <3> HIDE DEF T
    <3>12. heap' = {ContextBlock} \cup Arrays(capacity) \cup T(registry')
      BY <1>2, <3>1, <3>2, <3>8, <3>9, <3>10, <3>11
    <3>13. Graphs(graph') = {} BY <1>2 DEF Graphs
    <3> QED BY <1>2, <3>12, <3>13 DEF HeapExact, Owned, T
  <2>7. ViewLives' /\ RefusedOnlyWhenFull'
    BY <1>2 DEF ViewLives, RefusedOnlyWhenFull, Reply
  <2> QED BY <2>3, <2>4, <2>5, <2>6, <2>7 DEF IInv
<1> QED BY <1>1, <1>2 DEF Unregister

\* InspectGraph keeps the invariant.
LEMMA InspectGraphInv == ASSUME IInv, InspectGraph PROVE IInv'
<1> DEFINE T == UNION {Texts(registry[i].name) : i \in 1..Len(registry)}
<1>1. alive /\ heap = {ContextBlock} \cup Arrays(capacity) \cup Graphs(graph) \cup T
  BY DEF InspectGraph, IInv, HeapExact, Owned
<1>2. GraphBlock \notin {ContextBlock} \cup Arrays(capacity) \cup T
  BY TextsApart DEF Arrays, Texts
<1>3. UNCHANGED <<alive, registry, capacity>> BY DEF InspectGraph
<1>4. TypeOK' /\ WithinCapacity' /\ NamesUnique'
  BY <1>1, <1>3 DEF IInv, TypeOK, WithinCapacity, NamesUnique
<1>5. RefusedOnlyWhenFull' BY DEF InspectGraph, RefusedOnlyWhenFull, Reply
<1>6. {GraphRows(registry)} # NoGraph BY DEF NoGraph
<1>7. CASE graph' = {GraphRows(registry)} /\ heap' = heap \cup {GraphBlock} /\ view' = graph'
  <2> HIDE DEF T
  <2>1. heap' = {ContextBlock} \cup Arrays(capacity') \cup Graphs(graph') \cup T
    BY <1>1, <1>3, <1>6, <1>7 DEF Graphs
  <2>2. HeapExact' BY <1>1, <1>3, <2>1 DEF HeapExact, Owned, T
  <2>3. ViewLives' BY <1>7 DEF ViewLives
  <2> QED BY <1>4, <1>5, <2>2, <2>3 DEF IInv
<1>8. CASE graph' = NoGraph /\ heap' = heap \ Graphs(graph) /\ view' = NoGraph
  <2> HIDE DEF T
  <2>1. heap' = {ContextBlock} \cup Arrays(capacity') \cup Graphs(graph') \cup T
    BY <1>1, <1>2, <1>3, <1>8 DEF Graphs
  <2>2. HeapExact' BY <1>1, <1>3, <2>1 DEF HeapExact, Owned, T
  <2>3. ViewLives' BY <1>8 DEF ViewLives
  <2> QED BY <1>4, <1>5, <2>2, <2>3 DEF IInv
<1> QED BY <1>7, <1>8 DEF InspectGraph

\* Destroy keeps the invariant.
LEMMA DestroyInv == ASSUME IInv, Destroy PROVE IInv'
<1> USE DEF Destroy
<1>1. heap' = {}
  <2>1. \A n : ClearRegistered(n, 1..Fields) = Texts(n) BY DEF ClearRegistered, Texts
  <2> QED BY <2>1 DEF IInv, HeapExact, Owned
<1>2. HeapExact' BY <1>1 DEF HeapExact, Owned
<1>3. TypeOK'
  <2>1. <<>> \in Seq(Entries) OBVIOUS
  <2>2. 0 \in 0..Limit BY RegistryAssumption
  <2> QED BY <2>1, <2>2, Zenon DEF TypeOK
<1>4. WithinCapacity' /\ NamesUnique' BY DEF WithinCapacity, NamesUnique
<1>5. ViewLives' /\ RefusedOnlyWhenFull' BY DEF ViewLives, RefusedOnlyWhenFull, Reply
<1> QED BY <1>2, <1>3, <1>4, <1>5 DEF IInv

\* Execute keeps the invariant.
LEMMA ExecuteInv == ASSUME IInv, NEW n, NEW dry, Execute(n, dry) PROVE IInv'
<1>1. Answer(n, dry) # Reply("register", "invalid", "capacity")
  BY DEF Answer, BuiltinAnswer, Reply
<1> QED BY <1>1, QuietInv DEF Execute
-----------------------------------------------------------------------------
(* The theorems *)

\* Every step keeps the invariant.
LEMMA NextInv == IInv /\ [Next]_vars => IInv'
<1> SUFFICES ASSUME IInv, [Next]_vars PROVE IInv' OBVIOUS
<1>1. CASE Create BY <1>1, CreateInv
<1>2. ASSUME NEW n, NEW e \in Effects \cup {NoEffects, BadText},
             NEW h \in Handlers \cup {NoHandler}, RegisterV1(n, e, h)
      PROVE  IInv'
  <2> DEFINE x == IF e = NoEffects THEN DefaultEffects ELSE e
  <2>1. x \in Effects \cup {DefaultEffects, BadText} OBVIOUS
  <2>2. RegisterInternal(n, Meta(x, LegacyFacts), h) BY <1>2 DEF RegisterV1
  <2> HIDE DEF x
  <2> QED BY <2>1, <2>2, RegisterInternalInv
<1>3. ASSUME NEW n, NEW e \in Effects \cup {NoEffects, BadText}, NEW f \in Facts \cup {BadText},
             NEW h \in Handlers \cup {NoHandler}, RegisterV2(n, e, f, h)
      PROVE  IInv'
  <2> DEFINE x == IF e = NoEffects THEN BadText ELSE e
  <2>1. x \in Effects \cup {DefaultEffects, BadText} OBVIOUS
  <2>2. RegisterInternal(n, Meta(x, f), h) BY <1>3 DEF RegisterV2
  <2> HIDE DEF x
  <2> QED BY <2>1, <2>2, RegisterInternalInv
<1>4. CASE InspectGraph BY <1>4, InspectGraphInv
<1>5. CASE Destroy BY <1>5, DestroyInv
<1>6. CASE RejectArguments BY <1>6, QuietInv DEF RejectArguments, Reply
<1>7. CASE UNCHANGED vars
  BY <1>7 DEF vars, IInv, TypeOK, WithinCapacity, NamesUnique, HeapExact, Owned,
              ViewLives, RefusedOnlyWhenFull
<1> QED BY <1>1, <1>2, <1>3, <1>4, <1>5, <1>6, <1>7, UnregisterInv, ExecuteInv DEF Next

\* IInv holds in every state of a context, for any budget and entry size.
THEOREM Invariance == Spec => []IInv
BY InitInv, NextInv, PTL DEF Spec

\* The variables have their types, and nothing outlives the context.
THEOREM TypeCorrect == Spec => []TypeOK
<1>1. IInv => TypeOK BY DEF IInv
<1> QED BY <1>1, Invariance, PTL

\* No call leaks a block or frees one that is still in use, whichever of its
\* allocations fail.
THEOREM MemoryExact == Spec => []HeapExact
<1>1. IInv => HeapExact BY DEF IInv
<1> QED BY <1>1, Invariance, PTL

\* The entries never run past the end of their array.
THEOREM ArrayBounds == Spec => []WithinCapacity
<1>1. IInv => WithinCapacity BY DEF IInv
<1> QED BY <1>1, Invariance, PTL

\* A name is registered at most once.
THEOREM UniqueNames == Spec => []NamesUnique
<1>1. IInv => NamesUnique BY DEF IInv
<1> QED BY <1>1, Invariance, PTL

\* The graph text lives as long as the documented rule lets a caller read it.
THEOREM ViewLifetime == Spec => []ViewLives
<1>1. IInv => ViewLives BY DEF IInv
<1> QED BY <1>1, Invariance, PTL

\* Room is refused only when the storage budget is used up.
THEOREM BudgetUsedUp == Spec => []RefusedOnlyWhenFull
<1>1. IInv => RefusedOnlyWhenFull BY DEF IInv
<1> QED BY <1>1, Invariance, PTL
-----------------------------------------------------------------------------
(* The graph *)

\* The graph that the caller may still read is the one of the registry as it is.
ViewTrue == view \subseteq {GraphRows(registry)}

\* Every step that changes the registry ends the caller's right to the old graph.
LEMMA ViewTrueStep == ViewTrue /\ [Next]_vars => ViewTrue'
<1> SUFFICES ASSUME ViewTrue, [Next]_vars PROVE ViewTrue' OBVIOUS
<1>1. CASE UNCHANGED <<registry, view>> BY <1>1 DEF ViewTrue
<1>2. CASE view' = NoGraph BY <1>2 DEF ViewTrue, NoGraph
<1>3. ASSUME NEW n, NEW m, NEW h, RegisterInternal(n, m, h) PROVE ViewTrue'
  <2>1. view' = NoGraph \/ UNCHANGED <<registry, view>>
    BY <1>3 DEF RegisterInternal, GrowthFails, CopyFails, Registers
  <2> QED BY <1>1, <1>2, <2>1
<1>4. ASSUME NEW n, Unregister(n) PROVE ViewTrue'
  BY <1>1, <1>2, <1>4 DEF Unregister
<1>5. CASE InspectGraph
  <2>1. registry' = registry /\ (view' = NoGraph \/ view' = {GraphRows(registry)})
    BY <1>5 DEF InspectGraph
  <2> QED BY <1>2, <2>1 DEF ViewTrue
<1>6. CASE Create \/ RejectArguments BY <1>1, <1>6 DEF Create, RejectArguments
<1>7. ASSUME NEW n, NEW dry, Execute(n, dry) PROVE ViewTrue'
  BY <1>1, <1>7 DEF Execute
<1>8. CASE Destroy BY <1>2, <1>8 DEF Destroy
<1>9. CASE UNCHANGED vars BY <1>1, <1>9 DEF vars
<1> QED BY <1>3, <1>4, <1>5, <1>6, <1>7, <1>8, <1>9 DEF Next, RegisterV1, RegisterV2

\* The additional entries are numbered without gaps: row numbers are distinct,
\* and every number up to their count is taken.
LEMMA RowNumbers ==
    ASSUME NEW reg, Len(reg) \in Nat
    PROVE  /\ Cardinality(Additional(reg)) \in Nat
           /\ \A j \in Additional(reg) : RowNumber(reg, j) \in
                 (Len(BuiltinSeq) + 1)..(Len(BuiltinSeq) + Cardinality(Additional(reg)))
           /\ \A j, k \in Additional(reg) : RowNumber(reg, j) = RowNumber(reg, k) => j = k
           /\ \A i \in (Len(BuiltinSeq) + 1)..(Len(BuiltinSeq) + Cardinality(Additional(reg))) :
                 \E j \in Additional(reg) : RowNumber(reg, j) = i
<1> DEFINE A == Additional(reg)
           c == Cardinality(A)
           Upto(j) == {k \in A : k <= j}
           P == [j \in A |-> Cardinality(Upto(j))]
<1>1. A \in SUBSET (1..Len(reg)) /\ A \subseteq Nat BY DEF Additional
<1>2. IsFiniteSet(A) /\ c \in Nat
  <2>1. IsFiniteSet(1..Len(reg)) BY FS_Interval
  <2> HIDE DEF A
  <2> QED BY <1>1, <2>1, FS_Subset, FS_CardinalityType
<1> HIDE DEF A
<1>3. \A j : IsFiniteSet(Upto(j)) /\ Cardinality(Upto(j)) \in 0..c
  <2> TAKE j
  <2>1. Upto(j) \in SUBSET A OBVIOUS
  <2> HIDE DEF Upto
  <2>2. IsFiniteSet(Upto(j)) /\ Cardinality(Upto(j)) <= c BY <1>2, <2>1, FS_Subset
  <2>3. Cardinality(Upto(j)) \in Nat BY <2>2, FS_CardinalityType
  <2> QED BY <1>2, <2>2, <2>3
<1>4. \A j \in A : Cardinality(Upto(j)) \in 1..c
  <2> TAKE j \in A
  <2>1. j \in Upto(j) BY <1>1
  <2>2. Cardinality(Upto(j)) # 0
    <3> HIDE DEF Upto
    <3> QED BY <1>3, <2>1, FS_EmptySet
  <2>3. Cardinality(Upto(j)) \in 0..c BY <1>3
  <2> HIDE DEF Upto
  <2> QED BY <1>2, <2>2, <2>3
<1>5. ASSUME NEW j \in A, NEW k \in A, j < k
      PROVE  Cardinality(Upto(j)) # Cardinality(Upto(k))
  <2>0. \A x \in A : x <= j => x <= k
    <3> TAKE x \in A
    <3>1. x \in Nat /\ j \in Nat /\ k \in Nat BY <1>1
    <3> QED BY <1>5, <3>1
  <2>1. Upto(j) \in SUBSET Upto(k) BY <2>0
  <2>2. k \in Upto(k) /\ k \notin Upto(j) BY <1>1, <1>5
  <2>3. IsFiniteSet(Upto(k)) BY <1>3
  <2> HIDE DEF Upto
  <2> QED BY <2>1, <2>2, <2>3, FS_Subset
<1>6. \A j, k \in A : Cardinality(Upto(j)) = Cardinality(Upto(k)) => j = k
  <2> SUFFICES ASSUME NEW j \in A, NEW k \in A, j # k
               PROVE  Cardinality(Upto(j)) # Cardinality(Upto(k))
    OBVIOUS
  <2>1. j < k \/ k < j BY <1>1
  <2> QED BY <1>5, <2>1
<1> HIDE DEF Upto
<1>7. \A i \in 1..c : \E j \in A : Cardinality(Upto(j)) = i
  <2> DEFINE I == {P[j] : j \in A}
  <2>1. P \in [A -> 1..c] BY <1>4
  <2>2. P \in Bijection(A, I)
    <3>1. P \in [A -> I] OBVIOUS
    <3>2. \A j, k \in A : P[j] = P[k] => j = k BY <1>6
    <3>3. \A y \in I : \E j \in A : P[j] = y OBVIOUS
    <3> HIDE DEF P, I
    <3> QED BY <3>1, <3>2, <3>3 DEF Bijection, Injection, Surjection, IsInjective
  <2>3. I \in SUBSET (1..c) BY <2>1
  <2>4. IsFiniteSet(1..c) /\ Cardinality(1..c) = c BY <1>2, FS_Interval
  <2> HIDE DEF I, c
  <2>5. ExistsBijection(A, I) BY <2>2 DEF ExistsBijection
  <2>6. Cardinality(I) = Cardinality(A) BY <1>2, <2>5, FS_Bijection
  <2>7. I = 1..c BY <2>3, <2>4, <2>6, FS_Subset DEF c
  <2> QED BY <2>7 DEF I
<1>8. \A j : RowNumber(reg, j) = Len(BuiltinSeq) + Cardinality(Upto(j))
  BY DEF RowNumber, Upto, A
<1>9. Len(BuiltinSeq) \in Nat BY RegistryAssumption
<1>10. \A j \in A : RowNumber(reg, j) \in (Len(BuiltinSeq) + 1)..(Len(BuiltinSeq) + c)
  BY <1>2, <1>4, <1>8, <1>9
<1>11. \A j, k \in A : RowNumber(reg, j) = RowNumber(reg, k) => j = k
  <2> TAKE j, k \in A
  <2>1. Cardinality(Upto(j)) \in 1..c /\ Cardinality(Upto(k)) \in 1..c BY <1>4
  <2> QED BY <1>6, <1>8, <1>9, <2>1
<1>12. ASSUME NEW i \in (Len(BuiltinSeq) + 1)..(Len(BuiltinSeq) + c)
       PROVE  \E j \in A : RowNumber(reg, j) = i
  <2>1. i - Len(BuiltinSeq) \in 1..c BY <1>2, <1>9
  <2>2. PICK j \in A : Cardinality(Upto(j)) = i - Len(BuiltinSeq) BY <1>7, <2>1
  <2> QED BY <1>8, <1>9, <2>2
<1> QED BY <1>2, <1>10, <1>11, <1>12 DEF A

\* The lookup of a registered name finds its one entry.
LEMMA FoundEntry ==
    ASSUME IInv, NEW j \in 1..Len(registry)
    PROVE  FindRegistered(registry, registry[j].name) = registry[j]
<1> DEFINE n == registry[j].name
<1>1. Len(registry) \in Nat BY DEF IInv, TypeOK
<1>2. Finds(registry, n, j) BY <1>1 DEF Finds, IInv, NamesUnique
<1>3. \A i \in 1..Len(registry) : Finds(registry, n, i) => i = j
  BY DEF Finds, IInv, NamesUnique
<1> HIDE DEF n
<1>4. (CHOOSE i \in 1..Len(registry) : Finds(registry, n, i)) = j BY <1>2, <1>3
<1>5. FindRegistered(registry, n) = registry[j] BY <1>4 DEF FindRegistered
<1> QED BY <1>5 DEF n

\* What the rows of the graph are: the built-in commands with their overrides in
\* front, and behind them every additional entry once.
LEMMA GraphShape ==
    ASSUME IInv
    PROVE  LET b == Len(BuiltinSeq)
               g == GraphRows(registry)
           IN  /\ \A i \in DOMAIN g :
                     \/ i \in 1..b /\ g[i] = BuiltinRow(registry, BuiltinSeq[i])
                     \/ \E j \in Additional(registry) :
                           i = RowNumber(registry, j) /\ i > b /\ g[i] = RowOf(registry[j])
               /\ 1..b \subseteq DOMAIN g
               /\ \A j \in Additional(registry) : RowNumber(registry, j) \in DOMAIN g
<1> DEFINE b == Len(BuiltinSeq)
           g == GraphRows(registry)
           c == Cardinality(Additional(registry))
<1>1. Len(registry) \in Nat /\ b \in Nat BY RegistryAssumption DEF IInv, TypeOK
<1>2. /\ c \in Nat
      /\ \A j \in Additional(registry) : RowNumber(registry, j) \in (b + 1)..(b + c)
      /\ \A i \in (b + 1)..(b + c) : \E j \in Additional(registry) : RowNumber(registry, j) = i
  BY <1>1, RowNumbers
<1> HIDE DEF c
<1>3. DOMAIN g = 1..(b + c) BY DEF GraphRows, c
<1>4. ASSUME NEW i \in 1..(b + c), ~(i \in 1..b)
      PROVE  \E j \in Additional(registry) :
                i = RowNumber(registry, j) /\ i > b /\ g[i] = RowOf(registry[j])
  <2>1. i \in (b + 1)..(b + c) /\ ~(i <= b) BY <1>1, <1>2, <1>4
  <2>2. \E j \in Additional(registry) : RowNumber(registry, j) = i BY <1>2, <2>1
  <2> DEFINE j0 == CHOOSE j \in Additional(registry) : RowNumber(registry, j) = i
  <2>3. j0 \in Additional(registry) /\ RowNumber(registry, j0) = i BY <2>2
  <2>4. g[i] = RowOf(registry[j0]) BY <1>4, <2>1 DEF GraphRows, c
  <2> HIDE DEF j0, g
  <2> QED BY <1>1, <2>1, <2>3, <2>4
<1>5. \A i \in 1..b : g[i] = BuiltinRow(registry, BuiltinSeq[i])
  <2> TAKE i \in 1..b
  <2>1. i \in 1..(b + c) /\ i <= b BY <1>1, <1>2
  <2> QED BY <2>1 DEF GraphRows, c
<1>6. 1..b \subseteq DOMAIN g BY <1>1, <1>2, <1>3
<1>7. \A j \in Additional(registry) : RowNumber(registry, j) \in DOMAIN g
  BY <1>1, <1>2, <1>3
<1> HIDE DEF g
<1> QED BY <1>3, <1>4, <1>5, <1>6, <1>7 DEF g

\* A graph of the present registry lists every command as it is answered.
LEMMA ParityFromGraph ==
    ASSUME IInv, ViewTrue
    PROVE  GraphParity
<1> SUFFICES ASSUME NEW n \in Names \cup Malformed, NEW dry \in BOOLEAN,
                    NEW text \in view
             PROVE  LET rows   == {i \in DOMAIN text : text[i].name = n}
                        answer == Answer(n, dry)
                    IN  /\ Cardinality(rows) = IF answer.status = "unsupported" THEN 0 ELSE 1
                        /\ \A i \in rows :
                              IF answer.status = "handler"
                              THEN /\ text[i].by = "registered"
                                   /\ \E j \in 1..Len(registry) :
                                         registry[j] = Entry(n, text[i].meta, answer.detail)
                              ELSE text[i].by = "builtin" /\ text[i].meta = BuiltinMeta
  BY DEF GraphParity
<1> DEFINE b == Len(BuiltinSeq)
           rows == {i \in DOMAIN text : text[i].name = n}
           answer == Answer(n, dry)
<1>1. text = GraphRows(registry) BY DEF ViewTrue
<1>2. /\ \A i \in DOMAIN text :
            \/ i \in 1..b /\ text[i] = BuiltinRow(registry, BuiltinSeq[i])
            \/ \E j \in Additional(registry) :
                  i = RowNumber(registry, j) /\ i > b /\ text[i] = RowOf(registry[j])
      /\ 1..b \subseteq DOMAIN text
      /\ \A j \in Additional(registry) : RowNumber(registry, j) \in DOMAIN text
  BY <1>1, GraphShape
<1>3. b \in Nat /\ Len(registry) \in Nat BY RegistryAssumption DEF IInv, TypeOK
<1>4. \A j \in Additional(registry) : j \in 1..Len(registry) /\ registry[j].name \notin Builtins
  BY DEF Additional
<1>5. \A i \in 1..b : BuiltinSeq[i] \in Builtins BY DEF Builtins
<1>6. \A j \in 1..Len(registry) : FindRegistered(registry, registry[j].name) = registry[j]
  BY FoundEntry
<1>7. \A j \in 1..Len(registry) :
          registry[j] = Entry(registry[j].name, registry[j].meta, registry[j].handler)
  <2> TAKE j \in 1..Len(registry)
  <2>1. registry[j] \in Entries BY <1>3 DEF IInv, TypeOK
  <2> QED BY <2>1 DEF Entries, Entry
<1>8. \A m : BuiltinRow(registry, m).name = m
  BY <1>6 DEF BuiltinRow, IsRegistered, RowOf
<1>9. \A i \in 1..b : text[i] = BuiltinRow(registry, BuiltinSeq[i])
  <2> TAKE i \in 1..b
  <2>1. i \in DOMAIN text /\ ~(i > b) BY <1>2, <1>3
  <2> QED BY <1>2, <2>1
<1>10. \A j \in Additional(registry) :
          /\ text[RowNumber(registry, j)] = RowOf(registry[j])
          /\ RowNumber(registry, j) \notin 1..b
  <2> TAKE j \in Additional(registry)
  <2>1. RowNumber(registry, j) \in (b + 1)..(b + Cardinality(Additional(registry)))
    BY <1>3, RowNumbers
  <2>2. RowNumber(registry, j) \notin 1..b BY <1>3, <2>1, RowNumbers
  <2>3. PICK k \in Additional(registry) :
            /\ RowNumber(registry, j) = RowNumber(registry, k)
            /\ text[RowNumber(registry, j)] = RowOf(registry[k])
    BY <1>2, <2>2
  <2>4. j = k BY <1>3, <2>3, RowNumbers
  <2> QED BY <2>2, <2>3, <2>4
<1>11. CASE IsRegistered(registry, n)
  <2>1. PICK j \in 1..Len(registry) : registry[j].name = n BY <1>11 DEF IsRegistered
  <2>2. FindRegistered(registry, n) = registry[j] BY <1>6, <2>1
  <2>3. answer.status = "handler" /\ answer.detail = registry[j].handler
    BY <1>11, <2>2 DEF Answer, Reply
  <2>4. \A i \in rows : text[i] = RowOf(registry[j])
    <3> SUFFICES ASSUME NEW i \in DOMAIN text, text[i].name = n
                 PROVE  text[i] = RowOf(registry[j])
      OBVIOUS
    <3>1. CASE i \in 1..b /\ text[i] = BuiltinRow(registry, BuiltinSeq[i])
      <4>1. BuiltinSeq[i] = n BY <1>8, <3>1
      <4> QED BY <1>11, <2>2, <3>1, <4>1 DEF BuiltinRow
    <3>2. ASSUME NEW k \in Additional(registry), text[i] = RowOf(registry[k])
          PROVE  text[i] = RowOf(registry[j])
      <4>1. registry[k].name = n BY <3>2 DEF RowOf
      <4>2. registry[k] = registry[j] BY <1>4, <1>6, <2>2, <4>1
      <4> QED BY <3>2, <4>2
    <3> QED BY <1>2, <3>1, <3>2
  <2>5. \E i0 : rows = {i0}
    <3>1. CASE n \in Builtins
      <4>1. PICK i0 \in 1..b : BuiltinSeq[i0] = n BY <3>1 DEF Builtins
      <4>2. i0 \in rows BY <1>2, <1>8, <1>9, <4>1
      <4>3. \A i \in rows : i = i0
        <5> SUFFICES ASSUME NEW i \in DOMAIN text, text[i].name = n PROVE i = i0
          OBVIOUS
        <5>1. CASE i \in 1..b /\ text[i] = BuiltinRow(registry, BuiltinSeq[i])
          <6>1. BuiltinSeq[i] = BuiltinSeq[i0] BY <1>8, <4>1, <5>1
          <6> QED BY <5>1, <6>1, RegistryAssumption
        <5>2. ASSUME NEW k \in Additional(registry), text[i] = RowOf(registry[k])
              PROVE  FALSE
          BY <1>4, <3>1, <5>2 DEF RowOf
        <5> QED BY <1>2, <5>1, <5>2
      <4> HIDE DEF rows
      <4>4. rows = {i0} BY <4>2, <4>3
      <4> QED BY <4>4
    <3>2. CASE n \notin Builtins
      <4>1. j \in Additional(registry) BY <2>1, <3>2 DEF Additional
      <4> DEFINE i0 == RowNumber(registry, j)
      <4>5. i0 \in DOMAIN text /\ text[i0] = RowOf(registry[j]) BY <1>2, <1>10, <4>1
      <4>6. text[i0].name = n BY <2>1, <4>5 DEF RowOf
      <4>2. i0 \in rows BY <4>5, <4>6
      <4>3. \A i \in rows : i = i0
        <5> SUFFICES ASSUME NEW i \in DOMAIN text, text[i].name = n PROVE i = i0
          OBVIOUS
        <5>1. CASE i \in 1..b /\ text[i] = BuiltinRow(registry, BuiltinSeq[i])
          <6>1. BuiltinSeq[i] = n BY <1>8, <5>1
          <6> QED BY <1>5, <3>2, <5>1, <6>1
        <5>2. ASSUME NEW k \in Additional(registry), i = RowNumber(registry, k),
                     text[i] = RowOf(registry[k])
              PROVE  i = i0
          <6>1. registry[k].name = registry[j].name BY <2>1, <5>2 DEF RowOf
          <6>2. k = j BY <1>4, <6>1 DEF IInv, NamesUnique
          <6> QED BY <5>2, <6>2
        <5> HIDE DEF i0
        <5> QED BY <1>2, <5>1, <5>2
      <4> HIDE DEF rows, i0
      <4>4. rows = {i0} BY <4>2, <4>3
      <4> QED BY <4>4
    <3> QED BY <3>1, <3>2
  <2>6. Cardinality(rows) = 1
    <3> HIDE DEF rows
    <3> QED BY <2>5, FS_Singleton
  <2>7. \A i \in rows : /\ text[i].by = "registered"
                        /\ registry[j] = Entry(n, text[i].meta, answer.detail)
    BY <1>7, <2>1, <2>3, <2>4 DEF RowOf
  <2> HIDE DEF rows, answer
  <2> QED BY <2>3, <2>6, <2>7 DEF rows, answer
<1>12. CASE ~IsRegistered(registry, n)
  <2>1. answer = BuiltinAnswer(n, dry) BY <1>12 DEF Answer
  <2>2. \A k \in 1..Len(registry) : registry[k].name # n BY <1>12 DEF IsRegistered
  <2>3. \A i \in rows : i \in 1..b /\ BuiltinSeq[i] = n
    <3> SUFFICES ASSUME NEW i \in DOMAIN text, text[i].name = n
                 PROVE  i \in 1..b /\ BuiltinSeq[i] = n
      OBVIOUS
    <3>1. CASE i \in 1..b /\ text[i] = BuiltinRow(registry, BuiltinSeq[i])
      BY <1>8, <3>1
    <3>2. ASSUME NEW k \in Additional(registry), text[i] = RowOf(registry[k])
          PROVE  FALSE
      BY <1>4, <2>2, <3>2 DEF RowOf
    <3> QED BY <1>2, <3>1, <3>2
  <2>4. \A i \in rows : text[i].by = "builtin" /\ text[i].meta = BuiltinMeta
    <3>1. BuiltinRow(registry, n) = [name |-> n, meta |-> BuiltinMeta, by |-> "builtin"]
      BY <1>12 DEF BuiltinRow
    <3>2. \A i \in rows : text[i] = BuiltinRow(registry, n)
      <4> HIDE DEF rows
      <4> QED BY <1>9, <2>3
    <3> HIDE DEF rows
    <3> QED BY <3>1, <3>2
  <2>5. CASE n \in Builtins
    <3>1. PICK i0 \in 1..b : BuiltinSeq[i0] = n BY <2>5 DEF Builtins
    <3>2. i0 \in rows BY <1>2, <1>8, <1>9, <3>1
    <3>3. \A i \in rows : i = i0 BY <2>3, <3>1, RegistryAssumption
    <3>4. answer.status \in {"ok", "error"} BY <2>1, <2>5 DEF BuiltinAnswer, Reply
    <3> HIDE DEF rows, answer
    <3>5. rows = {i0} BY <3>2, <3>3
    <3>6. Cardinality(rows) = 1 BY <3>5, FS_Singleton
    <3> QED BY <2>4, <3>4, <3>6 DEF rows, answer
  <2>6. CASE n \notin Builtins
    <3>1. \A i \in rows : FALSE BY <1>5, <2>3, <2>6
    <3>2. answer.status = "unsupported" BY <2>1, <2>6 DEF BuiltinAnswer, Reply
    <3> HIDE DEF rows, answer
    <3>3. rows = {} BY <3>1
    <3>4. Cardinality(rows) = 0 BY <3>3, FS_EmptySet
    <3> QED BY <3>1, <3>2, <3>4 DEF rows, answer
  <2> QED BY <2>5, <2>6
<1> QED BY <1>11, <1>12

\* The graph that a caller may read tells, for every command, whether and by
\* whom it is answered, and with which metadata.
THEOREM GraphTellsTruth == Spec => []GraphParity
<1>1. Init => ViewTrue BY DEF Init, ViewTrue, NoGraph
<1>2. IInv /\ ViewTrue => GraphParity BY ParityFromGraph
<1> QED BY <1>1, <1>2, ViewTrueStep, Invariance, PTL DEF Spec

-----------------------------------------------------------------------------
(* Calls of many steps *)

\* The capacity and the heap once the array has room.
Grown     == IF NeedsArray(registry, capacity) THEN NewCapacity(capacity) ELSE capacity
GrownHeap == (heap \ Arrays(capacity)) \cup Arrays(Grown)

\* The strings of the entries before the k-th.
ClearedBefore(k) == UNION {ClearRegistered(registry[i].name, 1..Fields) : i \in 1..(k - 1)}

\* What the call in progress has done to the memory that the last call to
\* return left behind.
InCall ==
    /\ op.at \in {"idle", "find", "check", "grow", "search", "replace"} =>
          mem = Memory(registry, capacity, graph, heap)
    /\ op.at = "copy" =>
          /\ op.next \in 1..(Fields + 1) /\ op.copied \in SUBSET (1..Fields)
          /\ mem = Memory(registry, Grown, graph,
                          GrownHeap \cup {TextBlock(op.name, i) : i \in op.copied})
    /\ op.at = "registered" =>
          mem = Memory(Append(registry, Entry(op.name, op.meta, op.handler)), Grown, graph,
                       GrownHeap \cup Texts(op.name))
    /\ op.at = "removed" =>
          \E i \in 1..Len(registry) :
             /\ Finds(registry, op.name, i)
             /\ mem = Memory(Shifted(registry, i), capacity, graph,
                             heap \ ClearRegistered(op.name, 1..Fields))
    /\ op.at = "build" =>
          mem = Memory(registry, capacity, NoGraph, heap \ Graphs(graph))
    /\ op.at = "destroy" =>
          /\ op.next \in 1..(Len(registry) + 1)
          /\ mem = Memory(registry, capacity, NoGraph,
                          (heap \ Graphs(graph)) \ ClearedBefore(op.next))

\* What the call in progress was given and has found out.
Given ==
    /\ op = [at |-> op.at, name |-> op.name, meta |-> op.meta, handler |-> op.handler,
             dry |-> op.dry, from |-> op.from, next |-> op.next, copied |-> op.copied]
    /\ op.from \in Sources
    /\ op.at # "idle" => alive
    /\ op.at \in {"find", "replace", "build"} =>
          op.name \in Names \cup Malformed /\ op.dry \in BOOLEAN
    /\ op.at \in {"replace", "build"} => ~IsRegistered(registry, Inspect)
    /\ op.at \in {"check", "grow", "copy", "registered"} =>
          /\ op.name \in Bindable \cup Malformed \cup {Inspect}
          /\ op.handler \in Handlers \cup {NoHandler}
          /\ \E e \in Effects \cup {NoEffects, BadText} : op.meta \in Described(e)
    /\ op.at \in {"check", "grow"} => op.copied = {}
    /\ op.at \in {"grow", "copy", "registered"} =>
          Acceptable(registry, op.name, op.meta, op.handler)
    /\ op.at \in {"copy", "registered"} => GrowthPossible(registry, capacity)
    /\ op.at \in {"search", "removed"} => op.name \in Bindable \cup Malformed
    /\ op.at = "removed" => op.name \in Names

CallsInv == IInv /\ InCall /\ Given

\* A call that returns leaves the memory to the caller as it is.
LEMMA AfterReturn ==
    ASSUME mem' = Memory(registry', capacity', graph', heap'), op' = Idle
    PROVE  InCall' /\ Given'
<1>1. op'.at = "idle" /\ op'.from = NoGraph BY DEF Idle, Call
<1>2. InCall' BY <1>1 DEF InCall
<1>3. (op = [at |-> op.at, name |-> op.name, meta |-> op.meta, handler |-> op.handler,
             dry |-> op.dry, from |-> op.from, next |-> op.next, copied |-> op.copied])'
  BY DEF Idle, Call
<1>4. op'.from \in Sources' BY <1>1 DEF Sources
<1> QED BY <1>1, <1>2, <1>3, <1>4 DEF Given

\* What Returns leaves, for a memory whose fields are known.
LEMMA ReturnFields ==
    ASSUME NEW reg, NEW c, NEW g, NEW hp, NEW answer, NEW lent,
           mem' = Memory(reg, c, g, hp), Returns(answer, lent)
    PROVE  /\ registry' = reg /\ capacity' = c /\ graph' = g /\ heap' = hp
           /\ view' = lent /\ reply' = answer /\ alive' = alive
           /\ InCall' /\ Given'
<1>1. registry' = reg /\ capacity' = c /\ graph' = g /\ heap' = hp
  BY DEF Returns, Memory
<1>2. view' = lent /\ reply' = answer /\ alive' = alive /\ op' = Idle BY DEF Returns
<1> QED BY <1>1, <1>2, AfterReturn

\* A call that begins: nothing is changed yet.
LEMMA AfterStart ==
    ASSUME InCall, op.at = "idle", alive, UNCHANGED <<vars, mem>>,
           NEW at \in {"find", "check", "search"}, NEW n, NEW m, NEW h, NEW dry,
           NEW from \in Sources, op' = Call(at, n, m, h, dry, from),
           at = "find" => n \in Names \cup Malformed /\ dry \in BOOLEAN,
           at = "check" => /\ n \in Bindable \cup Malformed \cup {Inspect}
                           /\ h \in Handlers \cup {NoHandler}
                           /\ \E e \in Effects \cup {NoEffects, BadText} : m \in Described(e),
           at = "search" => n \in Bindable \cup Malformed
    PROVE  InCall' /\ Given'
<1>1. /\ op'.at = at /\ op'.name = n /\ op'.meta = m /\ op'.handler = h
      /\ op'.dry = dry /\ op'.from = from /\ op'.copied = {}
  BY DEF Call
<1>2. UNCHANGED <<alive, registry, capacity, graph, heap, view, reply>> BY DEF vars
<1>3. mem = Memory(registry, capacity, graph, heap) BY DEF InCall
<1>4. InCall' BY <1>1, <1>2, <1>3 DEF InCall
<1>5. (op = [at |-> op.at, name |-> op.name, meta |-> op.meta, handler |-> op.handler,
             dry |-> op.dry, from |-> op.from, next |-> op.next, copied |-> op.copied])'
  BY DEF Call
<1>6. op'.from \in Sources' BY <1>1, <1>2 DEF Sources
<1> QED BY <1>1, <1>2, <1>4, <1>5, <1>6 DEF Given

\* The fields of a call that goes on.
LEMMA ContinueFields ==
    ASSUME Given, NEW at, Continues(at)
    PROVE  /\ op' = [at |-> at, name |-> op.name, meta |-> op.meta, handler |-> op.handler,
                     dry |-> op.dry, from |-> op.from, next |-> 1, copied |-> op.copied]
           /\ UNCHANGED <<alive, registry, capacity, graph, heap, view, reply, client, stack>>
BY DEF Given, Continues, vars

\* The fields of a call in its next round.
LEMMA RoundFields ==
    ASSUME Given, NEW copied, NextRound(copied)
    PROVE  /\ op' = [at |-> op.at, name |-> op.name, meta |-> op.meta, handler |-> op.handler,
                     dry |-> op.dry, from |-> op.from, next |-> op.next + 1, copied |-> copied]
           /\ UNCHANGED <<alive, registry, capacity, graph, heap, view, reply, client, stack>>
BY DEF Given, NextRound, vars

\* Executing: found entries and built-in answers.
LEMMA ExecutionStep ==
    ASSUME CallsInv, HandlerStarts \/ HandlerReturns \/ BuiltinAnswers
                        \/ InvalidateForInspect \/ BuildGraph
    PROVE  [Next]_vars /\ InCall' /\ Given'
<1> USE DEF CallsInv
<1>1. CASE HandlerStarts
  <2>1. mem = Memory(registry, capacity, graph, heap) /\ mem' = mem
    BY <1>1 DEF HandlerStarts, InCall
  <2>2. mem.registry = registry BY <2>1 DEF Memory
  <2>3. PICK i \in 1..Len(registry) :
          /\ Finds(registry, op.name, i)
          /\ Returns(Reply(op.name, "handler", registry[i].handler), view)
    BY <1>1, <2>2 DEF HandlerStarts
  <2>4. /\ UNCHANGED <<alive, registry, capacity, graph, heap, view>>
        /\ reply' = Reply(op.name, "handler", registry[i].handler)
        /\ InCall' /\ Given'
    BY <2>1, <2>3, ReturnFields
  <2>5. alive /\ op.name \in Names \cup Malformed /\ op.dry \in BOOLEAN
    BY <1>1 DEF HandlerStarts, Given
  <2>6. IsRegistered(registry, op.name) BY <2>3 DEF IsRegistered, Finds
  <2>7. \A j \in 1..Len(registry) : Finds(registry, op.name, j) => j = i
    BY <2>3 DEF Finds, IInv, NamesUnique
  <2>8. FindRegistered(registry, op.name) = registry[i]
    BY <2>3, <2>7 DEF FindRegistered
  <2>9. Execute(op.name, op.dry)
    BY <2>4, <2>5, <2>6, <2>8 DEF Execute, Answer
  <2> QED BY <2>4, <2>5, <2>9 DEF Next
<1>2. CASE HandlerReturns
  <2>1. UNCHANGED <<vars, mem, op>> /\ op = Idle BY <1>2 DEF HandlerReturns
  <2>2. UNCHANGED <<alive, registry, capacity, graph, heap, view, reply>> BY <2>1 DEF vars
  <2>3. mem = Memory(registry, capacity, graph, heap) BY <2>1 DEF InCall, Idle, Call
  <2> QED BY <2>1, <2>2, <2>3, AfterReturn
<1>3. CASE BuiltinAnswers
  <2>1. mem = Memory(registry, capacity, graph, heap) /\ mem' = mem
    BY <1>3 DEF BuiltinAnswers, InCall
  <2>2. mem.registry = registry BY <2>1 DEF Memory
  <2>3. /\ alive /\ op.name \in Names \cup Malformed /\ op.dry \in BOOLEAN
        /\ ~IsRegistered(registry, op.name) /\ op.at = "find"
    BY <1>3, <2>2 DEF BuiltinAnswers, Given
  <2>4. CASE op.name = Inspect /\ Continues("replace")
    <3>1. /\ op' = [at |-> "replace", name |-> op.name, meta |-> op.meta,
                    handler |-> op.handler, dry |-> op.dry, from |-> op.from,
                    next |-> 1, copied |-> op.copied]
          /\ UNCHANGED <<alive, registry, capacity, graph, heap, view, reply>>
      BY <2>4, ContinueFields
    <3>2. InCall' BY <2>1, <3>1 DEF InCall
    <3>3. Given' BY <2>3, <2>4, <3>1 DEF Given, Sources
    <3> QED BY <3>1, <3>2, <3>3 DEF vars
  <2>5. CASE op.name # Inspect /\ Returns(BuiltinAnswer(op.name, op.dry), view)
    <3>1. /\ UNCHANGED <<alive, registry, capacity, graph, heap, view>>
          /\ reply' = BuiltinAnswer(op.name, op.dry) /\ InCall' /\ Given'
      BY <2>1, <2>5, ReturnFields
    <3>2. Execute(op.name, op.dry) BY <2>3, <2>5, <3>1 DEF Execute, Answer
    <3> QED BY <2>3, <3>1, <3>2 DEF Next
  <2> QED BY <1>3, <2>4, <2>5 DEF BuiltinAnswers
<1>4. CASE InvalidateForInspect
  <2>1. mem = Memory(registry, capacity, graph, heap)
    BY <1>4 DEF InvalidateForInspect, InCall
  <2>2. mem' = Memory(registry, capacity, NoGraph, heap \ Graphs(graph))
    BY <1>4, <2>1 DEF InvalidateForInspect, InvalidateGraph, Memory
  <2>3. /\ op' = [at |-> "build", name |-> op.name, meta |-> op.meta,
                  handler |-> op.handler, dry |-> op.dry, from |-> op.from,
                  next |-> 1, copied |-> op.copied]
        /\ UNCHANGED <<alive, registry, capacity, graph, heap, view, reply>>
    BY <1>4, ContinueFields DEF InvalidateForInspect
  <2>4. InCall' BY <2>2, <2>3 DEF InCall
  <2>5. Given' BY <1>4, <2>3 DEF Given, Sources, InvalidateForInspect
  <2> QED BY <2>3, <2>4, <2>5 DEF vars
<1>5. CASE BuildGraph
  <2>1. mem = Memory(registry, capacity, NoGraph, heap \ Graphs(graph))
    BY <1>5 DEF BuildGraph, InCall
  <2>2. alive /\ ~IsRegistered(registry, Inspect) BY <1>5 DEF BuildGraph, Given
  <2>3. mem.registry = registry BY <2>1 DEF Memory
  <2>4. CASE /\ mem' = [mem EXCEPT !.graph = {GraphRows(mem.registry)},
                                   !.heap = @ \cup {GraphBlock}]
             /\ Returns(Reply("inspect", "ok", "graph"), mem'.graph)
    <3>1. mem' = Memory(registry, capacity, {GraphRows(registry)},
                        (heap \ Graphs(graph)) \cup {GraphBlock})
      BY <2>1, <2>3, <2>4 DEF Memory
    <3>2. mem'.graph = {GraphRows(registry)} BY <3>1 DEF Memory
    <3>3. /\ UNCHANGED <<alive, registry, capacity>> /\ graph' = {GraphRows(registry)}
          /\ heap' = (heap \ Graphs(graph)) \cup {GraphBlock}
          /\ view' = {GraphRows(registry)} /\ reply' = Reply("inspect", "ok", "graph")
          /\ InCall' /\ Given'
      BY <2>4, <3>1, <3>2, ReturnFields
    <3>4. heap' = heap \cup {GraphBlock} BY <3>3 DEF Graphs
    <3>5. InspectGraph BY <2>2, <3>3, <3>4 DEF InspectGraph
    <3> QED BY <3>3, <3>5 DEF Next
  <2>5. CASE mem' = mem /\ Returns(Reply("inspect", "error", "projection"), NoGraph)
    <3>1. /\ UNCHANGED <<alive, registry, capacity>> /\ graph' = NoGraph
          /\ heap' = heap \ Graphs(graph)
          /\ view' = NoGraph /\ reply' = Reply("inspect", "error", "projection")
          /\ InCall' /\ Given'
      BY <2>1, <2>5, ReturnFields
    <3>2. InspectGraph BY <2>2, <3>1 DEF InspectGraph
    <3> QED BY <3>1, <3>2 DEF Next
  <2> QED BY <1>5, <2>4, <2>5 DEF BuildGraph
<1> QED BY <1>1, <1>2, <1>3, <1>4, <1>5

\* A registration that answers as a step of the registry.
LEMMA RegisterIsNext ==
    ASSUME NEW n \in Bindable \cup Malformed \cup {Inspect}, NEW m,
           NEW h \in Handlers \cup {NoHandler},
           \E e \in Effects \cup {NoEffects, BadText} : m \in Described(e),
           RegisterInternal(n, m, h)
    PROVE  Next
<1>1. PICK e \in Effects \cup {NoEffects, BadText} : m \in Described(e) OBVIOUS
<1>2. CASE m = Meta(IF e = NoEffects THEN DefaultEffects ELSE e, LegacyFacts)
  BY <1>2, Zenon DEF RegisterV1, Next
<1>3. ASSUME NEW f \in Facts \cup {BadText}, m = Meta(IF e = NoEffects THEN BadText ELSE e, f)
      PROVE  Next
  BY <1>3, Zenon DEF RegisterV2, Next
<1> QED BY <1>1, <1>2, <1>3 DEF Described

\* Registering, from the first check to the new entry.
LEMMA RegistrationStep ==
    ASSUME CallsInv, CheckDescriptor \/ CannotGrow \/ Grow \/ CopyText \/ DropCopies
                        \/ AppendEntry \/ InvalidateForRegister
    PROVE  [Next]_vars /\ InCall' /\ Given'
<1> USE DEF CallsInv
<1>1. /\ alive /\ op.name \in Bindable \cup Malformed \cup {Inspect}
      /\ op.handler \in Handlers \cup {NoHandler}
      /\ \E e \in Effects \cup {NoEffects, BadText} : op.meta \in Described(e)
  BY DEF Given, CheckDescriptor, CannotGrow, Grow, CopyText, DropCopies, AppendEntry,
         InvalidateForRegister
<1>2. RegisterInternal(op.name, op.meta, op.handler) => Next BY <1>1, RegisterIsNext
<1>3. CASE CheckDescriptor
  <2>1. mem = Memory(registry, capacity, graph, heap) /\ mem' = mem /\ op.at = "check"
    BY <1>3 DEF CheckDescriptor, InCall
  <2>2. mem.registry = registry BY <2>1 DEF Memory
  <2>3. CASE /\ ~Acceptable(registry, op.name, op.meta, op.handler)
             /\ Returns(Reply("register", "invalid", "descriptor"), view)
    <3>1. /\ UNCHANGED <<alive, registry, capacity, graph, heap, view>>
          /\ reply' = Reply("register", "invalid", "descriptor") /\ InCall' /\ Given'
      BY <2>1, <2>3, ReturnFields
    <3>2. RegisterInternal(op.name, op.meta, op.handler)
      BY <1>1, <2>3, <3>1 DEF RegisterInternal
    <3> QED BY <1>2, <3>1, <3>2
  <2>4. CASE Acceptable(registry, op.name, op.meta, op.handler) /\ Continues("grow")
    <3>1. /\ op' = [at |-> "grow", name |-> op.name, meta |-> op.meta,
                    handler |-> op.handler, dry |-> op.dry, from |-> op.from,
                    next |-> 1, copied |-> op.copied]
          /\ UNCHANGED <<alive, registry, capacity, graph, heap, view, reply>>
      BY <2>4, ContinueFields
    <3>2. InCall' BY <2>1, <3>1 DEF InCall
    <3>3. Given' BY <1>1, <2>1, <2>4, <3>1 DEF Given, Sources
    <3> QED BY <3>1, <3>2, <3>3 DEF vars
  <2> QED BY <1>3, <2>2, <2>3, <2>4 DEF CheckDescriptor
<1>4. CASE CannotGrow
  <2>1. mem = Memory(registry, capacity, graph, heap) /\ mem' = mem
    BY <1>4 DEF CannotGrow, InCall
  <2>2. mem.registry = registry /\ mem.capacity = capacity BY <2>1 DEF Memory
  <2>3. /\ NeedsArray(registry, capacity)
        /\ Returns(IF Affordable(registry, capacity)
                      THEN Reply("register", "error", "array")
                      ELSE Reply("register", "invalid", "capacity"), view)
    BY <1>4, <2>2 DEF CannotGrow
  <2>4. /\ UNCHANGED <<alive, registry, capacity, graph, heap, view>>
        /\ reply' = IF Affordable(registry, capacity)
                    THEN Reply("register", "error", "array")
                    ELSE Reply("register", "invalid", "capacity")
        /\ InCall' /\ Given'
    BY <2>1, <2>3, ReturnFields
  <2>5. GrowthFails BY <2>3, <2>4 DEF GrowthFails
  <2>6. Acceptable(registry, op.name, op.meta, op.handler) BY <1>4 DEF CannotGrow, Given
  <2>7. RegisterInternal(op.name, op.meta, op.handler)
    BY <1>1, <2>5, <2>6 DEF RegisterInternal
  <2> QED BY <1>2, <2>4, <2>7
<1>5. CASE Grow
  <2>1. mem = Memory(registry, capacity, graph, heap) BY <1>5 DEF Grow, InCall
  <2>2. mem.registry = registry /\ mem.capacity = capacity BY <2>1 DEF Memory
  <2>3. mem' = Memory(registry, Grown, graph, GrownHeap)
    BY <1>5, <2>1, <2>2 DEF Grow, Memory, Grown, GrownHeap
  <2>4. GrowthPossible(registry, capacity) BY <1>5, <2>2 DEF Grow
  <2>5. /\ op' = [at |-> "copy", name |-> op.name, meta |-> op.meta,
                  handler |-> op.handler, dry |-> op.dry, from |-> op.from,
                  next |-> 1, copied |-> op.copied]
        /\ UNCHANGED <<alive, registry, capacity, graph, heap, view, reply>>
    BY <1>5, ContinueFields DEF Grow
  <2>6. op.copied = {} BY <1>5 DEF Grow, Given
  <2>7. Grown' = Grown /\ GrownHeap' = GrownHeap BY <2>5 DEF Grown, GrownHeap
  <2>10. /\ op'.at = "copy" /\ op'.next = 1 /\ op'.copied = {} /\ op'.name = op.name
         /\ 1 \in 1..(Fields + 1)
    BY <2>5, <2>6, RegistryAssumption
  <2>11. mem' = Memory(registry', Grown', graph',
                       GrownHeap' \cup {TextBlock(op'.name, i) : i \in op'.copied})
    <3>1. GrownHeap \cup {TextBlock(op.name, i) : i \in {}} = GrownHeap OBVIOUS
    <3> QED BY <2>3, <2>5, <2>7, <2>10, <3>1
  <2>8. InCall' BY <2>10, <2>11 DEF InCall
  <2>9. Given' BY <1>1, <1>5, <2>4, <2>5 DEF Given, Sources, Grow
  <2> QED BY <2>5, <2>8, <2>9 DEF vars
<1>6. CASE CopyText
  <2>1. /\ op.at = "copy" /\ op.next \in 1..Fields /\ op.copied \in SUBSET (1..Fields)
        /\ mem = Memory(registry, Grown, graph,
                        GrownHeap \cup {TextBlock(op.name, i) : i \in op.copied})
    BY <1>6, RegistryAssumption DEF CopyText, InCall
  <2>2. PICK copied \in SUBSET (1..Fields) :
          /\ NextRound(copied)
          /\ mem' = Memory(registry, Grown, graph,
                           GrownHeap \cup {TextBlock(op.name, i) : i \in copied})
    <3>1. CASE UNCHANGED mem /\ NextRound(op.copied) BY <2>1, <3>1
    <3>2. CASE /\ mem' = [mem EXCEPT !.heap = @ \cup {TextBlock(op.name, op.next)}]
               /\ NextRound(op.copied \cup {op.next})
      <4>1. mem' = Memory(registry, Grown, graph,
                     (GrownHeap \cup {TextBlock(op.name, i) : i \in op.copied})
                        \cup {TextBlock(op.name, op.next)})
        BY <2>1, <3>2 DEF Memory
      <4>2. {TextBlock(op.name, i) : i \in op.copied \cup {op.next}}
              = {TextBlock(op.name, i) : i \in op.copied} \cup {TextBlock(op.name, op.next)}
        OBVIOUS
      <4>3. (GrownHeap \cup {TextBlock(op.name, i) : i \in op.copied})
                \cup {TextBlock(op.name, op.next)}
              = GrownHeap \cup {TextBlock(op.name, i) : i \in op.copied \cup {op.next}}
        BY <4>2
      <4>4. op.copied \cup {op.next} \in SUBSET (1..Fields) BY <2>1
      <4> QED BY <3>2, <4>1, <4>3, <4>4
    <3> QED BY <1>6, <3>1, <3>2 DEF CopyText
  <2>3. /\ op' = [at |-> op.at, name |-> op.name, meta |-> op.meta,
                  handler |-> op.handler, dry |-> op.dry, from |-> op.from,
                  next |-> op.next + 1, copied |-> copied]
        /\ UNCHANGED <<alive, registry, capacity, graph, heap, view, reply>>
    BY <2>2, RoundFields
  <2>4. Grown' = Grown /\ GrownHeap' = GrownHeap BY <2>3 DEF Grown, GrownHeap
  <2>5. op.next + 1 \in 1..(Fields + 1) BY <2>1, RegistryAssumption
  <2>6. InCall' BY <2>1, <2>2, <2>3, <2>4, <2>5 DEF InCall
  <2>7. Given' BY <1>1, <2>1, <2>3 DEF Given, Sources
  <2> QED BY <2>3, <2>6, <2>7 DEF vars
<1>7. CASE DropCopies
  <2>1. /\ op.at = "copy" /\ op.copied \in SUBSET (1..Fields) /\ op.copied # 1..Fields
        /\ mem = Memory(registry, Grown, graph,
                        GrownHeap \cup {TextBlock(op.name, i) : i \in op.copied})
    BY <1>7 DEF DropCopies, InCall
  <2>2. mem' = Memory(registry, Grown, graph,
                      (GrownHeap \cup {TextBlock(op.name, i) : i \in op.copied})
                         \ ClearRegistered(op.name, op.copied))
    BY <1>7, <2>1 DEF DropCopies, Memory
  <2>3. /\ UNCHANGED <<alive, registry, graph, view>> /\ capacity' = Grown
        /\ heap' = (GrownHeap \cup {TextBlock(op.name, i) : i \in op.copied})
                      \ ClearRegistered(op.name, op.copied)
        /\ reply' = Reply("register", "error", "copy") /\ InCall' /\ Given'
    BY <1>7, <2>2, ReturnFields DEF DropCopies
  <2>4. heap' = ((heap \ Arrays(capacity)) \cup Arrays(capacity')
                   \cup {TextBlock(op.name, i) : i \in op.copied})
                 \ ClearRegistered(op.name, op.copied)
    BY <2>3 DEF GrownHeap
  <2>5. CopyFails(op.name, op.meta, op.handler)
    BY <2>1, <2>3, <2>4 DEF CopyFails, Grown
  <2>6. /\ Acceptable(registry, op.name, op.meta, op.handler)
        /\ GrowthPossible(registry, capacity)
    BY <2>1 DEF Given
  <2>7. RegisterInternal(op.name, op.meta, op.handler)
    BY <1>1, <2>5, <2>6 DEF RegisterInternal
  <2> QED BY <1>2, <2>3, <2>7
<1>8. CASE AppendEntry
  <2>1. /\ op.at = "copy" /\ op.copied = 1..Fields
        /\ mem = Memory(registry, Grown, graph,
                        GrownHeap \cup {TextBlock(op.name, i) : i \in op.copied})
    BY <1>8 DEF AppendEntry, InCall
  <2>2. mem' = Memory(Append(registry, Entry(op.name, op.meta, op.handler)), Grown, graph,
                      GrownHeap \cup Texts(op.name))
    BY <1>8, <2>1 DEF AppendEntry, Memory, Texts
  <2>3. /\ op' = [at |-> "registered", name |-> op.name, meta |-> op.meta,
                  handler |-> op.handler, dry |-> op.dry, from |-> op.from,
                  next |-> 1, copied |-> op.copied]
        /\ UNCHANGED <<alive, registry, capacity, graph, heap, view, reply>>
    BY <1>8, ContinueFields DEF AppendEntry
  <2>4. Grown' = Grown /\ GrownHeap' = GrownHeap BY <2>3 DEF Grown, GrownHeap
  <2>5. InCall' BY <2>2, <2>3, <2>4 DEF InCall
  <2>6. Given' BY <1>1, <2>1, <2>3 DEF Given, Sources
  <2> QED BY <2>3, <2>5, <2>6 DEF vars
<1>9. CASE InvalidateForRegister
  <2>1. /\ op.at = "registered"
        /\ mem = Memory(Append(registry, Entry(op.name, op.meta, op.handler)), Grown, graph,
                        GrownHeap \cup Texts(op.name))
    BY <1>9 DEF InvalidateForRegister, InCall
  <2>2. mem' = Memory(Append(registry, Entry(op.name, op.meta, op.handler)), Grown, NoGraph,
                      (GrownHeap \cup Texts(op.name)) \ Graphs(graph))
    BY <1>9, <2>1 DEF InvalidateForRegister, InvalidateGraph, Memory
  <2>3. /\ registry' = Append(registry, Entry(op.name, op.meta, op.handler))
        /\ capacity' = Grown /\ graph' = NoGraph
        /\ heap' = (GrownHeap \cup Texts(op.name)) \ Graphs(graph)
        /\ view' = NoGraph /\ alive' = alive
        /\ reply' = Reply("register", "ok", "registered") /\ InCall' /\ Given'
    BY <1>9, <2>2, ReturnFields DEF InvalidateForRegister
  <2>4. Graphs(graph) \cap (Arrays(Grown) \cup Texts(op.name)) = {}
    BY TextsApart DEF Graphs, Arrays, Texts
  <2>5. heap' = (heap \ (Arrays(capacity) \cup Graphs(graph)))
                  \cup Arrays(capacity') \cup Texts(op.name)
    BY <2>3, <2>4 DEF GrownHeap
  <2>6. Registers(op.name, op.meta, op.handler)
    BY <2>3, <2>5 DEF Registers, Grown
  <2>7. /\ Acceptable(registry, op.name, op.meta, op.handler)
        /\ GrowthPossible(registry, capacity)
    BY <2>1 DEF Given
  <2>8. RegisterInternal(op.name, op.meta, op.handler)
    BY <1>1, <2>6, <2>7 DEF RegisterInternal
  <2> QED BY <1>2, <2>3, <2>8
<1> QED BY <1>3, <1>4, <1>5, <1>6, <1>7, <1>8, <1>9

\* Unregistering and destroying.
LEMMA RemovalStep ==
    ASSUME CallsInv, RemoveEntry \/ InvalidateForUnregister \/ CallDestroy \/ ClearNext
                        \/ FreeContext
    PROVE  [Next]_vars /\ InCall' /\ Given'
<1> USE DEF CallsInv
<1>1. CASE RemoveEntry
  <2>1. mem = Memory(registry, capacity, graph, heap) BY <1>1 DEF RemoveEntry, InCall
  <2>2. mem.registry = registry BY <2>1 DEF Memory
  <2>3. alive /\ op.name \in Bindable \cup Malformed BY <1>1 DEF RemoveEntry, Given
  <2>4. CASE /\ op.name \notin Names \/ ~IsRegistered(registry, op.name)
             /\ mem' = mem
             /\ Returns(Reply("unregister", "invalid", "name"), view)
    <3>1. /\ UNCHANGED <<alive, registry, capacity, graph, heap, view>>
          /\ reply' = Reply("unregister", "invalid", "name") /\ InCall' /\ Given'
      BY <2>1, <2>4, ReturnFields
    <3>2. Unregister(op.name) BY <2>3, <2>4, <3>1 DEF Unregister
    <3> QED BY <2>3, <3>1, <3>2 DEF Next
  <2>5. ASSUME NEW i \in 1..Len(registry), op.name \in Names,
               Finds(registry, op.name, i), Continues("removed"),
               mem' = [mem EXCEPT !.registry = Shifted(@, i),
                                  !.heap = @ \ ClearRegistered(op.name, 1..Fields)]
        PROVE  [Next]_vars /\ InCall' /\ Given'
    <3>1. mem' = Memory(Shifted(registry, i), capacity, graph,
                        heap \ ClearRegistered(op.name, 1..Fields))
      BY <2>1, <2>5 DEF Memory
    <3>2. /\ op' = [at |-> "removed", name |-> op.name, meta |-> op.meta,
                    handler |-> op.handler, dry |-> op.dry, from |-> op.from,
                    next |-> 1, copied |-> op.copied]
          /\ UNCHANGED <<alive, registry, capacity, graph, heap, view, reply>>
      BY <2>5, ContinueFields
    <3>3. InCall' BY <2>5, <3>1, <3>2 DEF InCall
    <3>4. Given' BY <2>3, <2>5, <3>2 DEF Given, Sources
    <3> QED BY <3>2, <3>3, <3>4 DEF vars
  <2> QED BY <1>1, <2>2, <2>4, <2>5 DEF RemoveEntry
<1>2. CASE InvalidateForUnregister
  <2>1. PICK i \in 1..Len(registry) :
          /\ Finds(registry, op.name, i)
          /\ mem = Memory(Shifted(registry, i), capacity, graph,
                          heap \ ClearRegistered(op.name, 1..Fields))
    BY <1>2 DEF InvalidateForUnregister, InCall
  <2>2. mem' = Memory(Shifted(registry, i), capacity, NoGraph,
                      (heap \ ClearRegistered(op.name, 1..Fields)) \ Graphs(graph))
    BY <1>2, <2>1 DEF InvalidateForUnregister, InvalidateGraph, Memory
  <2>3. /\ registry' = Shifted(registry, i) /\ capacity' = capacity /\ graph' = NoGraph
        /\ heap' = (heap \ ClearRegistered(op.name, 1..Fields)) \ Graphs(graph)
        /\ view' = NoGraph /\ alive' = alive
        /\ reply' = Reply("unregister", "ok", "unregistered") /\ InCall' /\ Given'
    BY <1>2, <2>2, ReturnFields DEF InvalidateForUnregister
  <2>4. alive /\ op.name \in Names /\ op.name \in Bindable \cup Malformed
    BY <1>2 DEF InvalidateForUnregister, Given
  <2>5. heap' = heap \ (ClearRegistered(op.name, 1..Fields) \cup Graphs(graph)) BY <2>3
  <2>6. Unregister(op.name) BY <2>1, <2>3, <2>4, <2>5 DEF Unregister
  <2> QED BY <2>3, <2>4, <2>6 DEF Next
<1>3. CASE CallDestroy
  <2>1. op = Idle /\ alive /\ UNCHANGED vars BY <1>3 DEF CallDestroy
  <2>2. mem = Memory(registry, capacity, graph, heap) BY <2>1 DEF InCall, Idle, Call
  <2>3. mem' = Memory(registry, capacity, NoGraph, heap \ Graphs(graph))
    BY <1>3, <2>2 DEF CallDestroy, InvalidateGraph, Memory
  <2>4. UNCHANGED <<alive, registry, capacity, graph, heap, view, reply>> BY <2>1 DEF vars
  <2>5. op'.at = "destroy" /\ op'.next = 1 /\ op'.from = NoGraph
    BY <1>3 DEF CallDestroy, Call
  <2>6. ClearedBefore(op.next)' = {} BY <2>5 DEF ClearedBefore
  <2>7. mem' = Memory(registry', capacity', NoGraph,
                      (heap' \ Graphs(graph')) \ ClearedBefore(op.next)')
    <3>1. (heap \ Graphs(graph)) \ {} = heap \ Graphs(graph) OBVIOUS
    <3> QED BY <2>3, <2>4, <2>6, <3>1
  <2>8. 1 \in 1..(Len(registry) + 1) BY DEF IInv, TypeOK
  <2>9. InCall' BY <2>4, <2>5, <2>7, <2>8 DEF InCall
  <2>10. (op = [at |-> op.at, name |-> op.name, meta |-> op.meta, handler |-> op.handler,
                dry |-> op.dry, from |-> op.from, next |-> op.next, copied |-> op.copied])'
    BY <1>3 DEF CallDestroy, Call
  <2>11. Given' BY <2>1, <2>4, <2>5, <2>10 DEF Given, Sources
  <2> QED BY <2>1, <2>9, <2>11
<1>4. CASE ClearNext
  <2>1. /\ op.at = "destroy" /\ op.next \in 1..(Len(registry) + 1)
        /\ mem = Memory(registry, capacity, NoGraph,
                        (heap \ Graphs(graph)) \ ClearedBefore(op.next))
    BY <1>4 DEF ClearNext, InCall
  <2>2. mem.registry = registry BY <2>1 DEF Memory
  <2>3. Len(registry) \in Nat BY DEF IInv, TypeOK
  <2>4. op.next \in 1..Len(registry) /\ op.next + 1 \in 1..(Len(registry) + 1)
    BY <1>4, <2>1, <2>2, <2>3 DEF ClearNext
  <2>5. ClearedBefore(op.next + 1)
          = ClearedBefore(op.next) \cup ClearRegistered(registry[op.next].name, 1..Fields)
    <3>1. 1..((op.next + 1) - 1) = (1..(op.next - 1)) \cup {op.next} BY <2>4
    <3>2. {ClearRegistered(registry[i].name, 1..Fields) : i \in 1..((op.next + 1) - 1)}
            = {ClearRegistered(registry[i].name, 1..Fields) : i \in 1..(op.next - 1)}
                \cup {ClearRegistered(registry[op.next].name, 1..Fields)}
      BY <3>1
    <3> HIDE DEF ClearRegistered
    <3>3. UNION ({ClearRegistered(registry[i].name, 1..Fields) : i \in 1..(op.next - 1)}
                   \cup {ClearRegistered(registry[op.next].name, 1..Fields)})
            = (UNION {ClearRegistered(registry[i].name, 1..Fields) : i \in 1..(op.next - 1)})
                \cup ClearRegistered(registry[op.next].name, 1..Fields)
      BY Zenon
    <3>4. /\ ClearedBefore(op.next + 1)
               = UNION {ClearRegistered(registry[i].name, 1..Fields) : i \in 1..((op.next + 1) - 1)}
          /\ ClearedBefore(op.next)
               = UNION {ClearRegistered(registry[i].name, 1..Fields) : i \in 1..(op.next - 1)}
      BY Zenon DEF ClearedBefore
    <3> QED BY <3>2, <3>3, <3>4, Zenon
  <2>6. mem' = Memory(registry, capacity, NoGraph,
                      ((heap \ Graphs(graph)) \ ClearedBefore(op.next))
                         \ ClearRegistered(registry[op.next].name, 1..Fields))
    BY <1>4, <2>1, <2>2 DEF ClearNext, Memory
  <2>7. ((heap \ Graphs(graph)) \ ClearedBefore(op.next))
            \ ClearRegistered(registry[op.next].name, 1..Fields)
          = (heap \ Graphs(graph)) \ ClearedBefore(op.next + 1)
    BY <2>5
  <2>8. /\ op' = [at |-> op.at, name |-> op.name, meta |-> op.meta,
                  handler |-> op.handler, dry |-> op.dry, from |-> op.from,
                  next |-> op.next + 1, copied |-> {}]
        /\ UNCHANGED <<alive, registry, capacity, graph, heap, view, reply>>
    BY <1>4, RoundFields DEF ClearNext
  <2>9. op'.next = op.next + 1 BY <2>8
  <2>10. ClearedBefore(op.next)' = ClearedBefore(op.next + 1)
    BY <2>8, <2>9 DEF ClearedBefore
  <2>11. InCall' BY <2>1, <2>4, <2>6, <2>7, <2>8, <2>10 DEF InCall
  <2>12. Given' BY <2>1, <2>8 DEF Given, Sources
  <2> QED BY <2>8, <2>11, <2>12 DEF vars
<1>5. CASE FreeContext
  <2>1. /\ op.at = "destroy" /\ op.next \in 1..(Len(registry) + 1)
        /\ mem = Memory(registry, capacity, NoGraph,
                        (heap \ Graphs(graph)) \ ClearedBefore(op.next))
    BY <1>5 DEF FreeContext, InCall
  <2>2. /\ mem.registry = registry /\ mem.capacity = capacity
        /\ mem.heap = (heap \ Graphs(graph)) \ ClearedBefore(op.next)
    BY <2>1 DEF Memory
  <2>3. Len(registry) \in Nat BY DEF IInv, TypeOK
  <2>4. op.next - 1 = Len(registry) BY <1>5, <2>1, <2>2, <2>3 DEF FreeContext
  <2>5. ClearedBefore(op.next)
          = UNION {ClearRegistered(registry[i].name, 1..Fields) : i \in 1..Len(registry)}
    BY <2>4 DEF ClearedBefore
  <2>6. mem' = Memory(<<>>, 0, NoGraph, mem.heap \ (Arrays(capacity) \cup {ContextBlock}))
    BY <1>5, <2>2 DEF FreeContext
  <2>7. heap' = mem.heap \ (Arrays(capacity) \cup {ContextBlock})
    BY <1>5, <2>6 DEF FreeContext, Memory
  <2>8. heap' = heap \ (Graphs(graph) \cup Arrays(capacity) \cup {ContextBlock}
                         \cup UNION {ClearRegistered(registry[i].name, 1..Fields) :
                                        i \in 1..Len(registry)})
    BY <2>2, <2>5, <2>7
  <2>9. alive BY <2>1 DEF Given
  <2>10. Destroy BY <1>5, <2>8, <2>9 DEF FreeContext, Destroy
  <2>11. mem' = Memory(registry', capacity', graph', heap')
    BY <1>5, <2>6, <2>7 DEF FreeContext
  <2>12. InCall' /\ Given' BY <1>5, <2>11, AfterReturn DEF FreeContext
  <2> QED BY <2>10, <2>12 DEF Next
<1> QED BY <1>1, <1>2, <1>3, <1>4, <1>5

\* Every step of a call leaves the context as it was or finishes the one step
\* that CommandRegistry takes for the call.
LEMMA CallsStep ==
    ASSUME CallsInv, [CallsNext]_callsVars
    PROVE  [Next]_vars /\ InCall' /\ Given'
<1> USE DEF CallsInv
<1>1. CASE UNCHANGED callsVars
  <2>1. UNCHANGED <<alive, registry, capacity, graph, heap, view, reply, mem, op>>
    BY <1>1 DEF callsVars
  <2>2. Grown' = Grown /\ GrownHeap' = GrownHeap BY <2>1 DEF Grown, GrownHeap
  <2>3. ClearedBefore(op.next)' = ClearedBefore(op.next) BY <2>1 DEF ClearedBefore
  <2>4. InCall' BY <2>1, <2>2, <2>3 DEF InCall
  <2>5. Given' BY <2>1 DEF Given, Sources
  <2> QED BY <2>1, <2>4, <2>5 DEF vars
<1>2. ASSUME NEW a \in Adapters, ClientInitialize(a)
      PROVE  [Next]_vars /\ InCall' /\ Given'
  <2>1. UNCHANGED <<vars, mem, op>> /\ op = Idle BY <1>2 DEF ClientInitialize
  <2>2. UNCHANGED <<alive, registry, capacity, graph, heap, view, reply>> BY <2>1 DEF vars
  <2>3. mem = Memory(registry, capacity, graph, heap) BY <2>1 DEF InCall, Idle, Call
  <2> QED BY <2>1, <2>2, <2>3, AfterReturn
<1>3. ASSUME NEW n \in Names \cup Malformed, NEW dry \in BOOLEAN, NEW from \in Sources,
             op = Idle, Dispatch(n, dry, from)
      PROVE  [Next]_vars /\ InCall' /\ Given'
  <2>1. op.at = "idle" BY <1>3 DEF Idle, Call
  <2>2. alive /\ UNCHANGED vars /\ mem' = mem
    BY <1>3 DEF Dispatch
  <2>3. op' = Call("find", n, NoMeta, NoHandler, dry, from) BY <1>3 DEF Dispatch
  <2>4. InCall' /\ Given' BY <2>1, <2>2, <2>3, AfterStart
  <2> QED BY <2>2, <2>4
<1>4. ASSUME NEW n \in Names \cup Malformed, NEW dry \in BOOLEAN, NEW from \in Sources,
             (\E good \in BOOLEAN : ClientExecute(n, dry, from, good))
                \/ ContextExecute(n, dry, from)
      PROVE  [Next]_vars /\ InCall' /\ Given'
  <2>1. UNCHANGED callsVars \/ (op = Idle /\ Dispatch(n, dry, from))
    BY <1>4, Zenon DEF ClientExecute, ContextExecute
  <2> QED BY <1>1, <1>3, <2>1
<1>5. ASSUME NEW n \in Bindable \cup Malformed \cup {Inspect},
             NEW e \in Effects \cup {NoEffects, BadText},
             NEW h \in Handlers \cup {NoHandler}, NEW from \in Sources,
             NEW m \in Described(e), CallRegister(n, m, h, from)
      PROVE  [Next]_vars /\ InCall' /\ Given'
  <2>1. op.at = "idle" BY <1>5 DEF CallRegister, Idle, Call
  <2>2. alive /\ UNCHANGED vars /\ mem' = mem BY <1>5 DEF CallRegister
  <2>3. op' = Call("check", n, m, h, FALSE, from) BY <1>5 DEF CallRegister
  <2>4. \E x \in Effects \cup {NoEffects, BadText} : m \in Described(x) OBVIOUS
  <2>5. InCall' /\ Given' BY <2>1, <2>2, <2>3, <2>4, AfterStart
  <2> QED BY <2>2, <2>5
<1>6. ASSUME NEW n \in Bindable \cup Malformed, NEW from \in Sources, CallUnregister(n, from)
      PROVE  [Next]_vars /\ InCall' /\ Given'
  <2>1. op.at = "idle" BY <1>6 DEF CallUnregister, Idle, Call
  <2>2. alive /\ UNCHANGED vars /\ mem' = mem BY <1>6 DEF CallUnregister
  <2>3. op' = Call("search", n, NoMeta, NoHandler, FALSE, from) BY <1>6 DEF CallUnregister
  <2>4. InCall' /\ Given' BY <2>1, <2>2, <2>3, AfterStart
  <2> QED BY <2>2, <2>4
<1>7. CASE ShortCall
  <2>1. op = Idle /\ op' = op /\ mem' = Memory(registry', capacity', graph', heap')
    BY <1>7 DEF ShortCall
  <2>2. InCall' /\ Given' BY <2>1, AfterReturn
  <2>3. Next BY <1>7, Zenon DEF ShortCall, Next
  <2> QED BY <2>2, <2>3
<1> QED BY <1>1, <1>2, <1>4, <1>5, <1>6, <1>7, ExecutionStep, RegistrationStep, RemovalStep
        DEF CallsNext

\* No call is in progress at first.
LEMMA CallsInitInv == CallsInit => CallsInv
<1> SUFFICES ASSUME CallsInit PROVE CallsInv OBVIOUS
<1>1. Init /\ op = Idle /\ mem = Memory(registry, capacity, graph, heap)
  BY DEF CallsInit
<1>2. op.at = "idle" /\ op.from = NoGraph BY <1>1 DEF Idle, Call
<1>3. InCall BY <1>1, <1>2 DEF InCall
<1>4. Given BY <1>1, <1>2 DEF Given, Idle, Call, Sources
<1> QED BY <1>1, <1>3, <1>4, InitInv DEF CallsInv

\* Calls of many steps, with failing allocations and handlers that call back,
\* implement the registry that takes one step per call.
THEOREM NestedCallsSerialize == CallsSpec => ImplementsRegistry
<1>1. CallsInit => Init /\ CallsInv BY CallsInitInv DEF CallsInit
<1>2. CallsInv /\ [CallsNext]_callsVars => [Next]_vars /\ CallsInv'
  BY CallsStep, NextInv DEF CallsInv
<1> QED BY <1>1, <1>2, PTL DEF CallsSpec, ImplementsRegistry, Spec

\* The invariant of the calls.
THEOREM CallsInvariance == CallsSpec => []CallsInv
<1>1. CallsInit => CallsInv BY CallsInitInv
<1>2. CallsInv /\ [CallsNext]_callsVars => CallsInv'
  BY CallsStep, NextInv DEF CallsInv
<1> QED BY <1>1, <1>2, PTL DEF CallsSpec

\* While a call still reads its arguments, the graph that they may be views
\* into has not been freed.
THEOREM ArgumentsStayLive == CallsSpec => []ArgumentsLive
<1>1. CallsInv => ArgumentsLive
  <2> SUFFICES ASSUME CallsInv, op.from # NoGraph,
                      op.at \in {"find", "check", "grow", "copy", "search"}
               PROVE  mem.graph = op.from /\ GraphBlock \in mem.heap
    BY DEF ArgumentsLive
  <2>1. op.from = view BY DEF CallsInv, Given, Sources
  <2>2. graph = op.from /\ GraphBlock \in heap BY <2>1 DEF CallsInv, IInv, ViewLives
  <2>3. CASE op.at # "copy"
    <3>1. mem = Memory(registry, capacity, graph, heap) BY <2>3 DEF CallsInv, InCall
    <3> QED BY <2>2, <3>1 DEF Memory
  <2>4. CASE op.at = "copy"
    <3>1. mem = Memory(registry, Grown, graph,
                       GrownHeap \cup {TextBlock(op.name, i) : i \in op.copied})
      BY <2>4 DEF CallsInv, InCall
    <3>2. GraphBlock \in GrownHeap BY <2>2, TextsApart DEF GrownHeap, Arrays
    <3> QED BY <2>2, <3>1, <3>2 DEF Memory
  <2> QED BY <2>3, <2>4
<1> QED BY <1>1, CallsInvariance, PTL

\* Whenever no call is in progress, however many handlers are running, the
\* allocated memory is exactly what the context owns.
THEOREM MemoryExactInCalls ==
    CallsSpec => [](op = Idle => mem.heap = Owned)
<1>1. CallsInv => (op = Idle => mem.heap = Owned)
  <2> SUFFICES ASSUME CallsInv, op = Idle PROVE mem.heap = Owned OBVIOUS
  <2>1. mem = Memory(registry, capacity, graph, heap)
    BY DEF CallsInv, InCall, Idle, Call
  <2> QED BY <2>1 DEF CallsInv, IInv, HeapExact, Memory
<1> QED BY <1>1, CallsInvariance, PTL

\* A graph that was read before handlers ran, and may still be read, tells the
\* truth while they run.
THEOREM GraphTrueInCalls == CallsSpec => []GraphParity
BY NestedCallsSerialize, GraphTellsTruth, PTL DEF ImplementsRegistry
=============================================================================
