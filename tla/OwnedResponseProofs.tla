------------------------ MODULE OwnedResponseProofs -------------------------
(***************************************************************************)
(* Proofs about OwnedResponse: for every word size, limit, allocator and   *)
(* set of responses, a copy is measured exactly, stays within its block,   *)
(* keeps its texts and is owned once.                                      *)
(***************************************************************************)
EXTENDS OwnedResponse, TLAPS

-----------------------------------------------------------------------------
(* Sizes *)

\* The size of a text is a word.
LEMMA SizesAreWords ==
    ASSUME NEW p \in Parts, NEW k \in 1..3
    PROVE  p[k] \in Texts /\ Size[p[k]] \in 0..(W - 1)
BY WordAssumption DEF Parts

\* The sizes of the three texts are words.
LEMMA PartSizes ==
    ASSUME NEW p \in Parts
    PROVE  /\ Size[p[1]] \in 0..(W - 1) /\ Size[p[2]] \in 0..(W - 1)
           /\ Size[p[3]] \in 0..(W - 1)
<1>1. 1 \in 1..3 /\ 2 \in 1..3 /\ 3 \in 1..3 OBVIOUS
<1> QED BY <1>1, SizesAreWords

\* The size checks decide by the true sum, although they compute in words,
\* and what they accept is measured without wrapping.
LEMMA AcceptsExactly ==
    ASSUME NEW p \in Parts, NEW limit \in 0..(W - 1), limit <= AddrMax
    PROVE  /\ Accepts(p, limit) <=> Extent(p) <= limit
           /\ Accepts(p, limit) => Total(p) = Extent(p)
           /\ Total(p) \in 0..(W - 1) /\ Extent(p) \in Nat
<1>1. /\ Size[p[1]] \in 0..(W - 1) /\ Size[p[2]] \in 0..(W - 1)
      /\ Size[p[3]] \in 0..(W - 1)
  BY PartSizes
<1>2. W \in Nat \ {0} /\ AddrMax \in 0..(W - 1) BY WordAssumption
<1> QED BY <1>1, <1>2 DEF Accepts, Adds, Total, WordSum, Extent
-----------------------------------------------------------------------------
(* Storage *)

\* The views of a response lead to its bytes.
LEMMA ViewsShowTexts ==
    ASSUME NEW p \in Parts, NEW k \in 1..3
    PROVE  /\ Views(p)[k] \in [at : Nat, len : Nat]
           /\ Views(p)[k].len = Size[p[k]]
           /\ \A i \in 0..(Views(p)[k].len - 1) :
                 /\ Views(p)[k].at + i \in DOMAIN Written(p)
                 /\ Written(p)[Views(p)[k].at + i] = <<p[k], i>>
<1>1. /\ Size[p[1]] \in Nat /\ Size[p[2]] \in Nat /\ Size[p[3]] \in Nat
  BY PartSizes, WordAssumption
<1>2. Size[p[k]] \in Nat BY <1>1
<1>3. CASE Size[p[k]] = 0
  <2>1. Views(p)[k] = [at |-> 0, len |-> 0] BY <1>3 DEF Views, NoView
  <2> QED BY <1>3, <2>1
<1>4. CASE Size[p[k]] # 0
  <2>1. Views(p)[k] = [at |-> Cursor(p)[k], len |-> Size[p[k]]] BY <1>4 DEF Views
  <2>2. Cursor(p)[k] \in Nat BY <1>1 DEF Cursor
  <2>3. ASSUME NEW i \in 0..(Size[p[k]] - 1)
        PROVE  /\ Cursor(p)[k] + i \in 0..(Extent(p) - 1)
               /\ Written(p)[Cursor(p)[k] + i] = <<p[k], i>>
    <3>1. CASE k = 1
      <4>1. Cursor(p)[1] = 0 BY DEF Cursor
      <4>2. i \in 0..(Extent(p) - 1) /\ i < Size[p[1]] /\ 0 + i = i
        BY <1>1, <2>3, <3>1 DEF Extent
      <4>3. Written(p)[i] = <<p[1], i>> BY <4>2 DEF Written
      <4> QED BY <3>1, <4>1, <4>2, <4>3
    <3>2. CASE k = 2
      <4>1. Cursor(p)[2] = Size[p[1]] BY DEF Cursor
      <4> DEFINE j == Size[p[1]] + i
      <4>2. /\ j \in 0..(Extent(p) - 1)
            /\ ~(j < Size[p[1]]) /\ j < Size[p[1]] + Size[p[2]]
            /\ j - Size[p[1]] = i
        BY <1>1, <2>3, <3>2 DEF Extent
      <4>3. Written(p)[j] = <<p[2], j - Size[p[1]]>>
        <5> HIDE DEF j
        <5> QED BY <4>2 DEF Written
      <4> QED BY <3>2, <4>1, <4>2, <4>3
    <3>3. CASE k = 3
      <4>1. Cursor(p)[3] = Size[p[1]] + Size[p[2]] BY DEF Cursor
      <4> DEFINE j == Size[p[1]] + Size[p[2]] + i
      <4>2. /\ j \in 0..(Extent(p) - 1)
            /\ ~(j < Size[p[1]]) /\ ~(j < Size[p[1]] + Size[p[2]])
            /\ j - Size[p[1]] - Size[p[2]] = i
        BY <1>1, <2>3, <3>3 DEF Extent
      <4>3. Written(p)[j] = <<p[3], j - Size[p[1]] - Size[p[2]]>>
        <5> HIDE DEF j
        <5> QED BY <4>2 DEF Written
      <4> QED BY <3>3, <4>1, <4>2, <4>3
    <3> QED BY <3>1, <3>2, <3>3
  <2>4. DOMAIN Written(p) = 0..(Extent(p) - 1) BY DEF Written
  <2> QED BY <1>2, <2>1, <2>2, <2>3, <2>4
<1> QED BY <1>3, <1>4

\* A cleared response is well typed and owns nothing.
LEMMA ClearedTyped ==
    /\ Cleared \in [storage : Blocks \cup {NoBlock}, allocator : Makers \cup {Blank},
                    views : [1..3 -> [at : Nat, len : Nat]]]
    /\ Cleared.storage = NoBlock
BY DEF Cleared, NoView

\* The initial state satisfies the invariant.
LEMMA InitInv == Init => IInv
<1> SUFFICES ASSUME Init PROVE IInv OBVIOUS
<1>1. TypeOK BY ClearedTyped DEF Init, TypeOK
<1>2. OwnedOnce BY ClearedTyped DEF Init, OwnedOnce
<1>3. InBounds /\ TextsIntact /\ LimitExact /\ Measured
  BY DEF Init, InBounds, TextsIntact, LimitExact, Measured
<1> QED BY <1>1, <1>2, <1>3 DEF IInv
-----------------------------------------------------------------------------
(* Refusals *)

\* Clearing a response that owns nothing loses nothing.
LEMMA RefuseInv ==
    ASSUME IInv, NEW d \in Dests, Available(d), NEW status, NEW detail,
           Refuse(d, status, detail), detail # "copied",
           asked' \in AskedRecords \cup {NoPromise},
           detail = "size" /\ asked' # NoPromise => Extent(asked'.parts) > asked'.limit
    PROVE  IInv'
<1>1. TypeOK' BY ClearedTyped DEF IInv, TypeOK, Refuse
<1>2. OwnedOnce'
  BY ClearedTyped DEF IInv, TypeOK, OwnedOnce, Refuse, Available
<1>3. InBounds' BY DEF IInv, InBounds, Refuse
<1>4. TextsIntact'
  <2> SUFFICES ASSUME NEW e \in Dests, promised'[e] # NoPromise
               PROVE  Shows(dests'[e], promised'[e], heap')
    BY DEF TextsIntact
  <2>1. e # d /\ promised'[e] = promised[e] /\ dests'[e] = dests[e] /\ heap' = heap
    BY DEF IInv, TypeOK, Refuse
  <2> QED BY <2>1 DEF IInv, TextsIntact
<1>5. LimitExact' BY DEF LimitExact, Refuse
<1>6. Measured' BY DEF Measured, Refuse
<1> QED BY <1>1, <1>2, <1>3, <1>4, <1>5, <1>6 DEF IInv

\* A step that leaves the owned responses and the heap alone.
LEMMA QuietInv ==
    ASSUME IInv, UNCHANGED <<dests, heap, promised>>, source' \in Sources,
           pc' \in {"idle", "alloc"}, asked' \in AskedRecords \cup {NoPromise},
           pc' = "alloc" => /\ asked' \in AskedRecords /\ asked'.allocator \in Makers
                            /\ dests[asked'.dest].storage = NoBlock,
           LimitExact', Measured'
    PROVE  IInv'
<1>1. TypeOK' BY DEF IInv, TypeOK
<1>2. OwnedOnce' /\ InBounds' /\ TextsIntact'
  BY DEF IInv, OwnedOnce, InBounds, TextsIntact
<1> QED BY <1>1, <1>2 DEF IInv
-----------------------------------------------------------------------------
(* Copies *)

\* A copy up to the allocator keeps the invariant.
LEMMA CopyWithLimitInv ==
    ASSUME IInv, NEW d \in Dests, NEW a \in Allocators, NEW limit \in 0..(W - 1),
           Available(d) => limit <= AddrMax, CopyWithLimit(d, a, limit)
    PROVE  IInv'
<1>1. source \in Sources /\ source.parts \in Parts
  BY SourcesAssumption DEF IInv, TypeOK
<1>2. Total(source.parts) \in 0..(W - 1)
  <2>1. 0 \in 0..(W - 1) /\ 0 <= AddrMax BY WordAssumption
  <2> QED BY <1>1, <2>1, AcceptsExactly
<1>3. Effective(a) \in Allocators /\ (a # Half => Effective(a) \in Makers)
  BY OwnersAssumption DEF Effective, Allocators, Makers
<1>4. asked' = [dest |-> d, parts |-> source.parts, limit |-> limit,
                total |-> Total(source.parts), allocator |-> Effective(a)]
  BY DEF CopyWithLimit
<1>5. /\ asked' \in AskedRecords /\ asked'.parts = source.parts
      /\ asked'.limit = limit /\ asked'.total = Total(source.parts)
      /\ asked'.dest = d /\ asked'.allocator = Effective(a)
  BY <1>1, <1>2, <1>3, <1>4 DEF AskedRecords
<1>6. Available(d) => /\ Accepts(source.parts, limit) <=> Extent(source.parts) <= limit
                      /\ Accepts(source.parts, limit) =>
                            Total(source.parts) = Extent(source.parts)
                      /\ Extent(source.parts) \in Nat
  BY <1>1, AcceptsExactly
<1>7. CASE ~Available(d)
  <2>1. /\ reply' = [status |-> "invalid", detail |-> "owned"] /\ pc' = "idle"
        /\ UNCHANGED <<source, dests, heap, promised>>
    BY <1>7 DEF CopyWithLimit
  <2>2. LimitExact' /\ Measured' BY <2>1 DEF LimitExact, Measured
  <2> QED BY <1>1, <1>5, <2>1, <2>2, QuietInv
<1>8. CASE Available(d) /\ Refuse(d, "invalid", "argument")
  BY <1>5, <1>8, RefuseInv
<1>9. CASE /\ Available(d) /\ ~Accepts(source.parts, limit)
           /\ Refuse(d, "invalid", "size")
  <2>1. Extent(asked'.parts) > asked'.limit BY <1>5, <1>6, <1>9, WordAssumption
  <2> QED BY <1>5, <1>9, <2>1, RefuseInv
<1>10. CASE /\ Available(d) /\ a # Half /\ Accepts(source.parts, limit)
            /\ pc' = "alloc"
            /\ reply' = [status |-> "ok", detail |-> "copying"]
            /\ UNCHANGED <<source, dests, heap, promised>>
  <2>1. LimitExact' BY <1>5, <1>6, <1>10 DEF LimitExact
  <2>2. Measured' BY <1>5, <1>6, <1>10 DEF Measured
  <2> QED BY <1>1, <1>3, <1>5, <1>10, <2>1, <2>2, QuietInv DEF Available
<1> QED BY <1>7, <1>8, <1>9, <1>10 DEF CopyWithLimit

\* CopyOwned keeps the invariant.
LEMMA CopyOwnedInv ==
    ASSUME IInv, NEW d \in Dests, NEW a \in Allocators, CopyOwned(d, a)
    PROVE  IInv'
<1>1. DefaultLimit \in 0..(W - 1) /\ DefaultLimit <= AddrMax BY WordAssumption
<1> QED BY <1>1, CopyWithLimitInv DEF CopyOwned

\* CopyWithOptions keeps the invariant.
LEMMA CopyWithOptionsInv ==
    ASSUME IInv, NEW d \in Dests, NEW sized \in BOOLEAN, NEW a \in Allocators,
           NEW n \in Limits, CopyWithOptions(d, sized, a, n)
    PROVE  IInv'
<1> DEFINE limit == IF n = 0 THEN DefaultLimit ELSE n
<1>1. limit \in 0..(W - 1) /\ (n <= AddrMax => limit <= AddrMax) BY WordAssumption
<1>2. CASE /\ Available(d) /\ Refuse(d, "invalid", "options")
           /\ asked' = NoPromise
  BY <1>2, RefuseInv
<1>3. CASE (Available(d) => n <= AddrMax) /\ CopyWithLimit(d, a, limit)
  <2> HIDE DEF limit
  <2> QED BY <1>1, <1>3, CopyWithLimitInv
<1> QED BY <1>2, <1>3 DEF CopyWithOptions

\* AllocFails keeps the invariant.
LEMMA AllocFailsInv == ASSUME IInv, AllocFails PROVE IInv'
<1>1. /\ asked \in AskedRecords /\ asked.dest \in Dests /\ asked' = asked
      /\ Available(asked.dest)
  BY DEF IInv, TypeOK, AllocFails, AskedRecords, Available
<1> QED BY <1>1, RefuseInv DEF AllocFails

\* What every completed copy shares.
LEMMA CompleteFacts ==
    ASSUME IInv, pc = "alloc", NEW b \in Blocks \cup {NoBlock}, Complete(b)
    PROVE  /\ asked \in AskedRecords /\ asked.dest \in Dests /\ asked.parts \in Parts
           /\ asked.total = Extent(asked.parts) /\ asked.total \in 0..(W - 1)
           /\ asked.allocator \in Makers
           /\ dests[asked.dest].storage = NoBlock
           /\ dests' \in [Dests -> [storage : Blocks \cup {NoBlock},
                                    allocator : Makers \cup {Blank},
                                    views : [1..3 -> [at : Nat, len : Nat]]]]
           /\ dests'[asked.dest] = [storage |-> b, allocator |-> asked.allocator,
                                    views |-> Views(asked.parts)]
           /\ \A e \in Dests : e # asked.dest => dests'[e] = dests[e]
           /\ promised' \in [Dests -> Parts \cup {NoPromise}]
           /\ promised'[asked.dest] = asked.parts
           /\ \A e \in Dests : e # asked.dest => promised'[e] = promised[e]
           /\ source' = source /\ asked' = asked /\ pc' = "idle"
           /\ LimitExact' /\ Measured'
<1>1. /\ asked \in AskedRecords /\ asked.dest \in Dests /\ asked.parts \in Parts
      /\ asked.total = Extent(asked.parts) /\ asked.total \in 0..(W - 1)
      /\ asked.allocator \in Makers /\ dests[asked.dest].storage = NoBlock
  BY DEF IInv, TypeOK, Measured, AskedRecords
<1>2. Views(asked.parts) \in [1..3 -> [at : Nat, len : Nat]]
  <2>1. \A k \in 1..3 : Views(asked.parts)[k] \in [at : Nat, len : Nat]
    BY <1>1, ViewsShowTexts
  <2>2. Views(asked.parts) = [k \in 1..3 |-> Views(asked.parts)[k]] BY DEF Views
  <2> QED BY <2>1, <2>2
<1>3. dests' = [dests EXCEPT ![asked.dest] =
          [storage |-> b, allocator |-> asked.allocator, views |-> Views(asked.parts)]]
  BY DEF Complete, SourceValue
<1>4. promised' = [promised EXCEPT ![asked.dest] = asked.parts] BY DEF Complete
<1>5. dests \in [Dests -> [storage : Blocks \cup {NoBlock},
                           allocator : Makers \cup {Blank},
                           views : [1..3 -> [at : Nat, len : Nat]]]]
  BY DEF IInv, TypeOK
<1>6. promised \in [Dests -> Parts \cup {NoPromise}] BY DEF IInv, TypeOK
<1>7. source' = source /\ asked' = asked /\ pc' = "idle" BY DEF Complete
<1>8. Measured' BY <1>7 DEF Measured
<1>9. LimitExact'
  <2>1. Extent(asked.parts) <= asked.limit BY DEF IInv, Measured
  <2> QED BY <1>7, <2>1 DEF LimitExact, Complete
<1> QED BY <1>1, <1>2, <1>3, <1>4, <1>5, <1>6, <1>7, <1>8, <1>9

\* A response shows its texts in its own block, whatever the other blocks hold.
LEMMA ShowsLocal ==
    ASSUME NEW r, NEW p, NEW g, NEW h, Shows(r, p, g),
           r.storage # NoBlock => h[r.storage] = g[r.storage]
    PROVE  Shows(r, p, h)
BY DEF Shows

\* Allocates keeps the invariant.
LEMMA AllocatesInv == ASSUME IInv, NEW b \in Blocks, Allocates(b) PROVE IInv'
<1> DEFINE new == [maker |-> asked.allocator, size |-> asked.total,
                   bytes |-> Written(asked.parts)]
<1>1. pc = "alloc" /\ asked.total # 0 /\ b \notin DOMAIN heap /\ Complete(b)
  BY DEF Allocates
<1>2. heap' = [c \in DOMAIN heap \cup {b} |-> IF c # b THEN heap[c] ELSE new]
  BY DEF Allocates, SourceValue
<1> HIDE DEF new
<1>3. /\ DOMAIN heap' = DOMAIN heap \cup {b} /\ heap'[b] = new
      /\ \A c \in DOMAIN heap : c # b /\ heap'[c] = heap[c]
      /\ heap' = [c \in DOMAIN heap' |-> heap'[c]]
  BY <1>1, <1>2
<1>4. /\ asked \in AskedRecords /\ asked.dest \in Dests /\ asked.parts \in Parts
      /\ asked.total = Extent(asked.parts) /\ asked.total \in 0..(W - 1)
      /\ asked.allocator \in Makers /\ dests[asked.dest].storage = NoBlock
  BY <1>1, CompleteFacts
<1>5. /\ dests' \in [Dests -> [storage : Blocks \cup {NoBlock},
                               allocator : Makers \cup {Blank},
                               views : [1..3 -> [at : Nat, len : Nat]]]]
      /\ dests'[asked.dest] = [storage |-> b, allocator |-> asked.allocator,
                               views |-> Views(asked.parts)]
      /\ \A e \in Dests : e # asked.dest => dests'[e] = dests[e]
      /\ promised' \in [Dests -> Parts \cup {NoPromise}]
      /\ promised'[asked.dest] = asked.parts
      /\ \A e \in Dests : e # asked.dest => promised'[e] = promised[e]
      /\ source' = source /\ asked' = asked /\ pc' = "idle"
      /\ LimitExact' /\ Measured'
  BY <1>1, CompleteFacts
<1>6. /\ new.maker = asked.allocator /\ new.size = asked.total
      /\ new.bytes = Written(asked.parts)
  BY DEF new
<1>7. asked.total \in 1..(W - 1) BY <1>1, <1>4, WordAssumption
<1>8. TypeOK'
  <2>1. \A c \in DOMAIN heap' : /\ c \in Blocks /\ heap'[c].maker \in Makers
                                /\ heap'[c].size \in 1..(W - 1)
    BY <1>3, <1>4, <1>6, <1>7 DEF IInv, TypeOK
  <2>2. source \in Sources BY DEF IInv, TypeOK
  <2> QED BY <1>3, <1>4, <1>5, <2>1, <2>2 DEF TypeOK
<1>9. OwnedOnce'
  <2>1. \A c \in DOMAIN heap' : \E e \in Dests : dests'[e].storage = c
    <3>1. dests'[asked.dest].storage = b BY <1>5
    <3>2. ASSUME NEW c \in DOMAIN heap PROVE \E e \in Dests : dests'[e].storage = c
      <4>1. PICK e \in Dests : dests[e].storage = c BY DEF IInv, OwnedOnce
      <4>2. c \in Blocks BY DEF IInv, TypeOK
      <4>3. e # asked.dest BY <1>4, <4>1, <4>2, OwnersAssumption
      <4> QED BY <1>5, <4>1, <4>3
    <3> QED BY <1>3, <1>4, <3>1, <3>2
  <2>2. ASSUME NEW e \in Dests, dests'[e].storage # NoBlock
        PROVE  /\ dests'[e].storage \in DOMAIN heap'
               /\ heap'[dests'[e].storage].maker = dests'[e].allocator
               /\ \A f \in Dests : dests'[f].storage = dests'[e].storage => f = e
    <3>1. \A f \in Dests : dests[f].storage # b
      BY <1>1, OwnersAssumption DEF IInv, OwnedOnce
    <3>2. CASE e = asked.dest BY <1>3, <1>5, <1>6, <3>1, <3>2
    <3>3. CASE e # asked.dest
      <4>1. dests'[e] = dests[e] /\ dests[e].storage \in DOMAIN heap
        BY <1>5, <2>2, <3>3 DEF IInv, OwnedOnce
      <4>2. heap[dests[e].storage].maker = dests[e].allocator
        BY <2>2, <4>1 DEF IInv, OwnedOnce
      <4>3. \A f \in Dests : dests[f].storage = dests[e].storage => f = e
        BY <2>2, <4>1 DEF IInv, OwnedOnce
      <4>4. dests'[asked.dest].storage # dests[e].storage BY <1>5, <3>1
      <4> QED BY <1>3, <1>5, <4>1, <4>2, <4>3, <4>4
    <3> QED BY <3>2, <3>3
  <2> QED BY <2>1, <2>2 DEF OwnedOnce
<1>10. InBounds'
  <2>1. \A i \in DOMAIN new.bytes : i < new.size
    <3>1. DOMAIN new.bytes = 0..(Extent(asked.parts) - 1) BY <1>6 DEF Written
    <3> QED BY <1>4, <1>6, <3>1
  <2> QED BY <1>3, <2>1 DEF IInv, InBounds
<1>11. TextsIntact'
  <2> SUFFICES ASSUME NEW e \in Dests, promised'[e] # NoPromise
               PROVE  Shows(dests'[e], promised'[e], heap')
    BY DEF TextsIntact
  <2>1. CASE e = asked.dest
    <3>1. /\ dests'[e].storage = b /\ dests'[e].views = Views(asked.parts)
          /\ promised'[e] = asked.parts /\ heap'[b].bytes = Written(asked.parts)
      BY <1>3, <1>5, <1>6, <2>1
    <3>2. b # NoBlock BY OwnersAssumption
    <3>3. ASSUME NEW k \in 1..3
          PROVE  /\ Views(asked.parts)[k].len = Size[asked.parts[k]]
                 /\ \A i \in 0..(Views(asked.parts)[k].len - 1) :
                      /\ Views(asked.parts)[k].at + i \in DOMAIN Written(asked.parts)
                      /\ Written(asked.parts)[Views(asked.parts)[k].at + i]
                            = <<asked.parts[k], i>>
      BY <1>4, ViewsShowTexts
    <3> QED BY <3>1, <3>2, <3>3 DEF Shows
  <2>2. CASE e # asked.dest
    <3>1. /\ dests'[e] = dests[e] /\ promised'[e] = promised[e]
          /\ Shows(dests[e], promised[e], heap)
      BY <1>5, <2>2 DEF IInv, TextsIntact
    <3>2. dests[e].storage # NoBlock => heap'[dests[e].storage] = heap[dests[e].storage]
      BY <1>3 DEF IInv, OwnedOnce
    <3> QED BY <3>1, <3>2, ShowsLocal
  <2> QED BY <2>1, <2>2
<1> QED BY <1>5, <1>8, <1>9, <1>10, <1>11 DEF IInv

\* CopiesNothing keeps the invariant.
LEMMA CopiesNothingInv == ASSUME IInv, CopiesNothing PROVE IInv'
<1>1. pc = "alloc" /\ asked.total = 0 /\ Complete(NoBlock) /\ heap' = heap
  BY DEF CopiesNothing
<1>2. NoBlock \in Blocks \cup {NoBlock} OBVIOUS
<1>3. /\ asked \in AskedRecords /\ asked.dest \in Dests /\ asked.parts \in Parts
      /\ asked.total = Extent(asked.parts)
      /\ dests[asked.dest].storage = NoBlock
  BY <1>1, <1>2, CompleteFacts
<1>4. /\ dests' \in [Dests -> [storage : Blocks \cup {NoBlock},
                               allocator : Makers \cup {Blank},
                               views : [1..3 -> [at : Nat, len : Nat]]]]
      /\ dests'[asked.dest] = [storage |-> NoBlock, allocator |-> asked.allocator,
                               views |-> Views(asked.parts)]
      /\ \A e \in Dests : e # asked.dest => dests'[e] = dests[e]
      /\ promised' \in [Dests -> Parts \cup {NoPromise}]
      /\ promised'[asked.dest] = asked.parts
      /\ \A e \in Dests : e # asked.dest => promised'[e] = promised[e]
      /\ source' = source /\ asked' = asked /\ pc' = "idle"
      /\ LimitExact' /\ Measured'
  BY <1>1, <1>2, CompleteFacts
<1>5. TypeOK' BY <1>1, <1>3, <1>4 DEF IInv, TypeOK
<1>6. \A e \in Dests : /\ dests'[e].storage = dests[e].storage
                       /\ dests'[e].storage # NoBlock => dests'[e] = dests[e]
  BY <1>3, <1>4
<1>7. OwnedOnce' BY <1>1, <1>6 DEF IInv, OwnedOnce
<1>8. InBounds' BY <1>1 DEF IInv, InBounds
<1>9. TextsIntact'
  <2> SUFFICES ASSUME NEW e \in Dests, promised'[e] # NoPromise
               PROVE  Shows(dests'[e], promised'[e], heap')
    BY DEF TextsIntact
  <2>1. CASE e = asked.dest
    <3>1. /\ Size[asked.parts[1]] = 0 /\ Size[asked.parts[2]] = 0
          /\ Size[asked.parts[3]] = 0
      BY <1>1, <1>3, PartSizes, WordAssumption DEF Extent
    <3>2. \A k \in 1..3 : Size[asked.parts[k]] = 0 BY <3>1
    <3>3. \A k \in 1..3 : Views(asked.parts)[k].len = 0 BY <3>2 DEF Views, NoView
    <3>4. dests'[e].views = Views(asked.parts) /\ promised'[e] = asked.parts
      BY <1>4, <2>1
    <3> QED BY <3>2, <3>3, <3>4 DEF Shows
  <2>2. CASE e # asked.dest BY <1>1, <1>4, <2>2 DEF IInv, TextsIntact
  <2> QED BY <2>1, <2>2
<1> QED BY <1>4, <1>5, <1>7, <1>8, <1>9 DEF IInv
-----------------------------------------------------------------------------
(* Release, and the caller *)

\* Release keeps the invariant.
LEMMA ReleaseInv == ASSUME IInv, NEW d \in Dests, Release(d) PROVE IInv'
<1>1. /\ pc' = "idle" /\ source' = source /\ asked' = NoPromise
      /\ dests' = [dests EXCEPT ![d] = Cleared]
      /\ promised' = [promised EXCEPT ![d] = NoPromise]
      /\ reply' = [status |-> "ok", detail |-> "released"]
      /\ heap' = [b \in DOMAIN heap \ Freed(d) |-> heap[b]]
  BY DEF Release
<1>2. /\ dests'[d] = Cleared /\ promised'[d] = NoPromise
      /\ \A e \in Dests : e # d => dests'[e] = dests[e] /\ promised'[e] = promised[e]
  BY <1>1 DEF IInv, TypeOK
\* The block of d, and no other, is freed.
<1>3. DOMAIN heap' = DOMAIN heap \ {dests[d].storage}
  <2>1. NoBlock \notin DOMAIN heap BY OwnersAssumption DEF IInv, TypeOK
  <2>2. CASE dests[d].storage = NoBlock BY <1>1, <2>1, <2>2 DEF Freed
  <2>3. CASE dests[d].storage # NoBlock
    <3>1. dests[d].allocator \in Makers BY <2>3 DEF IInv, TypeOK, OwnedOnce
    <3>2. dests[d].allocator # Blank BY <3>1, OwnersAssumption DEF Makers
    <3> QED BY <1>1, <3>2 DEF Freed
  <2> QED BY <2>2, <2>3
<1>4. /\ \A b \in DOMAIN heap' : b \in DOMAIN heap /\ heap'[b] = heap[b]
      /\ heap' = [b \in DOMAIN heap' |-> heap'[b]]
  BY <1>1, <1>3
<1>5. TypeOK'
  <2>1. \A b \in DOMAIN heap' : /\ b \in Blocks /\ heap'[b].maker \in Makers
                                /\ heap'[b].size \in 1..(W - 1)
    BY <1>4 DEF IInv, TypeOK
  <2> QED BY <1>1, <1>4, <2>1, ClearedTyped DEF IInv, TypeOK
<1>6. \A e \in Dests : e # d /\ dests[e].storage # NoBlock =>
          /\ dests[e].storage # dests[d].storage
          /\ dests[e].storage \in DOMAIN heap'
          /\ heap'[dests[e].storage] = heap[dests[e].storage]
  BY <1>3, <1>4 DEF IInv, OwnedOnce
<1>7. OwnedOnce'
  <2>1. ASSUME NEW b \in DOMAIN heap' PROVE \E e \in Dests : dests'[e].storage = b
    <3>1. PICK e \in Dests : dests[e].storage = b BY <1>4 DEF IInv, OwnedOnce
    <3>2. e # d BY <1>3, <3>1
    <3> QED BY <1>2, <3>1, <3>2
  <2>2. ASSUME NEW e \in Dests, dests'[e].storage # NoBlock
        PROVE  /\ dests'[e].storage \in DOMAIN heap'
               /\ heap'[dests'[e].storage].maker = dests'[e].allocator
               /\ \A f \in Dests : dests'[f].storage = dests'[e].storage => f = e
    <3>1. e # d /\ dests'[e] = dests[e] BY <1>2, <2>2, ClearedTyped
    <3>2. \A f \in Dests : dests[f].storage = dests[e].storage => f = e
      BY <2>2, <3>1 DEF IInv, OwnedOnce
    <3>3. \A f \in Dests : dests'[f].storage = dests'[e].storage => f = e
      BY <1>2, <2>2, <3>1, <3>2, ClearedTyped
    <3>4. heap[dests[e].storage].maker = dests[e].allocator
      BY <2>2, <3>1 DEF IInv, OwnedOnce
    <3> QED BY <1>6, <2>2, <3>1, <3>3, <3>4
  <2> QED BY <2>1, <2>2 DEF OwnedOnce
<1>8. InBounds' BY <1>4 DEF IInv, InBounds
<1>9. TextsIntact'
  <2> SUFFICES ASSUME NEW e \in Dests, promised'[e] # NoPromise
               PROVE  Shows(dests'[e], promised'[e], heap')
    BY DEF TextsIntact
  <2>1. e # d /\ dests'[e] = dests[e] /\ promised'[e] = promised[e] BY <1>2
  <2>2. Shows(dests[e], promised[e], heap) BY <2>1 DEF IInv, TextsIntact
  <2> QED BY <1>6, <2>1, <2>2, ShowsLocal
<1>10. LimitExact' /\ Measured' BY <1>1 DEF LimitExact, Measured
<1> QED BY <1>5, <1>7, <1>8, <1>9, <1>10 DEF IInv

\* Callback keeps the invariant.
LEMMA CallbackInv == ASSUME IInv, NEW s \in Sources, Callback(s) PROVE IInv'
<1>1. LimitExact' /\ Measured'
  BY DEF Callback, IInv, LimitExact, Measured
<1> QED BY <1>1, QuietInv DEF Callback, IInv, TypeOK

\* Produce keeps the invariant.
LEMMA ProduceInv == ASSUME IInv, NEW s \in Sources, Produce(s) PROVE IInv'
<1>1. LimitExact' /\ Measured' BY DEF Produce, LimitExact, Measured
<1> QED BY <1>1, QuietInv DEF Produce

\* RejectDestination keeps the invariant.
LEMMA RejectDestinationInv == ASSUME IInv, RejectDestination PROVE IInv'
<1>1. LimitExact' /\ Measured' BY DEF RejectDestination, LimitExact, Measured
<1> QED BY <1>1, QuietInv DEF RejectDestination, IInv, TypeOK

\* A stuttering step keeps the invariant.
LEMMA StutterInv == ASSUME IInv, UNCHANGED vars PROVE IInv'
<1>1. LimitExact' /\ Measured' BY DEF vars, IInv, LimitExact, Measured
<1> QED BY <1>1, QuietInv DEF vars, IInv, TypeOK

\* Every step keeps the invariant.
LEMMA NextInv == IInv /\ [Next]_vars => IInv'
<1> SUFFICES ASSUME IInv, [Next]_vars PROVE IInv' OBVIOUS
<1>1. ASSUME NEW d \in Dests, NEW a \in Allocators, CopyOwned(d, a) PROVE IInv'
  BY <1>1, CopyOwnedInv
<1>2. ASSUME NEW d \in Dests, NEW a \in Allocators, NEW sized \in BOOLEAN,
             NEW n \in Limits, CopyWithOptions(d, sized, a, n)
      PROVE  IInv'
  BY <1>2, CopyWithOptionsInv
<1>3. ASSUME NEW s \in Sources, Callback(s) \/ Produce(s) PROVE IInv'
  BY <1>3, CallbackInv, ProduceInv
<1>4. CASE AllocFails BY <1>4, AllocFailsInv
<1>5. ASSUME NEW b \in Blocks, Allocates(b) PROVE IInv' BY <1>5, AllocatesInv
<1>6. CASE CopiesNothing BY <1>6, CopiesNothingInv
<1>7. ASSUME NEW d \in Dests, Release(d) PROVE IInv' BY <1>7, ReleaseInv
<1>8. CASE RejectDestination BY <1>8, RejectDestinationInv
<1>9. CASE UNCHANGED vars BY <1>9, StutterInv
<1> QED BY <1>1, <1>2, <1>3, <1>4, <1>5, <1>6, <1>7, <1>8, <1>9 DEF Next
-----------------------------------------------------------------------------
(* Theorems *)

\* The inductive invariant of ulk_owned_response.c holds throughout.
THEOREM Invariance == Spec => []IInv
BY InitInv, NextInv, PTL DEF Spec

\* Every variable has its type: a copy in progress has a usable allocator and
\* a destination that owns nothing.
THEOREM TypeCorrect == Spec => []TypeOK
<1>1. IInv => TypeOK BY DEF IInv
<1> QED BY <1>1, Invariance, PTL

\* Whatever is copied, refused and released, and wherever an allocation fails,
\* every block has one owner, which frees it with the allocator that made it.
THEOREM Ownership == Spec => []OwnedOnce
<1>1. IInv => OwnedOnce BY DEF IInv
<1> QED BY <1>1, Invariance, PTL

\* For every word size, no memcpy of a copy leaves its block.
THEOREM CopyInBounds == Spec => []InBounds
<1>1. IInv => InBounds BY DEF IInv
<1> QED BY <1>1, Invariance, PTL

\* An owned response shows, byte for byte, the texts the source had when the
\* copy was called, although the allocator may rewrite the source.
THEOREM TextsPreserved == Spec => []TextsIntact
<1>1. IInv => TextsIntact BY DEF IInv
<1> QED BY <1>1, Invariance, PTL

\* The size checks decide by the true sum of the sizes, which no word may
\* hold: exactly the limit is accepted, one byte more is not.
THEOREM ExactLimit == Spec => []LimitExact
<1>1. IInv => LimitExact BY DEF IInv
<1> QED BY <1>1, Invariance, PTL
=============================================================================
