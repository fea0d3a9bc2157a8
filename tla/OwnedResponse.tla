--------------------------- MODULE OwnedResponse ----------------------------
(***************************************************************************)
(* Owned command responses (ulk_owned_response.c): a borrowed response is  *)
(* copied into one block of an allocator and released later.               *)
(*                                                                         *)
(* The allocator is caller code and runs in the middle of the copy, after  *)
(* the source was validated and measured and before its bytes are copied.  *)
(* It may rewrite the borrowed response structure (not the texts, which    *)
(* the caller guarantees for the call), so a copy is two steps with the    *)
(* callback between them.                                                  *)
(*                                                                         *)
(* A response is its three texts: payload, error message, error detail.    *)
(* Byte i of text t is <<t, i>>.  Sizes are words of ulk_size, below W.    *)
(***************************************************************************)
EXTENDS Integers

CONSTANTS
    Texts,         \* the texts a response may point to
    Size,          \* their sizes
    W,             \* 2^64, one more than the largest ulk_size
    AddrMax,       \* SIZE_MAX
    DefaultLimit,  \* ULK_OWNED_COMMAND_RESPONSE_DEFAULT_MAXIMUM_TOTAL_BYTES_V1
    Sources,       \* the borrowed responses that callers copy
    Dests,         \* the owned responses that callers keep
    Blocks,        \* addresses of allocated blocks
    NoBlock,       \* the null pointer
    Custom,        \* allocators with both callbacks
    Library,       \* malloc and free
    Blank,         \* an allocator without callbacks, or no allocator
    Half,          \* an allocator with one callback, or a short one
    Limits,        \* values of maximum_total_bytes
    NoPromise      \* no response was copied

Parts == [1..3 -> Texts]

ASSUME WordAssumption ==
    /\ W \in Nat \ {0}
    /\ AddrMax \in 0..(W - 1)
    /\ DefaultLimit \in 1..AddrMax
    /\ Limits \subseteq 0..(W - 1)
    /\ Size \in [Texts -> 0..(W - 1)]
ASSUME SourcesAssumption == Sources \subseteq [valid : BOOLEAN, parts : Parts]
ASSUME OwnersAssumption ==
    /\ NoBlock \notin Blocks
    /\ NoPromise \notin Parts
    /\ Half \notin Custom \cup {Library, Blank}
    /\ Blank \notin Custom \cup {Library}

VARIABLES
    source,    \* the borrowed response
    dests,     \* the owned responses
    heap,      \* the allocated blocks
    pc,        \* "idle", or "alloc" inside a copy
    asked,     \* the locals of a copy, kept until the next call
    promised,  \* the texts each owned response was made from
    reply      \* what the last call returned

vars == <<source, dests, heap, pc, asked, promised, reply>>

Allocators == Custom \cup {Library, Blank, Half}
-----------------------------------------------------------------------------
(* Sizes *)

\* Mutant: the sum is not checked.
Adds_Unchecked(l, r) == TRUE

\* ulk_owned_size_add succeeds.
Adds(l, r) == l <= (W - 1) - r

\* The sum of two words.
WordSum(l, r) == IF l + r < W THEN l + r ELSE l + r - W

\* storage_size
Total(p) == WordSum(WordSum(Size[p[1]], Size[p[2]]), Size[p[3]])

\* Mutant: a response of exactly the limit is refused.
Accepts_Below(p, limit) ==
    /\ Adds(Size[p[1]], Size[p[2]])
    /\ Adds(WordSum(Size[p[1]], Size[p[2]]), Size[p[3]])
    /\ Total(p) < limit /\ Total(p) <= AddrMax

\* The size checks of ulk_command_response_copy_owned_with_limit.
Accepts(p, limit) ==
    /\ Adds(Size[p[1]], Size[p[2]])
    /\ Adds(WordSum(Size[p[1]], Size[p[2]]), Size[p[3]])
    /\ Total(p) <= limit /\ Total(p) <= AddrMax
-----------------------------------------------------------------------------
(* Storage *)

NoView == [at |-> 0, len |-> 0]

\* ulk_owned_response_reset: the cleared response, which owns nothing.
Cleared == [storage |-> NoBlock, allocator |-> Blank,
            views |-> [k \in 1..3 |-> NoView]]

\* Where the cursor is when each text is copied, and again when its view is
\* made.
Cursor(p) == <<0, Size[p[1]], Size[p[1]] + Size[p[2]]>>

Extent(p) == Size[p[1]] + Size[p[2]] + Size[p[3]]

\* The bytes that the three memcpy calls write.
Written(p) ==
    [i \in 0..(Extent(p) - 1) |->
        IF i < Size[p[1]] THEN <<p[1], i>>
        ELSE IF i < Size[p[1]] + Size[p[2]] THEN <<p[2], i - Size[p[1]]>>
        ELSE <<p[3], i - Size[p[1]] - Size[p[2]]>>]

Views(p) ==
    [k \in 1..3 |->
        IF Size[p[k]] = 0 THEN NoView
        ELSE [at |-> Cursor(p)[k], len |-> Size[p[k]]]]

\* Mutant: the source is read again after the callback.
SourceValue_Late == source.parts

\* source_value, taken before the callback.
SourceValue == asked.parts

\* Mutant: a destination that owns storage is taken again.
Available_Any(d) == TRUE

\* ulk_owned_destination_is_available
Available(d) == dests[d].storage = NoBlock

\* ulk_owned_allocator_select
Effective(a) == IF a = Blank THEN Library ELSE a
-----------------------------------------------------------------------------
(* Copy *)

\* Clear the destination and fail.
Refuse(d, status, detail) ==
    /\ dests' = [dests EXCEPT ![d] = Cleared]
    /\ promised' = [promised EXCEPT ![d] = NoPromise]
    /\ pc' = "idle"
    /\ reply' = [status |-> status, detail |-> detail]
    /\ UNCHANGED <<source, heap>>

\* A copy up to the call of the allocator.
CopyWithLimit(d, a, limit) ==
    /\ pc = "idle"
    /\ asked' = [dest |-> d, parts |-> source.parts, limit |-> limit,
                 total |-> Total(source.parts), allocator |-> Effective(a)]
    /\ \/ /\ ~Available(d)
          /\ reply' = [status |-> "invalid", detail |-> "owned"]
          /\ UNCHANGED <<source, dests, heap, pc, promised>>
       \/ /\ Available(d)
          /\ ~source.valid \/ a = Half
          /\ Refuse(d, "invalid", "argument")
       \/ /\ Available(d) /\ source.valid /\ a # Half
          /\ ~Accepts(source.parts, limit)
          /\ Refuse(d, "invalid", "size")
       \/ /\ Available(d) /\ source.valid /\ a # Half
          /\ Accepts(source.parts, limit)
          /\ pc' = "alloc"
          /\ reply' = [status |-> "ok", detail |-> "copying"]
          /\ UNCHANGED <<source, dests, heap, promised>>

\* ulk_command_response_copy_owned_v1
CopyOwned(d, a) == CopyWithLimit(d, a, DefaultLimit)

\* ulk_command_response_copy_owned_with_options_v1, with options that have the
\* right size or not; no options at all are those with allocator Blank and
\* limit 0.
CopyWithOptions(d, sized, a, n) ==
    \/ /\ pc = "idle" /\ Available(d)
       /\ ~sized \/ n > AddrMax
       /\ Refuse(d, "invalid", "options")
       /\ asked' = NoPromise
    \/ /\ Available(d) => sized /\ n <= AddrMax
       /\ CopyWithLimit(d, a, IF n = 0 THEN DefaultLimit ELSE n)

\* The allocator runs and rewrites the borrowed response.
Callback(s) ==
    /\ pc = "alloc" /\ asked.total # 0
    /\ source' = s
    /\ UNCHANGED <<dests, heap, pc, asked, promised, reply>>

AllocFails ==
    /\ pc = "alloc" /\ asked.total # 0
    /\ Refuse(asked.dest, "error", "memory")
    /\ UNCHANGED asked

\* The end of a copy into block b, or into none.
Complete(b) ==
    /\ dests' = [dests EXCEPT ![asked.dest] =
          [storage |-> b, allocator |-> asked.allocator, views |-> Views(SourceValue)]]
    /\ promised' = [promised EXCEPT ![asked.dest] = asked.parts]
    /\ pc' = "idle"
    /\ reply' = [status |-> "ok", detail |-> "copied"]
    /\ UNCHANGED <<source, asked>>

\* The allocator returns block b.
Allocates(b) ==
    /\ pc = "alloc" /\ asked.total # 0
    /\ b \notin DOMAIN heap
    /\ heap' = [c \in DOMAIN heap \cup {b} |->
          IF c # b THEN heap[c]
          ELSE [maker |-> asked.allocator, size |-> asked.total,
                bytes |-> Written(SourceValue)]]
    /\ Complete(b)

\* Nothing to store.
CopiesNothing ==
    /\ pc = "alloc" /\ asked.total = 0
    /\ Complete(NoBlock)
    /\ UNCHANGED heap
-----------------------------------------------------------------------------
(* Release, and the caller *)

\* The block that a release frees, if any; NoBlock is never in the heap.
Freed(d) == IF dests[d].allocator = Blank THEN {} ELSE {dests[d].storage}

\* ulk_owned_command_response_release_v1
Release(d) ==
    /\ pc = "idle"
    /\ heap' = [b \in DOMAIN heap \ Freed(d) |-> heap[b]]
    /\ dests' = [dests EXCEPT ![d] = Cleared]
    /\ promised' = [promised EXCEPT ![d] = NoPromise]
    /\ asked' = NoPromise
    /\ reply' = [status |-> "ok", detail |-> "released"]
    /\ UNCHANGED <<source, pc>>

\* The next command writes another borrowed response over the last one.
Produce(s) ==
    /\ pc = "idle"
    /\ source' = s
    /\ asked' = NoPromise
    /\ reply' = [status |-> "ok", detail |-> "none"]
    /\ UNCHANGED <<dests, heap, pc, promised>>

\* A null or short destination: nothing is touched.
RejectDestination ==
    /\ pc = "idle"
    /\ asked' = NoPromise
    /\ reply' = [status |-> "invalid", detail |-> "destination"]
    /\ UNCHANGED <<source, dests, heap, pc, promised>>
-----------------------------------------------------------------------------
Init ==
    /\ source \in Sources
    /\ dests = [d \in Dests |-> Cleared]
    /\ heap = [b \in {} |-> Cleared]
    /\ pc = "idle"
    /\ asked = NoPromise
    /\ promised = [d \in Dests |-> NoPromise]
    /\ reply = [status |-> "ok", detail |-> "none"]

Next ==
    \/ \E d \in Dests, a \in Allocators :
          \/ CopyOwned(d, a)
          \/ \E sized \in BOOLEAN, n \in Limits : CopyWithOptions(d, sized, a, n)
    \/ \E s \in Sources : Callback(s) \/ Produce(s)
    \/ AllocFails
    \/ \E b \in Blocks : Allocates(b)
    \/ CopiesNothing
    \/ \E d \in Dests : Release(d)
    \/ RejectDestination

Spec == Init /\ [][Next]_vars
-----------------------------------------------------------------------------
(* Properties *)

Makers == Custom \cup {Library}

AskedRecords ==
    [dest : Dests, parts : Parts, limit : 0..(W - 1), total : 0..(W - 1),
     allocator : Allocators]

\* Every variable has its type, and inside a copy the destination owns
\* nothing.
TypeOK ==
    /\ source \in Sources
    /\ dests \in [Dests -> [storage : Blocks \cup {NoBlock}, allocator : Makers \cup {Blank},
                            views : [1..3 -> [at : Nat, len : Nat]]]]
    /\ heap = [b \in DOMAIN heap |-> heap[b]]
    /\ \A b \in DOMAIN heap :
          b \in Blocks /\ heap[b].maker \in Makers /\ heap[b].size \in 1..(W - 1)
    /\ promised \in [Dests -> Parts \cup {NoPromise}]
    /\ pc \in {"idle", "alloc"}
    /\ asked \in AskedRecords \cup {NoPromise}
    /\ pc = "alloc" =>
          /\ asked \in AskedRecords /\ asked.allocator \in Makers
          /\ dests[asked.dest].storage = NoBlock

\* Every block has exactly one owner, which will free it with the allocator
\* that made it: no leak after a failed or a refused copy, no double free
\* however often a response is released or copied over.
OwnedOnce ==
    /\ \A b \in DOMAIN heap : \E d \in Dests : dests[d].storage = b
    /\ \A d \in Dests : dests[d].storage # NoBlock =>
          /\ dests[d].storage \in DOMAIN heap
          /\ heap[dests[d].storage].maker = dests[d].allocator
          /\ \A e \in Dests : dests[e].storage = dests[d].storage => e = d

\* The three memcpy calls stay within the block, also when the sizes add up
\* to more than a word holds.
InBounds ==
    \A b \in DOMAIN heap : \A i \in DOMAIN heap[b].bytes : i < heap[b].size

\* With heap h, the views of the owned response r show the texts p.
Shows(r, p, h) ==
    \A k \in 1..3 :
        LET v == r.views[k]
        IN  /\ v.len = Size[p[k]]
            /\ \A i \in 0..(v.len - 1) :
                  /\ r.storage # NoBlock
                  /\ v.at + i \in DOMAIN h[r.storage].bytes
                  /\ h[r.storage].bytes[v.at + i] = <<p[k], i>>

\* owned_responses.md: "Copying preserves their exact byte lengths".  The views
\* of an owned response show, byte for byte, the texts the source had when the
\* copy was called, whatever the allocator did to the source meanwhile and
\* whatever was copied and released since.
TextsIntact ==
    \A d \in Dests : promised[d] # NoPromise => Shows(dests[d], promised[d], heap)

\* owned_responses.md: "A response exactly at the selected boundary is
\* accepted; a larger, unrepresentable, or overflowing response is rejected
\* before allocation".  Measured by the true sum, which no word need hold.
LimitExact ==
    asked # NoPromise =>
        /\ reply.detail = "size" => Extent(asked.parts) > asked.limit
        /\ pc = "alloc" \/ reply.detail = "copied" => Extent(asked.parts) <= asked.limit

\* Inside a copy storage_size is the true sum and within the limit.
Measured ==
    pc = "alloc" =>
        /\ asked.total = Extent(asked.parts)
        /\ Extent(asked.parts) <= asked.limit

\* The inductive invariant.
IInv ==
    /\ TypeOK /\ OwnedOnce /\ InBounds /\ TextsIntact /\ LimitExact
    /\ Measured
=============================================================================
