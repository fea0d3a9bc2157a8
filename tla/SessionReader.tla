---------------------------- MODULE SessionReader ---------------------------
(***************************************************************************)
(* A client of the session journal that follows the two-call buffer law of *)
(* ulk_session.h: it asks with no buffer for the capacity it needs, brings *)
(* a buffer of that capacity, and, when the answer has outgrown it in the  *)
(* meantime, brings a larger one.  Between any two of its calls other      *)
(* processes commit and evict records.                                     *)
(*                                                                         *)
(* A call holds the lock of the root from its scan to its return, so it is *)
(* one step on the store; that is what SessionJournal's ReadersCurrent     *)
(* says, and SessionStore is what the other processes may do.              *)
(***************************************************************************)
EXTENDS SessionRecords, FiniteSetsExt

CONSTANTS
    RecordSize,   \* the JSON bytes of a record, by its terminal payload
    ListSize,     \* the JSON bytes around the records of a list
    Questions     \* what the client may ask: [op, arg]

ASSUME SizeAssumption ==
    /\ RecordSize \in [Results \cup {NoResult} -> Nat \ {0}]
    /\ ListSize \in Nat \ {0}

VARIABLES
    store,      \* the sessions directory
    question,   \* what this client asks
    client,     \* "probe", "fetch", or how it ended: "filled", "not_found"
    capacity,   \* the buffer it brought
    required    \* *required_capacity after the last call

vars == <<store, question, client, capacity, required>>

Others == INSTANCE SessionStore

Init ==
    /\ Others!Init
    /\ question \in Questions
    /\ client = "probe"
    /\ capacity = 0 /\ required = 0
-----------------------------------------------------------------------------
\* The records a call renders: the newest that matches, or the newest ones up
\* to the limit.
Selected(q) ==
    LET match == {s \in Present(store) :
                     CASE q.op = "inspect"  -> store[s].id = q.arg
                       [] q.op = "last_run" -> store[s].run = q.arg
                       [] q.op = "list"     -> q.arg = 0 \/ Rank(store, s) < q.arg}
    IN  IF q.op = "list" THEN match
        ELSE {s \in match : \A t \in match \ {s} : Newer(store[s], store[t])}

\* Only a lookup can find nothing; a list of nothing is a list.
Finds(q) == q.op = "list" \/ Selected(q) # {}

\* The bytes of the JSON text, and of the NUL that ends it.
Needed(q) ==
    MapThenSumSet(LAMBDA s : RecordSize[store[s].result], Selected(q))
    + (IF q.op = "list" THEN ListSize ELSE 0) + 1

\* Mutant: the capacity is told only when the call succeeds.
Tells_OnSuccess(probe) ==
    required' = IF probe \/ capacity >= Needed(question) THEN Needed(question)
                ELSE required

\* ulk_copy_json: the required capacity is told before anything else, so
\* that a buffer that is too small learns it as well.
Tells(probe) == required' = Needed(question)

\* The buffer does not hold the text and its NUL.
TooSmall(size) == capacity < size

NotFound ==
    /\ ~ Finds(question)
    /\ required' = 0
    /\ client' = "not_found"
    /\ UNCHANGED <<store, question, capacity>>

Probe ==
    /\ client = "probe"
    /\ \/ NotFound
       \/ /\ Finds(question)
          /\ Tells(TRUE)
          /\ capacity' = Needed(question)
          /\ client' = "fetch"
          /\ UNCHANGED <<store, question>>

\* The second call, and the client's answer to a buffer that is too small.
Fetch ==
    /\ client = "fetch"
    /\ \/ NotFound
       \/ /\ Finds(question)
          /\ Tells(FALSE)
          /\ IF TooSmall(Needed(question))
             THEN /\ capacity' = required'
                  /\ UNCHANGED client
             ELSE /\ client' = "filled"
                  /\ UNCHANGED capacity
          /\ UNCHANGED <<store, question>>

OthersStep ==
    /\ Others!Next
    /\ UNCHANGED <<question, client, capacity, required>>

Next == Probe \/ Fetch \/ OthersStep

\* The client goes on until it has its answer.
Spec == Init /\ [][Next]_vars /\ WF_vars(Probe \/ Fetch)
-----------------------------------------------------------------------------
(* Properties *)

(***************************************************************************)
(* The client gets an answer: retrying with the capacity that the refused  *)
(* call told ends once the other processes stop changing the answer.       *)
(***************************************************************************)
ClientAnswered == <>(client \in {"filled", "not_found"})
=============================================================================
