--------------------------- MODULE SessionJournal ---------------------------
(***************************************************************************)
(* The session journal of ulk_session.c: processes that call write,        *)
(* inspect, last_run and list on one journal root, step by step, under the *)
(* per-root lock; with storage faults and with crashes between any two     *)
(* steps.                                                                  *)
(*                                                                         *)
(* A call runs through                                                     *)
(*                                                                         *)
(*   idle -> lock -> locked -> scanned -+-> done -> idle         (readers) *)
(*                                      |                                  *)
(*                                      +-> stage -> open -> staged ->     *)
(*                                          committed -> retain -> done    *)
(*                                                                         *)
(* and every error goes straight to done, the code's "cleanup" label.      *)
(* Readers and writers validate the journal descriptor alike; only a write *)
(* is made here with a maximum_records that is out of range.               *)
(***************************************************************************)
EXTENDS SessionRecords

CONSTANTS
    Procs,       \* callers: processes or threads
    NoProc,      \* the owner of a free lock
    Maxima,      \* values of maximum_records that callers pass
    InspectIds,  \* session IDs that callers inspect
    LastRunKeys, \* runnable references that callers look up
    Limits,      \* limits that callers pass to list
    NoCall, NoRecord, NoReply,
    MaxFaults    \* bound on crashes and storage faults in a behaviour

ASSUME MaximaAssumption   == Maxima \subseteq Nat /\ Limits \subseteq Nat
ASSUME KeysAssumption     ==
    InspectIds \subseteq Sessions /\ LastRunKeys \subseteq Runnables \cup {EmptyText}
ASSUME FaultsAssumption   == MaxFaults \in Nat
ASSUME NoProcAssumption   == NoProc \notin Procs

VARIABLES
    files,    \* the *.session files of the sessions directory
    temps,    \* the *.session.tmp files beside them
    lock,     \* the owner of .ulk-session.lock
    pc,       \* where each process is in its call
    call,     \* what it called
    request,  \* "requested": the record it writes
    snap,     \* "set": what its last scan read
    doomed,   \* the records its retention loop has still to remove
    reply,    \* what the call returns
    faults    \* crashes and storage faults so far

vars == <<files, temps, lock, pc, call, request, snap, doomed, reply, faults>>

Store == INSTANCE SessionStore WITH store <- files

Buffers == {"probe", "fits", "short"}
NoFiles == [s \in Sessions |-> NoFile]
-----------------------------------------------------------------------------
(* Steps every call is made of *)

Goto(p, l) == pc' = [pc EXCEPT ![p] = l]

Answer(status, detail, recs) ==
    [status |-> status, detail |-> detail, recs |-> recs]

\* Set the reply and go to the code's cleanup.
Finish(p, answer) ==
    /\ Goto(p, "done")
    /\ reply' = [reply EXCEPT ![p] = answer]

\* Mutant: cleanup without ulk_release_lock.
Reset_KeepLock(p) ==
    /\ Goto(p, "idle")
    /\ call'    = [call EXCEPT ![p] = NoCall]
    /\ request' = [request EXCEPT ![p] = NoRecord]
    /\ snap'    = [snap EXCEPT ![p] = NoFiles]
    /\ doomed'  = [doomed EXCEPT ![p] = {}]
    /\ reply'   = [reply EXCEPT ![p] = NoReply]
    /\ UNCHANGED lock

\* Forget the call: what returning and crashing have in common.
Reset(p) ==
    /\ Goto(p, "idle")
    /\ call'    = [call EXCEPT ![p] = NoCall]
    /\ request' = [request EXCEPT ![p] = NoRecord]
    /\ snap'    = [snap EXCEPT ![p] = NoFiles]
    /\ doomed'  = [doomed EXCEPT ![p] = {}]
    /\ reply'   = [reply EXCEPT ![p] = NoReply]
    /\ lock'    = IF lock = p THEN NoProc ELSE lock

\* Enter a call: with bad input it ends at once, otherwise it prepares the
\* root and goes on to the lock.
Enter(p, c, valid) ==
    /\ pc[p] = "idle"
    /\ call' = [call EXCEPT ![p] = c]
    /\ IF valid
       THEN Goto(p, "lock") /\ UNCHANGED reply
       ELSE Finish(p, Answer("invalid", "invalid_argument", {}))
    /\ UNCHANGED <<files, temps, lock, snap, doomed, faults>>

Window(c) == IF c.arg = 0 THEN DefaultRecords ELSE c.arg

WriteCall(p, r, m) ==
    /\ Enter(p, [op |-> "write", arg |-> m, out |-> "probe"],
             RecordValid(r) /\ m <= MaxRecords)
    /\ request' = [request EXCEPT ![p] = FromPublic(r)]

LookupCall(p, op, key, out) ==
    /\ Enter(p, [op |-> op, arg |-> key, out |-> out], key # EmptyText)
    /\ UNCHANGED request

ListCall(p, n, out) ==
    /\ Enter(p, [op |-> "list", arg |-> n, out |-> out], n <= MaxRecords)
    /\ UNCHANGED request

\* ulk_prepare_root refuses the root, the lock file cannot be opened, or
\* (Windows) another process has it open: no file of the journal is touched.
\* The details that tell these apart are one detail here.
Unavailable(p) ==
    /\ pc[p] = "lock"
    /\ Finish(p, Answer("error", "session_lock_unavailable", {}))
    /\ UNCHANGED <<files, temps, lock, call, request, snap, doomed, faults>>

\* Mutant: the lock call's result is ignored.
AcquireLock_Unchecked(p) ==
    /\ pc[p] = "lock"
    /\ lock' = p
    /\ Goto(p, "locked")
    /\ UNCHANGED <<files, temps, call, request, snap, doomed, reply, faults>>

AcquireLock(p) ==
    /\ pc[p] = "lock"
    /\ lock = NoProc
    /\ lock' = p
    /\ Goto(p, "locked")
    /\ UNCHANGED <<files, temps, call, request, snap, doomed, reply, faults>>

\* The scan after the lock is taken.
Scan(p) ==
    /\ pc[p] = "locked"
    /\ Scannable(files)
    /\ snap' = [snap EXCEPT ![p] = files]
    /\ Goto(p, "scanned")
    /\ UNCHANGED <<files, temps, lock, call, request, doomed, reply, faults>>

\* The scan meets a bad file, or one file too many.  Which of several
\* problems it meets first depends on the directory's enumeration order.
ScanFails(p) ==
    /\ pc[p] = "locked"
    /\ \/ /\ \E s \in Sessions : files[s] = Future
          /\ Finish(p, Answer("error", "session_record_incompatible", {}))
       \/ /\ (\E s \in Sessions : files[s] = Corrupt) \/ ~Fits(files)
          /\ Finish(p, Answer("error", "session_record_corrupt", {}))
    /\ UNCHANGED <<files, temps, lock, call, request, snap, doomed, faults>>
-----------------------------------------------------------------------------
(* Write *)

IdentityConflict(e, r) == e.ident = r.ident /\ e.id # r.id

\* The records at which the loop over the snapshot leaves the call.
Stops(f, r) ==
    {s \in Present(f) :
        \/ IdentityConflict(f[s], r)
        \/ f[s].id = r.id /\ (SameContent(f[s], r) \/ ~TransitionValid(f[s], r))}

\* s comes first in S in the sorted snapshot f.
First(f, S, s) == s \in S /\ \A t \in S \ {s} : Newer(f[s], f[t])

Verdict(e, r) ==
    IF e.id # r.id THEN Answer("error", "session_operation_identity_conflict", {})
    ELSE IF SameContent(e, r) THEN Answer("ok", "idempotent", {})
    ELSE IF e.state = "terminal"
         THEN Answer("error", "session_terminal_immutable", {})
         ELSE Answer("error", "session_idempotency_conflict", {})

\* The loop stops at a record: an equal one is success, another an error.
Stopped(p) ==
    /\ pc[p] = "scanned" /\ call[p].op = "write"
    /\ \E s \in Sessions :
          /\ First(snap[p], Stops(snap[p], request[p]), s)
          /\ Finish(p, Verdict(snap[p][s], request[p]))
    /\ UNCHANGED <<files, temps, lock, call, request, snap, doomed, faults>>

\* Mutant: a replacement takes a fresh order.
KeepsOrder_Never(f, r) == FALSE

\* r replaces a record that has a commit order already.
KeepsOrder(f, r) == r.id \in Present(f) /\ f[r.id].order > 0

\* Mutant: INT64_MAX is not checked for.
Exhausted_Never(top) == FALSE

Exhausted(top) == top = MaxOrder

\* Mutant: the largest order is used again.
OrderAfter_Same(top) == IF top = 0 THEN 1 ELSE top

OrderAfter(top) == top + 1

\* The loop runs to its end.  The record takes the order of the v2 record it
\* replaces, and otherwise the order after the largest one, if there is one.
AssignOrder(p) ==
    LET r == request[p]
        f == snap[p]
        Take(n) == /\ request' = [request EXCEPT ![p] = [r EXCEPT !.order = n]]
                   /\ Goto(p, "stage")
                   /\ UNCHANGED reply
    IN  /\ pc[p] = "scanned" /\ call[p].op = "write"
        /\ Stops(f, r) = {}
        /\ \/ KeepsOrder(f, r) /\ Take(f[r.id].order)
           \/ /\ ~KeepsOrder(f, r)
              /\ \E top \in 0..MaxOrder :
                    /\ IsTop(f, top)
                    /\ \/ ~Exhausted(top) /\ Take(OrderAfter(top))
                       \/ /\ Exhausted(top)
                          /\ Finish(p, Answer("error", "session_commit_order_exhausted", {}))
                          /\ UNCHANGED request
        /\ UNCHANGED <<files, temps, lock, call, snap, doomed, faults>>

\* fopen(target.tmp, "wb") truncates whatever an earlier crash left there.
OpenTemp(p) ==
    /\ pc[p] = "stage"
    /\ temps' = [temps EXCEPT ![request[p].id] = Corrupt]
    /\ Goto(p, "open")
    /\ UNCHANGED <<files, lock, call, request, snap, doomed, reply, faults>>

\* fwrite, fflush, fsync, fclose: the temporary file is whole.
SyncTemp(p) ==
    /\ pc[p] = "open"
    /\ temps' = [temps EXCEPT ![request[p].id] = request[p]]
    /\ Goto(p, "staged")
    /\ UNCHANGED <<files, lock, call, request, snap, doomed, reply, faults>>

\* rename(target.tmp, target): the commit point.
Rename(p) ==
    /\ pc[p] = "staged"
    /\ files' = [files EXCEPT ![request[p].id] = temps[request[p].id]]
    /\ temps' = [temps EXCEPT ![request[p].id] = NoFile]
    /\ Goto(p, "committed")
    /\ UNCHANGED <<lock, call, request, snap, doomed, reply, faults>>

\* The second scan, which sorts the records for retention.
Rescan(p) ==
    /\ pc[p] = "committed"
    /\ Scannable(files)
    /\ snap' = [snap EXCEPT ![p] = files]
    /\ doomed' = [doomed EXCEPT ![p] =
                     Surplus(files, Window(call[p]))]
    /\ Goto(p, "retain")
    /\ UNCHANGED <<files, temps, lock, call, request, reply, faults>>

RescanFails(p) ==
    /\ pc[p] = "committed"
    /\ ~Scannable(files)
    /\ Finish(p, Answer("error", "session_commit_verification_failed", {}))
    /\ UNCHANGED <<files, temps, lock, call, request, snap, doomed, faults>>

\* One round of the retention loop: it removes the surplus from its newest
\* record to its oldest.
EvictNext(p) ==
    /\ pc[p] = "retain"
    /\ \E s \in doomed[p] :
          /\ First(snap[p], doomed[p], s)
          /\ files' = [files EXCEPT ![s] = NoFile]
          /\ doomed' = [doomed EXCEPT ![p] = @ \ {s}]
    /\ UNCHANGED <<temps, lock, pc, call, request, snap, reply, faults>>

Retained(p) ==
    /\ pc[p] = "retain"
    /\ doomed[p] = {}
    /\ Finish(p, Answer("ok", "committed", {}))
    /\ UNCHANGED <<files, temps, lock, call, request, snap, doomed, faults>>
-----------------------------------------------------------------------------
(* Inspect, Last Run, list *)

\* ulk_copy_json: a null buffer probes, a short one fails, a large one is
\* filled.
CopyJson(out, recs) ==
    CASE out = "probe" -> Answer("ok", "found", {})
      [] out = "fits"  -> Answer("ok", "found", recs)
      [] out = "short" -> Answer("error", "session_output_buffer_too_small", {})

\* ulk_validate_owned_record: a stored record is rendered only if it would
\* also be accepted as a request.
Renders(r) == RecordValid(r)

\* The records a lookup accepts: by session ID or by exact runnable reference.
Matches(f, c) ==
    IF c.op = "inspect" THEN {s \in Present(f) : f[s].id = c.arg}
                        ELSE {s \in Present(f) : f[s].run = CText(c.arg)}

Lookup(p) ==
    /\ pc[p] = "scanned" /\ call[p].op \in {"inspect", "last_run"}
    /\ \/ /\ Matches(snap[p], call[p]) = {}
          /\ Finish(p, Answer("ok", "not_found", {}))
       \/ \E s \in Sessions :
             /\ First(snap[p], Matches(snap[p], call[p]), s)
             /\ Finish(p, IF Renders(snap[p][s])
                          THEN CopyJson(call[p].out, {snap[p][s]})
                          ELSE Answer("error", "session_record_corrupt", {}))
    /\ UNCHANGED <<files, temps, lock, call, request, snap, doomed, faults>>

\* The records list renders: the first limit ones, all of them for limit 0.
Listed(f, c) ==
    {f[s] : s \in {t \in Present(f) : c.arg = 0 \/ Rank(f, t) < c.arg}}

List(p) ==
    /\ pc[p] = "scanned" /\ call[p].op = "list"
    /\ LET recs == Listed(snap[p], call[p])
       IN  Finish(p, IF \A r \in recs : Renders(r)
                     THEN CopyJson(call[p].out, recs)
                     ELSE Answer("error", "session_list_render_failed", {}))
    /\ UNCHANGED <<files, temps, lock, call, request, snap, doomed, faults>>
-----------------------------------------------------------------------------
(* The end of a call, faults and crashes *)

\* Cleanup: release the lock, if it was taken, and return.
Return(p) ==
    /\ pc[p] = "done"
    /\ Reset(p)
    /\ UNCHANGED <<files, temps, faults>>

Faulty == faults < MaxFaults /\ faults' = faults + 1

ReadFaultDetail(p) ==
    IF pc[p] = "committed" THEN "session_commit_verification_failed"
    ELSE IF pc[p] = "scanned" /\ call[p].op = "list"
         THEN "session_list_render_failed"
         ELSE "session_record_corrupt"

\* A read or an allocation fails: the scan, or the rendering of what it
\* read, reports a corrupt record or a commit that could not be verified.
ReadFault(p) ==
    /\ Faulty
    /\ \/ pc[p] \in {"locked", "committed"}
       \/ pc[p] = "scanned" /\ call[p].op = "list"
       \/ /\ pc[p] = "scanned" /\ call[p].op \in {"inspect", "last_run"}
          /\ Matches(snap[p], call[p]) # {}
    /\ Finish(p, Answer("error", ReadFaultDetail(p), {}))
    /\ UNCHANGED <<files, temps, lock, call, request, snap, doomed>>

\* Serialization, open, write, sync or rename fails (serialization has a
\* detail of its own in the code).  The temporary file, if it was opened, is
\* removed, unless the removal fails too.
WriteFault(p) ==
    /\ Faulty
    /\ pc[p] \in {"stage", "open", "staged"}
    /\ Finish(p, Answer("error", "session_atomic_write_failed", {}))
    /\ IF pc[p] = "stage" THEN UNCHANGED temps
       ELSE temps' \in {temps, [temps EXCEPT ![request[p].id] = NoFile]}
    /\ UNCHANGED <<files, lock, call, request, snap, doomed>>

EvictFault(p) ==
    /\ Faulty
    /\ pc[p] = "retain" /\ doomed[p] # {}
    /\ Finish(p, Answer("error", "session_retention_failed", {}))
    /\ UNCHANGED <<files, temps, lock, call, request, snap, doomed>>

\* The process dies.  The system releases its lock; the directory stays as
\* it is, a half-written temporary file included.
Crash(p) ==
    /\ Faulty
    /\ pc[p] # "idle"
    /\ Reset(p)
    /\ UNCHANGED <<files, temps>>
-----------------------------------------------------------------------------
Init ==
    /\ files \in InitialDirectories
    /\ temps = NoFiles
    /\ lock = NoProc
    /\ pc = [p \in Procs |-> "idle"]
    /\ call = [p \in Procs |-> NoCall]
    /\ request = [p \in Procs |-> NoRecord]
    /\ snap = [p \in Procs |-> NoFiles]
    /\ doomed = [p \in Procs |-> {}]
    /\ reply = [p \in Procs |-> NoReply]
    /\ faults = 0

\* The steps of a call once it has been made and nothing goes wrong outside.
Advance(p) ==
    \/ AcquireLock(p) \/ Scan(p) \/ ScanFails(p)
    \/ Stopped(p) \/ AssignOrder(p)
    \/ OpenTemp(p) \/ SyncTemp(p) \/ Rename(p)
    \/ Rescan(p) \/ RescanFails(p) \/ EvictNext(p) \/ Retained(p)
    \/ Lookup(p) \/ List(p)
    \/ Return(p)

Calls(p) ==
    \/ \E r \in Requests, m \in Maxima : WriteCall(p, r, m)
    \/ \E s \in InspectIds, out \in Buffers : LookupCall(p, "inspect", s, out)
    \/ \E t \in LastRunKeys, out \in Buffers : LookupCall(p, "last_run", t, out)
    \/ \E n \in Limits, out \in Buffers : ListCall(p, n, out)

Trouble(p) ==
    Unavailable(p) \/ ReadFault(p) \/ WriteFault(p) \/ EvictFault(p) \/ Crash(p)

Next == \E p \in Procs : Calls(p) \/ Advance(p) \/ Trouble(p)

Spec == Init /\ [][Next]_vars

\* A process in a call keeps running it: nothing in the code waits for
\* anything but the lock.  No fairness between waiters is assumed.
FairSpec == Spec /\ \A p \in Procs : WF_vars(Advance(p))
-----------------------------------------------------------------------------
(* Properties *)

Labels == {"idle", "lock", "locked", "scanned", "stage", "open", "staged",
           "committed", "retain", "done"}

CallRecords ==
    [op : {"write", "inspect", "last_run", "list"},
     arg : Nat \cup Sessions \cup Runnables \cup {EmptyText}, out : Buffers]

Details ==
    {"invalid_argument", "session_lock_unavailable",
     "session_record_incompatible", "session_record_corrupt",
     "session_operation_identity_conflict", "session_terminal_immutable",
     "session_idempotency_conflict", "session_commit_order_exhausted",
     "session_atomic_write_failed", "session_commit_verification_failed",
     "session_retention_failed", "session_output_buffer_too_small",
     "session_list_render_failed",
     "idempotent", "committed", "found", "not_found"}

Conflicts ==
    {"session_operation_identity_conflict", "session_terminal_immutable",
     "session_idempotency_conflict"}

Replies ==
    [status : {"ok", "error", "invalid"}, detail : Details, recs : SUBSET Records]

\* Every variable has its type, and a file is named after its record.
TypeOK ==
    /\ files \in [Sessions -> Slots]
    /\ temps \in [Sessions -> Slots]
    /\ lock \in Procs \cup {NoProc}
    /\ pc \in [Procs -> Labels]
    /\ call \in [Procs -> CallRecords \cup {NoCall}]
    /\ request \in [Procs -> Records \cup {NoRecord}]
    /\ snap \in [Procs -> [Sessions -> Slots]]
    /\ doomed \in [Procs -> SUBSET Sessions]
    /\ reply \in [Procs -> Replies \cup {NoReply}]
    /\ faults \in 0..MaxFaults
    /\ \A s \in Present(files) : files[s].id = s

\* The inductive invariant of the journal, in parts.  Past the lock a process
\* owns it, so what its scan read stays what is there.
LockInv ==
    \A p \in Procs :
        pc[p] \in {"locked", "scanned", "stage", "open", "staged", "committed", "retain"}
        => lock = p

\* A call keeps its arguments, a write until it has committed.
RequestInv ==
    \A p \in Procs :
        /\ pc[p] # "idle" => call[p] \in CallRecords
        /\ pc[p] \in {"lock", "locked", "scanned"} /\ call[p].op = "write" =>
              /\ call[p].arg \in Nat
              /\ \E r \in Requests : request[p] = FromPublic(r)
        /\ pc[p] \in {"stage", "open", "staged"} =>
              \E r \in Requests, n \in 1..MaxOrder :
                  request[p] = [FromPublic(r) EXCEPT !.order = n]
        /\ pc[p] \in {"stage", "open", "staged", "committed", "retain"} =>
              call[p].arg \in Nat

\* Between scan and commit the snapshot is the directory, the record fits
\* into it, and at the rename the temporary file holds that record.
CommitInv ==
    \A p \in Procs :
        /\ pc[p] \in {"scanned", "stage", "open", "staged"} =>
              snap[p] = files /\ Damaged(files) = {}
        /\ pc[p] \in {"stage", "open", "staged"} => MayCommit(files, request[p])
        /\ pc[p] = "staged" => temps[request[p].id] = request[p]

\* During retention the doomed records are there, and so is a record that is
\* newer than all of them.
RetainInv ==
    \A p \in Procs :
        pc[p] = "retain" =>
            /\ Damaged(files) = {}
            /\ doomed[p] \subseteq Present(files)
            /\ doomed[p] # {} => \E k \in Present(files) :
                                     \A s \in doomed[p] : Newer(files[k], files[s])

\* session_journal.md: "duplicate operation/attempt identities cannot name
\* different sessions".  No two retained records share an identity, whatever
\* the interleaving of writers, crashes and retention.
IdentityUnique ==
    \A s, t \in Present(files) : files[s].ident = files[t].ident => s = t

\* Two v2 records never carry the same commit order, so their sort order
\* never falls back to caller timestamps or session IDs.
OrdersDistinct ==
    \A s, t \in Present(files) :
        files[s].order = files[t].order /\ files[s].order > 0 => s = t

\* The part that no power loss can break either (see SessionPowerLoss).
CoreInv ==
    /\ TypeOK /\ LockInv /\ RequestInv /\ CommitInv /\ RetainInv
    /\ OrdersDistinct

IInv == CoreInv /\ IdentityUnique

\* session_journal.md: "terminal records are immutable", and a running one
\* makes "exactly one transition": short of eviction, a terminal record never
\* changes, and a running one keeps its identity and launch facts.
TerminalImmutable ==
    [][\A s \in Present(files) :
          \/ files'[s] \in {files[s], NoFile}
          \/ /\ files[s].state = "running"
             /\ files'[s] = [files[s] EXCEPT !.state  = "terminal",
                                             !.result = files'[s].result,
                                             !.order  = files'[s].order]]_vars

\* session_journal.md: "corrupt and future-version records fail closed".  While
\* a damaged file is in the directory no call changes the directory, and no
\* crash or fault of the journal damages a file.
FailClosed ==
    [][/\ Damaged(files) # {} => files' = files
       /\ Damaged(files') = Damaged(files)]_vars

\* "Terminal replacement preserves the session's original order": no step
\* swaps two records that it keeps.  A v1 record has no order to keep; when it
\* ends it gets one, and only this may move it.
RankStable ==
    [][\A s, t \in Present(files) :
          /\ s \in Present(files)' /\ t \in Present(files)'
          /\ \A x \in {s, t} : files[x].order = 0 => files'[x].order = 0
          => (Newer(files[s], files[t]) <=> Newer(files'[s], files'[t]))]_vars

\* Last Run is the newest durably admitted session: a record that enters the
\* directory is newer than all that are there, whatever its timestamp, and
\* the newest record is never evicted.
AdmittedIsNewest ==
    [][\A s \in Sessions :
          /\ files[s] = NoFile /\ files'[s] # NoFile =>
                \A t \in Present(files) : Newer(files'[s], files[t])
          /\ s \in Present(files) /\ files'[s] = NoFile =>
                \E t \in Present(files)' : Newer(files'[t], files[s])]_vars

\* A write that returns OK has its content on disk, or it replaced a record
\* that the caller's window no longer holds because that many newer ones are
\* there; never because a crash, a fault or another writer got in between.
OkMeansStored ==
    \A p \in Procs :
        pc[p] = "done" /\ call[p].op = "write" /\ reply[p].status = "ok" =>
            LET r == request[p]
            IN  \/ r.id \in Present(files) /\ Content(files[r.id]) = Content(r)
                \/ /\ reply[p].detail = "committed"
                   /\ Cardinality({t \in Present(files) : files[t].order > r.order})
                         = Window(call[p])

\* A write that is told of a conflict is not stored: a caller whose write failed
\* after the commit may write the same record again and is not refused.
ConflictMeansOther ==
    \A p \in Procs :
        pc[p] = "done" /\ call[p].op = "write" /\ reply[p].detail \in Conflicts =>
            LET r == request[p]
            IN  r.id \in Present(files) => Content(files[r.id]) # Content(r)

\* What a write is told about its record is true of the directory when it
\* returns, after crashes, faults and retries, too.
WriteAnswersTrue == OkMeansStored /\ ConflictMeansOther

\* A write that commits and returns OK leaves at most its window of records,
\* also when earlier calls died before their retention.
WindowHonoured ==
    \A p \in Procs :
        pc[p] = "done" /\ call[p].op = "write"
            /\ reply[p].status = "ok" /\ reply[p].detail = "committed" =>
            Cardinality(Present(files)) <= Window(call[p])

\* A lookup that is about to return tells the state of the directory at that
\* moment: what it found is there and no matching record is newer, and what
\* it did not find is not there.
LookupCurrent ==
    \A p \in Procs :
        pc[p] = "done" /\ call[p].op \in {"inspect", "last_run"}
            /\ reply[p].status = "ok" =>
            LET found == Matches(files, call[p])
            IN  /\ reply[p].detail = "not_found" <=> found = {}
                /\ \A r \in reply[p].recs :
                      \E s \in found : r = files[s] /\ First(files, found, s)

\* A list that is about to return shows the newest records of the directory
\* at that moment: with every record all that are newer than it, as many as
\* the limit allows.
ListCurrent ==
    \A p \in Procs :
        pc[p] = "done" /\ call[p].op = "list"
            /\ reply[p].status = "ok" /\ call[p].out = "fits" =>
            /\ \A r \in reply[p].recs : \E s \in Present(files) : r = files[s]
            /\ \A r \in reply[p].recs, s \in Present(files) :
                  Newer(files[s], r) => files[s] \in reply[p].recs
            /\ Cardinality(reply[p].recs) =
                  IF call[p].arg = 0 \/ call[p].arg > Cardinality(Present(files))
                  THEN Cardinality(Present(files)) ELSE call[p].arg

\* No reader tells of a directory that has changed since: inspect, last_run and
\* list hold the lock from the scan to the copy of their answer.
ReadersCurrent == LookupCurrent /\ ListCurrent

\* What the processes do to the directory is what SessionStore allows.
ImplementsStore == Store!Spec

\* session_journal.md: "a configurable bounded retention window"; at most
\* MaxRecords may be asked for and read.  When no call is in progress the
\* directory never holds more records than a scan can read.
ReadableAtRest ==
    lock = NoProc => Fits(files)

\* Every path through a call, the error paths included, lets the lock go.
HolderReleases == \A p \in Procs : lock = p ~> lock # p
=============================================================================
