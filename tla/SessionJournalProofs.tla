------------------------ MODULE SessionJournalProofs ------------------------
(***************************************************************************)
(* Proofs about SessionJournal: CoreInv is an inductive invariant, and every  *)
(* step does to the directory what SessionStore allows.                    *)
(***************************************************************************)
EXTENDS SessionJournal, SessionRecordsProofs

USE DEF Goto, Finish

-----------------------------------------------------------------------------
(* The invariant, one process at a time *)

ProcInv(q) ==
    /\ pc[q] \in {"locked", "scanned", "stage", "open", "staged", "committed", "retain"}
       => lock = q
    /\ pc[q] # "idle" => call[q] \in CallRecords
    /\ pc[q] \in {"lock", "locked", "scanned"} /\ call[q].op = "write" =>
          /\ call[q].arg \in Nat
          /\ \E r \in Requests : request[q] = FromPublic(r)
    /\ pc[q] \in {"stage", "open", "staged"} =>
          \E r \in Requests, n \in 1..MaxOrder :
              request[q] = [FromPublic(r) EXCEPT !.order = n]
    /\ pc[q] \in {"stage", "open", "staged", "committed", "retain"} =>
          call[q].arg \in Nat
    /\ pc[q] \in {"scanned", "stage", "open", "staged"} =>
          snap[q] = files /\ Damaged(files) = {}
    /\ pc[q] \in {"stage", "open", "staged"} => MayCommit(files, request[q])
    /\ pc[q] = "staged" => temps[request[q].id] = request[q]
    /\ pc[q] = "retain" =>
          /\ Damaged(files) = {}
          /\ doomed[q] \subseteq Present(files)
          /\ doomed[q] # {} => \E k \in Present(files) :
                                  \A s \in doomed[q] : Newer(files[k], files[s])

\* The invariant, one process at a time.
LEMMA InvByProc ==
    CoreInv <=> /\ TypeOK /\ OrdersDistinct
             /\ \A q \in Procs : ProcInv(q)
BY DEF CoreInv, LockInv, RequestInv, CommitInv, RetainInv, ProcInv

\* What a step of another process does not touch of q: its locals, and, if q
\* has the lock, the lock and the files.
Framed(q) ==
    /\ pc'[q] = pc[q] /\ call'[q] = call[q] /\ request'[q] = request[q]
    /\ snap'[q] = snap[q] /\ doomed'[q] = doomed[q]
    /\ lock = q => lock' = q /\ files' = files /\ temps' = temps

\* A step that leaves a process alone keeps its part of the invariant.
LEMMA FrameInv ==
    ASSUME NEW q \in Procs, ProcInv(q), Framed(q)
    PROVE  ProcInv(q)'
<1>1. CASE lock = q BY <1>1 DEF ProcInv, Framed
<1>2. CASE lock # q BY <1>2 DEF ProcInv, Framed
<1> QED BY <1>1, <1>2

\* For a step of p it is enough to look at p and at the files.
LEMMA StepInv ==
    ASSUME CoreInv, NEW p \in Procs, TypeOK', OrdersDistinct',
           ProcInv(p)', \A q \in Procs \ {p} : Framed(q)
    PROVE  CoreInv'
<1>1. \A q \in Procs : ProcInv(q) BY InvByProc
<1>2. \A q \in Procs \ {p} : ProcInv(q)' BY <1>1, FrameInv
<1>3. (\A q \in Procs : ProcInv(q))' BY <1>2
<1> HIDE DEF ProcInv
<1>4. (/\ TypeOK /\ OrdersDistinct
       /\ \A q \in Procs : ProcInv(q)) => CoreInv BY InvByProc
<1> QED BY <1>3, InvByProc, PTL

\* The part of CoreInv that speaks of the directory alone.
LEMMA InvDirectory == CoreInv => Directory(files) /\ Sound(files)
BY DEF CoreInv, TypeOK, Directory, Sound, OrdersDistinct

\* A step that leaves the records alone keeps them sound.
LEMMA SameDirectory ==
    ASSUME CoreInv, files' = files
    PROVE  /\ OrdersDistinct'
           /\ files' \in [Sessions -> Slots]
           /\ (\A s \in Present(files) : files[s].id = s)'
BY DEF CoreInv, TypeOK, OrdersDistinct

\* The initial state satisfies the invariant.
LEMMA InitInv == Init => CoreInv
<1> SUFFICES ASSUME Init PROVE CoreInv OBVIOUS
<1>1. Directory(files) /\ Sound(files) BY InitialIsSound DEF Init
<1>2. NoFiles \in [Sessions -> Slots] BY DEF NoFiles, Slots
<1>3. TypeOK
  BY <1>1, <1>2, FaultsAssumption DEF Init, TypeOK, Directory, Labels
<1>4. OrdersDistinct
  BY <1>1 DEF Sound, OrdersDistinct
<1>5. LockInv /\ RequestInv /\ CommitInv /\ RetainInv
  BY DEF Init, LockInv, RequestInv, CommitInv, RetainInv
<1> QED BY <1>3, <1>4, <1>5 DEF CoreInv
-----------------------------------------------------------------------------
(* Calls *)

\* The call of an operation keeps the invariant.
LEMMA CallsInv == ASSUME CoreInv, NEW p \in Procs, Calls(p) PROVE CoreInv'
<1> USE DEF Enter
<1>0. ProcInv(p) /\ TypeOK BY InvByProc
<1>9. Answer("invalid", "invalid_argument", {}) \in Replies
  BY DEF Answer, Replies, Details
<1>1. ASSUME NEW r \in Requests, NEW m \in Maxima, WriteCall(p, r, m)
      PROVE  CoreInv'
  <2> USE <1>1 DEF WriteCall
  <2>0. m \in Nat BY MaximaAssumption
  <2>5. FromPublic(r) \in Records BY SubmittedIsRecord
  <2>1. [op |-> "write", arg |-> m, out |-> "probe"] \in CallRecords
    BY <2>0 DEF CallRecords, Buffers
  <2>2. TypeOK' BY <2>5, <1>0, <1>9, <2>1, SameDirectory DEF TypeOK, Labels
  <2>3. ProcInv(p)' BY <2>0, <1>0, <2>1 DEF ProcInv, TypeOK
  <2>4. \A q \in Procs \ {p} : Framed(q) BY <1>0 DEF Framed, TypeOK
  <2> QED BY <2>2, <2>3, <2>4, SameDirectory, StepInv
<1>2. ASSUME NEW op \in {"inspect", "last_run"},
             NEW key \in Sessions \cup Runnables \cup {EmptyText}, NEW out \in Buffers,
             LookupCall(p, op, key, out)
      PROVE  CoreInv'
  <2> USE <1>2 DEF LookupCall
  <2>1. [op |-> op, arg |-> key, out |-> out] \in CallRecords
    BY DEF CallRecords, Buffers
  <2>2. TypeOK' BY <1>0, <1>9, <2>1, SameDirectory DEF TypeOK, Labels
  <2>3. ProcInv(p)' BY <1>0, <2>1 DEF ProcInv, TypeOK
  <2>4. \A q \in Procs \ {p} : Framed(q) BY <1>0 DEF Framed, TypeOK
  <2> QED BY <2>2, <2>3, <2>4, SameDirectory, StepInv
<1>3. ASSUME NEW n \in Nat, NEW out \in Buffers, ListCall(p, n, out)
      PROVE  CoreInv'
  <2> USE <1>3 DEF ListCall
  <2>1. [op |-> "list", arg |-> n, out |-> out] \in CallRecords
    BY DEF CallRecords, Buffers
  <2>2. TypeOK' BY <1>0, <1>9, <2>1, SameDirectory DEF TypeOK, Labels
  <2>3. ProcInv(p)' BY <1>0, <2>1 DEF ProcInv, TypeOK
  <2>4. \A q \in Procs \ {p} : Framed(q) BY <1>0 DEF Framed, TypeOK
  <2> QED BY <2>2, <2>3, <2>4, SameDirectory, StepInv
<1> QED BY <1>1, <1>2, <1>3, KeysAssumption, MaximaAssumption DEF Calls

-----------------------------------------------------------------------------
(* Steps that end a call *)

\* A call that ends with a reply keeps the invariant.
LEMMA FinishInv ==
    ASSUME CoreInv, NEW p \in Procs, pc[p] # "idle",
           NEW a \in Replies, Finish(p, a), files' = files, lock' = lock, call' = call, request' = request,
           snap' = snap, doomed' = doomed, faults' \in 0..MaxFaults,
           temps' = temps \/ (lock = p /\ temps' \in [Sessions -> Slots])
    PROVE  CoreInv'
<1>1. TypeOK /\ ProcInv(p) BY InvByProc
<1>2. TypeOK' BY <1>1, SameDirectory DEF TypeOK, Labels
<1>3. ProcInv(p)' BY <1>1 DEF ProcInv, TypeOK
<1>4. \A q \in Procs \ {p} : Framed(q) BY <1>1 DEF Framed, TypeOK
<1> QED BY <1>2, <1>3, <1>4, SameDirectory, StepInv

\* A process that crashes or is idle again keeps the invariant.
LEMMA ResetInv ==
    ASSUME CoreInv, NEW p \in Procs, Reset(p), files' = files, temps' = temps,
           faults' \in 0..MaxFaults
    PROVE  CoreInv'
<1> USE DEF Reset
<1>1. TypeOK /\ ProcInv(p) BY InvByProc
<1>2. NoFiles \in [Sessions -> Slots] BY DEF NoFiles, Slots
<1>3. TypeOK' BY <1>1, <1>2, SameDirectory DEF TypeOK, Labels
<1>4. ProcInv(p)' BY <1>1 DEF ProcInv, TypeOK
<1>5. \A q \in Procs \ {p} : Framed(q) BY <1>1 DEF Framed, TypeOK
<1> QED BY <1>3, <1>4, <1>5, SameDirectory, StepInv

\* Trouble keeps the invariant.
LEMMA TroubleInv == ASSUME CoreInv, NEW p \in Procs, Trouble(p) PROVE CoreInv'
<1>1. TypeOK /\ ProcInv(p) BY InvByProc
<1>2. faults \in 0..MaxFaults BY <1>1 DEF TypeOK
<1>3. Faulty => faults' \in 0..MaxFaults BY <1>2, FaultsAssumption DEF Faulty
<1>4. CASE Unavailable(p)
  <2>1. Answer("error", "session_lock_unavailable", {}) \in Replies
    BY DEF Answer, Replies, Details
  <2> QED BY <1>4, <1>2, <2>1, FinishInv DEF Unavailable
<1>5. CASE ReadFault(p)
  <2>0. ReadFaultDetail(p) \in Details BY DEF ReadFaultDetail, Details
  <2>1. Answer("error", ReadFaultDetail(p), {}) \in Replies
    BY <2>0 DEF Answer, Replies
  <2> QED BY <1>5, <1>3, <2>1, FinishInv DEF ReadFault
<1>6. CASE WriteFault(p)
  <2>1. Answer("error", "session_atomic_write_failed", {}) \in Replies
    BY DEF Answer, Replies, Details
  <2>2. lock = p BY <1>1, <1>6 DEF ProcInv, WriteFault
  <2>3. temps' \in [Sessions -> Slots]
    BY <1>1, <1>6 DEF WriteFault, TypeOK, Slots
  <2> QED BY <1>6, <1>3, <2>1, <2>2, <2>3, FinishInv DEF WriteFault
<1>7. CASE EvictFault(p)
  <2>1. Answer("error", "session_retention_failed", {}) \in Replies
    BY DEF Answer, Replies, Details
  <2> QED BY <1>7, <1>3, <2>1, FinishInv DEF EvictFault
<1>8. CASE Crash(p) BY <1>8, <1>3, ResetInv DEF Crash
<1> QED BY <1>4, <1>5, <1>6, <1>7, <1>8 DEF Trouble
-----------------------------------------------------------------------------
(* Lock and scan *)

\* AcquireLock keeps the invariant.
LEMMA AcquireLockInv == ASSUME CoreInv, NEW p \in Procs, AcquireLock(p) PROVE CoreInv'
<1> USE DEF AcquireLock
<1>1. TypeOK /\ ProcInv(p) BY InvByProc
<1>2. TypeOK' BY <1>1, SameDirectory DEF TypeOK, Labels
<1>3. ProcInv(p)' BY <1>1 DEF ProcInv, TypeOK
<1>4. \A q \in Procs \ {p} : Framed(q) BY <1>1, NoProcAssumption DEF Framed, TypeOK
<1> QED BY <1>2, <1>3, <1>4, SameDirectory, StepInv

\* Scan keeps the invariant.
LEMMA ScanInv == ASSUME CoreInv, NEW p \in Procs, Scan(p) PROVE CoreInv'
<1> USE DEF Scan
<1>1. TypeOK /\ ProcInv(p) BY InvByProc
<1>2. TypeOK' BY <1>1, SameDirectory DEF TypeOK, Labels
<1>3. ProcInv(p)' BY <1>1 DEF ProcInv, TypeOK, Scannable
<1>4. \A q \in Procs \ {p} : Framed(q) BY <1>1 DEF Framed, TypeOK
<1> QED BY <1>2, <1>3, <1>4, SameDirectory, StepInv

\* ScanFails keeps the invariant.
LEMMA ScanFailsInv == ASSUME CoreInv, NEW p \in Procs, ScanFails(p) PROVE CoreInv'
<1>1. TypeOK BY InvByProc
<1>2. PICK a \in Replies : Finish(p, a) BY DEF ScanFails, Answer, Replies, Details
<1> QED BY <1>1, <1>2, FinishInv DEF ScanFails, TypeOK
-----------------------------------------------------------------------------
(* Write *)

\* Stopped keeps the invariant.
LEMMA StoppedInv == ASSUME CoreInv, NEW p \in Procs, Stopped(p) PROVE CoreInv'
<1>1. TypeOK BY InvByProc
<1>2. \A e, r : Verdict(e, r) \in Replies
  BY DEF Verdict, Answer, Replies, Details
<1>3. PICK a \in Replies : Finish(p, a) BY <1>2 DEF Stopped
<1> QED BY <1>1, <1>3, FinishInv DEF Stopped, TypeOK

\* The loop over the snapshot lets a record through only if it may commit.
LEMMA LoopAdmits ==
    ASSUME NEW f, Directory(f), Damaged(f) = {}, NEW r \in Records, Stops(f, r) = {},
           NEW n \in 1..MaxOrder,
           IF KeepsOrder(f, r) THEN n = f[r.id].order
           ELSE \E top \in 0..MaxOrder : IsTop(f, top) /\ n = OrderAfter(top)
    PROVE  MayCommit(f, [r EXCEPT !.order = n])
<1> DEFINE c == [r EXCEPT !.order = n]
<1>1. /\ c.id = r.id /\ c.ident = r.ident /\ c.run = r.run /\ c.start = r.start
      /\ c.state = r.state /\ c.order = n
  BY DEF Records
<1>2. \A s \in Present(f) : f[s].ident = c.ident => s = c.id
  BY <1>1 DEF Stops, IdentityConflict, Directory
<1>3. c.id \in Present(f) => TransitionValid(f[c.id], c)
  BY <1>1 DEF Stops, Directory, TransitionValid
<1>4. OrderFor(f, c)
  <2>1. CASE KeepsOrder(f, r) BY <2>1, <1>1 DEF KeepsOrder, OrderFor
  <2>2. CASE ~KeepsOrder(f, r)
    <3>1. PICK top \in 0..MaxOrder : IsTop(f, top) /\ n = top + 1
      BY <2>2 DEF OrderAfter
    <3>2. c.order - 1 = top BY <1>1, <3>1
    <3> HIDE DEF c
    <3> QED BY <2>2, <1>1, <3>1, <3>2 DEF OrderFor, KeepsOrder
  <2> QED BY <2>1, <2>2
<1> HIDE DEF c
<1>5. MayCommit(f, c) BY <1>2, <1>3, <1>4 DEF MayCommit
<1> QED BY <1>5 DEF c

\* AssignOrder keeps the invariant.
LEMMA AssignOrderInv == ASSUME CoreInv, NEW p \in Procs, AssignOrder(p) PROVE CoreInv'
<1> DEFINE r == request[p]
           f == snap[p]
<1>1. TypeOK /\ ProcInv(p) BY InvByProc
<1>2. PICK r0 \in Requests : r = FromPublic(r0) BY <1>1 DEF ProcInv, AssignOrder
<1>3. f = files /\ Damaged(f) = {} /\ Directory(f)
  BY <1>1, InvDirectory DEF ProcInv, AssignOrder
<1>4. r \in Records BY <1>2, SubmittedIsRecord
<1>5. CASE Finish(p, Answer("error", "session_commit_order_exhausted", {})) /\ UNCHANGED request
  <2>1. Answer("error", "session_commit_order_exhausted", {}) \in Replies
    BY DEF Answer, Replies, Details
  <2> QED BY <1>1, <1>5, <2>1, FinishInv DEF AssignOrder, TypeOK
<1>6. ASSUME NEW n \in 1..MaxOrder,
             IF KeepsOrder(f, r) THEN n = f[r.id].order
             ELSE \E top \in 0..MaxOrder : IsTop(f, top) /\ n = OrderAfter(top),
             request' = [request EXCEPT ![p] = [r EXCEPT !.order = n]],
             Goto(p, "stage"), UNCHANGED reply
      PROVE  CoreInv'
  <2> USE <1>6
  <2>0. UNCHANGED <<files, temps, lock, call, snap, doomed, faults>>
        /\ Stops(f, r) = {} /\ pc[p] = "scanned" /\ call[p].op = "write"
    BY DEF AssignOrder
  <2>1. MayCommit(f, [r EXCEPT !.order = n])
    BY <1>3, <1>4, <2>0, LoopAdmits
  <2>2. request'[p] = [FromPublic(r0) EXCEPT !.order = n] BY <1>1, <1>2 DEF TypeOK
  <2>3. request'[p] \in Records BY <2>2, SubmittedIsRecord
  <2>4. TypeOK' BY <1>1, <2>0, <2>3, SameDirectory DEF TypeOK, Labels
  <2>5. MayCommit(files, request[p])' BY <1>2, <1>3, <2>0, <2>1, <2>2
  <2>6. ProcInv(p)' BY <1>1, <1>3, <2>0, <2>2, <2>5 DEF ProcInv, TypeOK
  <2>7. \A q \in Procs \ {p} : Framed(q) BY <1>1, <2>0 DEF Framed, TypeOK
  <2> QED BY <2>0, <2>4, <2>6, <2>7, SameDirectory, StepInv
<1>7. CASE KeepsOrder(f, r) /\ request' = [request EXCEPT ![p] = [r EXCEPT !.order = f[r.id].order]]
           /\ Goto(p, "stage") /\ UNCHANGED reply
  <2>1. f[r.id].order \in 1..MaxOrder
    BY <1>7, BoundsAssumption DEF KeepsOrder, Present, Records
  <2> QED BY <1>6, <1>7, <2>1
<1>8. ASSUME NEW top \in 0..MaxOrder, ~KeepsOrder(f, r), IsTop(f, top), ~Exhausted(top),
             request' = [request EXCEPT ![p] = [r EXCEPT !.order = OrderAfter(top)]],
             Goto(p, "stage"), UNCHANGED reply
      PROVE  CoreInv'
  <2>1. OrderAfter(top) \in 1..MaxOrder BY <1>8, BoundsAssumption DEF OrderAfter, Exhausted
  <2> QED BY <1>6, <1>8, <2>1
<1> QED BY <1>5, <1>7, <1>8 DEF AssignOrder

\* The steps on the temporary file keep the invariant.
LEMMA StageInv ==
    ASSUME CoreInv, NEW p \in Procs, OpenTemp(p) \/ SyncTemp(p)
    PROVE  CoreInv'
<1> USE DEF OpenTemp, SyncTemp
<1>1. TypeOK /\ ProcInv(p) BY InvByProc
<1>2. PICK r \in Requests, n \in 1..MaxOrder :
          request[p] = [FromPublic(r) EXCEPT !.order = n]
  BY <1>1 DEF ProcInv
<1>3. request[p] \in Records BY <1>2, SubmittedIsRecord
<1>4. request[p].id \in Sessions BY <1>3 DEF Records
<1>5. temps' \in [Sessions -> Slots] BY <1>1, <1>3 DEF TypeOK, Slots, Damage
<1>6. TypeOK' BY <1>1, <1>5, SameDirectory DEF TypeOK, Labels
<1>7. ProcInv(p)'
  <2>1. CASE OpenTemp(p) BY <2>1, <1>1 DEF ProcInv, TypeOK
  <2>2. CASE SyncTemp(p)
    <3>1. temps'[request[p].id] = request[p] BY <2>2, <1>1, <1>4 DEF TypeOK
    <3> QED BY <2>2, <3>1, <1>1 DEF ProcInv, TypeOK
  <2> QED BY <2>1, <2>2
<1>8. lock = p BY <1>1 DEF ProcInv
<1>9. \A q \in Procs \ {p} : Framed(q) BY <1>1, <1>8 DEF Framed, TypeOK
<1> QED BY <1>6, <1>7, <1>9, SameDirectory, StepInv

\* The rename is a legal commit of the record that was staged.
LEMMA RenameCommits ==
    ASSUME CoreInv, NEW p \in Procs, Rename(p)
    PROVE  \E r \in Requests, n \in 1..MaxOrder :
              LET c == [FromPublic(r) EXCEPT !.order = n]
              IN  /\ request[p] = c
                  /\ c \in Records /\ c.order > 0
                  /\ MayCommit(files, c)
                  /\ files' = [files EXCEPT ![c.id] = c]
<1>1. ProcInv(p) BY InvByProc
<1>2. PICK r \in Requests, n \in 1..MaxOrder :
          request[p] = [FromPublic(r) EXCEPT !.order = n]
  BY <1>1 DEF ProcInv, Rename
<1>3. request[p] \in Records /\ request[p].order = n
  BY <1>2, SubmittedIsRecord
<1>4. MayCommit(files, request[p]) /\ temps[request[p].id] = request[p]
  BY <1>1 DEF ProcInv, Rename
<1>5. files' = [files EXCEPT ![request[p].id] = request[p]] BY <1>4 DEF Rename
<1>6. n > 0 OBVIOUS
<1> QED BY <1>2, <1>3, <1>4, <1>5, <1>6

\* Rename keeps the invariant.
LEMMA RenameInv == ASSUME CoreInv, NEW p \in Procs, Rename(p) PROVE CoreInv'
<1> USE DEF Rename
<1>1. TypeOK /\ ProcInv(p) BY InvByProc
<1>2. PICK c \in Records : /\ c.order > 0
                          /\ MayCommit(files, c)
                          /\ files' = [files EXCEPT ![c.id] = c]
  BY RenameCommits
<1>10. Directory(files) /\ Sound(files) BY InvDirectory
<1>11. Directory([files EXCEPT ![c.id] = c]) /\ Sound([files EXCEPT ![c.id] = c])
  BY ONLY <1>2, <1>10, CommitKeepsSound
<1>3. Directory(files') /\ Sound(files') BY <1>2, <1>11
<1>4. temps' \in [Sessions -> Slots] BY <1>1 DEF TypeOK, Slots
<1>5. TypeOK' BY <1>1, <1>3, <1>4 DEF TypeOK, Labels, Directory
<1>6. OrdersDistinct'
  BY <1>3 DEF Sound, OrdersDistinct
<1>7. ProcInv(p)' BY <1>1 DEF ProcInv, TypeOK
<1>8. lock = p BY <1>1 DEF ProcInv
<1>9. \A q \in Procs \ {p} : Framed(q) BY <1>1, <1>8 DEF Framed, TypeOK
<1> QED BY <1>5, <1>6, <1>7, <1>9, StepInv

\* Rescan keeps the invariant.
LEMMA RescanInv == ASSUME CoreInv, NEW p \in Procs, Rescan(p) PROVE CoreInv'
<1> USE DEF Rescan
<1> DEFINE w == Window(call[p])
<1>1. TypeOK /\ ProcInv(p) BY InvByProc
<1>2. w \in Nat /\ w >= 1
  BY <1>1, BoundsAssumption DEF ProcInv, Window
<1>3. Surplus(files, w) \subseteq Present(files) BY DEF Surplus
<1>4. Surplus(files, w) # {} =>
        \E k \in Present(files) : \A s \in Surplus(files, w) : Newer(files[k], files[s])
  BY <1>2, InvDirectory, SurplusSparesNewest
<1>5. doomed'[p] = Surplus(files, w) BY <1>1 DEF TypeOK
<1>6. TypeOK' BY <1>1, <1>3, SameDirectory DEF TypeOK, Labels, Present
<1>7. ProcInv(p)'
  <2> HIDE DEF w
  <2> QED BY <1>1, <1>3, <1>4, <1>5 DEF ProcInv, TypeOK, Scannable
<1>8. \A q \in Procs \ {p} : Framed(q) BY <1>1 DEF Framed, TypeOK
<1> QED BY <1>6, <1>7, <1>8, SameDirectory, StepInv

\* RescanFails keeps the invariant.
LEMMA RescanFailsInv == ASSUME CoreInv, NEW p \in Procs, RescanFails(p) PROVE CoreInv'
<1>1. TypeOK BY InvByProc
<1>2. Answer("error", "session_commit_verification_failed", {}) \in Replies
  BY DEF Answer, Replies, Details
<1> QED BY <1>1, <1>2, FinishInv DEF RescanFails, TypeOK

\* Every round of the retention loop is a legal eviction.
LEMMA EvictNextEvicts ==
    ASSUME CoreInv, NEW p \in Procs, EvictNext(p)
    PROVE  \E s \in doomed[p] :
              /\ s \in Sessions
              /\ MayEvict(files, s)
              /\ files' = [files EXCEPT ![s] = NoFile]
              /\ doomed' = [doomed EXCEPT ![p] = @ \ {s}]
<1>1. ProcInv(p) BY InvByProc
<1>2. PICK s \in doomed[p] : /\ files' = [files EXCEPT ![s] = NoFile]
                             /\ doomed' = [doomed EXCEPT ![p] = @ \ {s}]
  BY DEF EvictNext
<1>3. MayEvict(files, s) BY <1>1 DEF ProcInv, EvictNext, MayEvict
<1> QED BY <1>2, <1>3 DEF MayEvict, Present

\* EvictNext keeps the invariant.
LEMMA EvictNextInv == ASSUME CoreInv, NEW p \in Procs, EvictNext(p) PROVE CoreInv'
<1> USE DEF EvictNext
<1>1. TypeOK /\ ProcInv(p) BY InvByProc
<1>2. PICK s \in doomed[p] :
          /\ s \in Sessions
          /\ MayEvict(files, s)
          /\ files' = [files EXCEPT ![s] = NoFile]
          /\ doomed' = [doomed EXCEPT ![p] = @ \ {s}]
  BY EvictNextEvicts
<1>3. Directory(files') /\ Sound(files') BY <1>2, InvDirectory, EvictKeepsSound
<1>4. TypeOK' BY <1>1, <1>2, <1>3 DEF TypeOK, Directory
<1>5. OrdersDistinct'
  BY <1>3 DEF Sound, OrdersDistinct
<1>6. \A t \in Sessions : files'[t] = IF t = s THEN NoFile ELSE files[t]
  BY <1>1, <1>2 DEF TypeOK
<1>7. Damaged(files') = {}
  BY <1>2, <1>6, SlotAssumption DEF Damaged, MayEvict
<1>8. Present(files') = Present(files) \ {s} BY <1>6, SlotAssumption DEF Present
<1>9. doomed'[p] = doomed[p] \ {s} BY <1>1, <1>2 DEF TypeOK
<1>10. PICK k \in Present(files) : \A t \in doomed[p] : Newer(files[k], files[t])
  BY <1>1, <1>2 DEF ProcInv
<1>11. k # s BY <1>2, <1>10, NewerStrict DEF Present
<1>12. \A t \in doomed'[p] : Newer(files'[k], files'[t])
  BY <1>1, <1>6, <1>9, <1>10, <1>11 DEF Present, ProcInv
<1>13. doomed'[p] \subseteq Present(files') BY <1>1, <1>8, <1>9 DEF ProcInv
<1>14. ProcInv(p)'
  BY <1>1, <1>7, <1>8, <1>10, <1>11, <1>12, <1>13 DEF ProcInv
<1>15. lock = p BY <1>1 DEF ProcInv
<1>16. \A q \in Procs \ {p} : Framed(q) BY <1>1, <1>2, <1>15 DEF Framed, TypeOK
<1> QED BY <1>4, <1>5, <1>14, <1>16, StepInv

\* Retained keeps the invariant.
LEMMA RetainedInv == ASSUME CoreInv, NEW p \in Procs, Retained(p) PROVE CoreInv'
<1>1. TypeOK BY InvByProc
<1>2. Answer("ok", "committed", {}) \in Replies BY DEF Answer, Replies, Details
<1> QED BY <1>1, <1>2, FinishInv DEF Retained, TypeOK
-----------------------------------------------------------------------------
(* Readers *)

\* The two-call buffer law gives a reply.
LEMMA CopyJsonType ==
    ASSUME NEW out \in Buffers, NEW recs \in SUBSET Records
    PROVE  CopyJson(out, recs) \in Replies
BY DEF CopyJson, Buffers, Answer, Replies, Details

\* Lookup keeps the invariant.
LEMMA LookupInv == ASSUME CoreInv, NEW p \in Procs, Lookup(p) PROVE CoreInv'
<1>1. TypeOK /\ ProcInv(p) BY InvByProc
<1>2. call[p].out \in Buffers
  <2>1. call[p] \in CallRecords BY <1>1 DEF ProcInv, Lookup
  <2> QED BY <2>1 DEF CallRecords
<1>3. PICK a \in Replies : Finish(p, a)
  <2>1. Answer("ok", "not_found", {}) \in Replies
    BY DEF Answer, Replies, Details
  <2>2. Answer("error", "session_record_corrupt", {}) \in Replies
    BY DEF Answer, Replies, Details
  <2>3. \A s \in Present(snap[p]) : CopyJson(call[p].out, {snap[p][s]}) \in Replies
    BY <1>2, CopyJsonType DEF Present
  <2>4. \A s : First(snap[p], Matches(snap[p], call[p]), s) => s \in Present(snap[p])
    BY DEF First, Matches
  <2> QED BY <2>1, <2>2, <2>3, <2>4 DEF Lookup
<1> QED BY <1>1, <1>3, FinishInv DEF Lookup, TypeOK

\* List keeps the invariant.
LEMMA ListInv == ASSUME CoreInv, NEW p \in Procs, List(p) PROVE CoreInv'
<1>1. TypeOK /\ ProcInv(p) BY InvByProc
<1>2. call[p].out \in Buffers
  <2>1. call[p] \in CallRecords BY <1>1 DEF ProcInv, List
  <2> QED BY <2>1 DEF CallRecords
<1>3. Listed(snap[p], call[p]) \in SUBSET Records BY DEF Listed, Present
<1>4. CopyJson(call[p].out, Listed(snap[p], call[p])) \in Replies
  BY <1>2, <1>3, CopyJsonType
<1>5. Answer("error", "session_list_render_failed", {}) \in Replies
  BY DEF Answer, Replies, Details
<1>6. PICK a \in Replies : Finish(p, a) BY <1>4, <1>5 DEF List
<1> QED BY <1>1, <1>6, FinishInv DEF List, TypeOK
-----------------------------------------------------------------------------
(* The theorems *)

\* Advance keeps the invariant.
LEMMA AdvanceInv == ASSUME CoreInv, NEW p \in Procs, Advance(p) PROVE CoreInv'
<1>1. CASE Return(p)
  <2>1. faults' \in 0..MaxFaults BY <1>1 DEF Return, CoreInv, TypeOK
  <2> QED BY <1>1, <2>1, ResetInv DEF Return
<1> QED
  BY <1>1, AcquireLockInv, ScanInv, ScanFailsInv, StoppedInv, AssignOrderInv,
     StageInv, RenameInv, RescanInv, RescanFailsInv, EvictNextInv, RetainedInv,
     LookupInv, ListInv
  DEF Advance

\* Every step keeps the invariant.
LEMMA NextInv == CoreInv /\ [Next]_vars => CoreInv'
<1> SUFFICES ASSUME CoreInv, [Next]_vars PROVE CoreInv' OBVIOUS
<1>1. CASE Next BY <1>1, CallsInv, AdvanceInv, TroubleInv DEF Next
<1>2. CASE UNCHANGED vars
  <2> USE <1>2 DEF vars
  <2>1. TypeOK' BY DEF CoreInv, TypeOK
  <2>2. LockInv' /\ RequestInv' BY DEF CoreInv, LockInv, RequestInv
  <2>3. CommitInv' BY DEF CoreInv, CommitInv
  <2>4. RetainInv' BY DEF CoreInv, RetainInv
  <2> QED BY <2>1, <2>2, <2>3, <2>4, SameDirectory DEF CoreInv
<1> QED BY <1>1, <1>2

\* CoreInv holds in every state of the journal, for any number of processes,
\* sessions and faults.
LEMMA CoreInvariance == Spec => []CoreInv
BY InitInv, NextInv, PTL DEF Spec

\* The variables keep their types, and files stay named after their records.
THEOREM TypeCorrect == Spec => []TypeOK
<1>1. CoreInv => TypeOK BY DEF CoreInv
<1> QED BY <1>1, CoreInvariance, PTL

\* Two v2 records never carry the same commit order.
THEOREM OrderDistinctness == Spec => []OrdersDistinct
<1>1. CoreInv => OrdersDistinct BY DEF CoreInv
<1> QED BY <1>1, CoreInvariance, PTL

-----------------------------------------------------------------------------
(* What a step may do to the directory *)

\* A step of the journal commits a submitted record, evicts one that is not
\* the newest, or leaves the directory alone.
LEMMA DirectoryStep ==
    ASSUME CoreInv, [Next]_vars
    PROVE  \/ files' = files
           \/ \E r \in Requests, n \in 1..MaxOrder :
                 LET c == [FromPublic(r) EXCEPT !.order = n]
                 IN  c \in Records /\ MayCommit(files, c)
                     /\ files' = [files EXCEPT ![c.id] = c]
           \/ \E s \in Sessions : MayEvict(files, s) /\ files' = [files EXCEPT ![s] = NoFile]
<1> SUFFICES ASSUME files' # files
             PROVE  \/ \E r \in Requests, n \in 1..MaxOrder :
                          LET c == [FromPublic(r) EXCEPT !.order = n]
                          IN  c \in Records /\ MayCommit(files, c)
                              /\ files' = [files EXCEPT ![c.id] = c]
                    \/ \E s \in Sessions :
                          MayEvict(files, s) /\ files' = [files EXCEPT ![s] = NoFile]
  OBVIOUS
<1>1. PICK p \in Procs : Rename(p) \/ EvictNext(p)
  BY DEF Next, vars, Calls, Advance, Trouble, WriteCall, LookupCall, ListCall,
         Enter, Unavailable, AcquireLock, Scan, ScanFails, Stopped, AssignOrder,
         OpenTemp, SyncTemp, Rescan, RescanFails, Retained, Lookup, List, Return,
         ReadFault, WriteFault, EvictFault, Crash
<1> QED BY <1>1, RenameCommits, EvictNextEvicts

\* The two changes, slot by slot.
LEMMA SlotStep ==
    ASSUME CoreInv, [Next]_vars, files' # files
    PROVE  \/ \E c \in Records :
                 /\ MayCommit(files, c) /\ c.id \in Sessions
                 /\ \A t \in Sessions : files'[t] = IF t = c.id THEN c ELSE files[t]
           \/ \E s \in Sessions :
                 /\ MayEvict(files, s)
                 /\ \A t \in Sessions : files'[t] = IF t = s THEN NoFile ELSE files[t]
<1>1. DOMAIN files = Sessions /\ files \in [Sessions -> Slots] BY DEF CoreInv, TypeOK
<1>2. \A c \in Records : c.id \in Sessions BY DEF Records
<1>3. \/ \E c \in Records : MayCommit(files, c) /\ files' = [files EXCEPT ![c.id] = c]
      \/ \E s \in Sessions : MayEvict(files, s) /\ files' = [files EXCEPT ![s] = NoFile]
  BY DirectoryStep
<1> QED BY <1>1, <1>2, <1>3

\* No step gives an identity to a second session.
LEMMA IdentityStep ==
    ASSUME CoreInv, IdentityUnique, [Next]_vars
    PROVE  IdentityUnique'
<1>1. CASE files' = files BY <1>1 DEF IdentityUnique
<1>2. CASE files' # files
  <2>1. \A s \in Present(files)' : s \in Sessions /\ files'[s] \in Records BY DEF Present
  <2>2. ASSUME NEW c \in Records, MayCommit(files, c),
               \A t \in Sessions : files'[t] = IF t = c.id THEN c ELSE files[t]
        PROVE  IdentityUnique'
    BY <2>1, <2>2 DEF IdentityUnique, MayCommit, Present
  <2>3. ASSUME NEW s \in Sessions,
               \A t \in Sessions : files'[t] = IF t = s THEN NoFile ELSE files[t]
        PROVE  IdentityUnique'
    BY <2>1, <2>3, SlotAssumption DEF IdentityUnique, Present
  <2> QED BY <1>2, <2>2, <2>3, SlotStep
<1> QED BY <1>1, <1>2

\* IInv holds in every state of the journal, for any number of processes,
\* sessions and faults.
THEOREM Invariance == Spec => []IInv
<1>1. Init => IdentityUnique BY DEF Init, InitialDirectories, IdentityUnique
<1>2. CoreInv /\ IdentityUnique /\ [Next]_vars => IdentityUnique' BY IdentityStep
<1> QED BY <1>1, <1>2, CoreInvariance, PTL DEF Spec, IInv

\* An operation/attempt identity never names two sessions in the directory.
THEOREM IdentityUniqueness == Spec => []IdentityUnique
<1>1. IInv => IdentityUnique BY DEF IInv
<1> QED BY <1>1, Invariance, PTL

\* Terminal records never change, running ones only by their one transition.
THEOREM TerminalImmutability == Spec => TerminalImmutable
<1> DEFINE A == \A s \in Present(files) :
                  \/ files'[s] \in {files[s], NoFile}
                  \/ /\ files[s].state = "running"
                     /\ files'[s] = [files[s] EXCEPT !.state  = "terminal",
                                                     !.result = files'[s].result,
                                                     !.order  = files'[s].order]
<1>1. ASSUME CoreInv, [Next]_vars PROVE A
  <2> SUFFICES ASSUME NEW s \in Present(files), files'[s] \notin {files[s], NoFile}
               PROVE  /\ files[s].state = "running"
                      /\ files'[s] = [files[s] EXCEPT !.state  = "terminal",
                                                      !.result = files'[s].result,
                                                      !.order  = files'[s].order]
    OBVIOUS
  <2>1. s \in Sessions /\ files[s] \in Records BY DEF Present
  <2>2. files'[s] \in Records /\ TransitionValid(files[s], files'[s])
    BY <1>1, <2>1, SlotStep DEF MayCommit
  <2> QED BY <2>1, <2>2 DEF TransitionValid, Records
<1>2. CoreInv /\ [Next]_vars => [A]_vars BY <1>1
<1> QED BY <1>2, CoreInvariance, PTL DEF Spec, TerminalImmutable

\* A directory with a damaged file never changes, and no step damages one.
THEOREM FailsClosed == Spec => FailClosed
<1> DEFINE A == /\ Damaged(files) # {} => files' = files
                /\ Damaged(files') = Damaged(files)
<1>1. ASSUME CoreInv, [Next]_vars PROVE A
  <2>1. CASE files' = files BY <2>1
  <2>2. CASE files' # files
    <3>1. Damaged(files) = {} BY <1>1, <2>2, SlotStep DEF MayCommit, MayEvict
    <3>2. \A t \in Sessions : files'[t] \in Records \cup {NoFile, files[t]}
      BY <1>1, <2>2, SlotStep
    <3>3. Damaged(files') = {}
      BY <3>1, <3>2, SlotAssumption DEF Damaged, Damage
    <3> QED BY <3>1, <3>3
  <2> QED BY <2>1, <2>2
<1>2. CoreInv /\ [Next]_vars => [A]_vars BY <1>1
<1> QED BY <1>2, CoreInvariance, PTL DEF Spec, FailClosed

\* A record is the newest when it enters the directory, and the newest record
\* never leaves it.
THEOREM NewestAdmitted == Spec => AdmittedIsNewest
<1> DEFINE A == \A s \in Sessions :
                  /\ files[s] = NoFile /\ files'[s] # NoFile =>
                        \A t \in Present(files) : Newer(files'[s], files[t])
                  /\ s \in Present(files) /\ files'[s] = NoFile =>
                        \E t \in Present(files)' : Newer(files'[t], files[s])
<1>1. ASSUME CoreInv, [Next]_vars PROVE A
  <2>0. \A t \in Present(files) : t \in Sessions /\ files[t] \in Records
    BY DEF Present
  <2>1. CASE files' = files BY <2>0, <2>1, SlotAssumption
  <2>2. ASSUME NEW c \in Records, MayCommit(files, c),
               \A t \in Sessions : files'[t] = IF t = c.id THEN c ELSE files[t]
        PROVE  A
    <3>1. c # NoFile BY SlotAssumption
    <3>2. files[c.id] = NoFile => \A t \in Present(files) : Newer(c, files[t])
      <4> SUFFICES ASSUME files[c.id] = NoFile, NEW t \in Present(files)
                   PROVE  Newer(c, files[t])
        OBVIOUS
      <4>1. c.id \notin Present(files) BY SlotAssumption DEF Present
      <4>2. files[t].order <= c.order - 1 BY <2>2, <4>1 DEF MayCommit, OrderFor, IsTop
      <4>3. c.order \in Int /\ files[t].order \in Int BY <2>0, OrderFields
      <4> QED BY <4>2, <4>3 DEF Newer
    <3> QED BY <2>0, <2>2, <3>1, <3>2, SlotAssumption
  <2>3. ASSUME NEW s \in Sessions, MayEvict(files, s),
               \A t \in Sessions : files'[t] = IF t = s THEN NoFile ELSE files[t]
        PROVE  A
    <3>1. PICK t \in Present(files) : Newer(files[t], files[s]) /\ s \in Present(files)
      BY <2>3 DEF MayEvict
    <3>2. t # s BY <2>0, <3>1, NewerStrict
    <3>3. t \in Present(files)' /\ files'[t] = files[t]
      BY <2>0, <2>3, <3>1, <3>2 DEF Present
    <3> QED BY <2>0, <2>3, <3>1, <3>3, SlotAssumption
  <2> HIDE DEF A
  <2> QED BY <1>1, <2>1, <2>2, <2>3, SlotStep
<1>2. CoreInv /\ [Next]_vars => [A]_vars BY <1>1
<1> QED BY <1>2, CoreInvariance, PTL DEF Spec, AdmittedIsNewest
\* No step swaps two records that it keeps, unless it gives a v1 record its order.
THEOREM RanksStable == Spec => RankStable
<1> DEFINE A == \A s, t \in Present(files) :
                  /\ s \in Present(files)' /\ t \in Present(files)'
                  /\ \A x \in {s, t} : files[x].order = 0 => files'[x].order = 0
                  => (Newer(files[s], files[t]) <=> Newer(files'[s], files'[t]))
<1>1. ASSUME CoreInv, [Next]_vars PROVE A
  <2>1. ASSUME NEW x \in Present(files), x \in Present(files)',
               files[x].order = 0 => files'[x].order = 0
        PROVE  /\ files'[x].order = files[x].order /\ files'[x].start = files[x].start
               /\ files'[x].id = files[x].id
    <3>1. CASE files'[x] = files[x] BY <3>1
    <3>2. CASE files'[x] # files[x]
      <4>1. x \in Sessions /\ files'[x] \in Records BY <2>1 DEF Present
      <4>2. PICK c \in Records : MayCommit(files, c) /\ c.id = x /\ files'[x] = c
        BY <1>1, <3>2, <4>1, SlotStep, SlotAssumption
      <4>3. files[x].order \in Nat BY BoundsAssumption DEF Present, Records
      <4>4. files[x].order > 0 => c.order = files[x].order
        BY <4>2 DEF MayCommit, OrderFor
      <4> QED BY <2>1, <4>2, <4>3, <4>4 DEF MayCommit, TransitionValid
    <3> QED BY <3>1, <3>2
  <2> QED BY <2>1 DEF Newer
<1>2. CoreInv /\ [Next]_vars => [A]_vars BY <1>1
<1> QED BY <1>2, CoreInvariance, PTL DEF Spec, RankStable
-----------------------------------------------------------------------------
(* What a call that ends well has told its caller *)

\* A write with request r and reply a, on the directory f it leaves.
WriteTold(f, c, r, a) ==
    c.op = "write" =>
        /\ \/ r.id \in Present(f) /\ Content(f[r.id]) = Content(r)
           \/ /\ a.detail = "committed"
              /\ Cardinality({t \in Present(f) : f[t].order > r.order}) = Window(c)
        /\ a.detail = "committed" => Cardinality(Present(f)) <= Window(c)

\* A lookup c with reply a.
LookupTold(f, c, a) ==
    c.op \in {"inspect", "last_run"} =>
        /\ a.detail = "not_found" <=> Matches(f, c) = {}
        /\ \A r \in a.recs : \E s \in Matches(f, c) : r = f[s] /\ First(f, Matches(f, c), s)

\* A list c with reply a.
ListTold(f, c, a) ==
    c.op = "list" /\ c.out = "fits" =>
        /\ \A r \in a.recs : \E s \in Present(f) : r = f[s]
        /\ \A r \in a.recs, s \in Present(f) : Newer(f[s], r) => f[s] \in a.recs
        /\ Cardinality(a.recs) = IF c.arg = 0 \/ c.arg > Cardinality(Present(f))
                                 THEN Cardinality(Present(f)) ELSE c.arg

\* The retention loop has removed from the scanned directory f what was surplus
\* and is not doomed any more, and left g; r is the record it committed.
Retaining(f, g, c, r, left) ==
    /\ Directory(f) /\ Sound(f)
    /\ r \in Records /\ r.order > 0 /\ f[r.id] = r
    /\ left \subseteq Surplus(f, Window(c))
    /\ \A s \in Sessions :
          g[s] = IF s \in Surplus(f, Window(c)) \ left THEN NoFile ELSE f[s]

\* A write keeps being one past its scan, and a list has a number for a limit.
ArgPart(q) ==
    /\ pc[q] \in {"stage", "open", "staged", "committed", "retain"} => call[q].op = "write"
    /\ pc[q] \in {"lock", "locked", "scanned"} /\ call[q].op = "list" => call[q].arg \in Nat

\* What retention starts from and keeps.
RetentionPart(q) ==
    /\ pc[q] = "committed" =>
          request[q] \in Records /\ request[q].order > 0 /\ files[request[q].id] = request[q]
    /\ pc[q] = "retain" => Retaining(snap[q], files, call[q], request[q], doomed[q])

\* Until it returns, a call that ends well keeps the lock, so what it tells is
\* true when the caller gets it.
AnswerPart(q) ==
    pc[q] = "done" /\ reply[q].status = "ok" =>
        /\ lock = q
        /\ WriteTold(files, call[q], request[q], reply[q])
        /\ LookupTold(files, call[q], reply[q])
        /\ ListTold(files, call[q], reply[q])

\* The second invariant of the journal, on top of CoreInv.
AnswerInv == \A q \in Procs : ArgPart(q) /\ RetentionPart(q) /\ AnswerPart(q)

\* Once nothing is doomed any more, the caller's window holds: at most that many
\* records are left, and if the committed one is not among them, exactly that
\* many later ones are.
LEMMA RetainedTold ==
    ASSUME NEW f, NEW g, NEW c, NEW r, Window(c) \in Nat, Retaining(f, g, c, r, {})
    PROVE  WriteTold(g, c, r, Answer("ok", "committed", {}))
<1> DEFINE w == Window(c)
           later == {t \in Present(g) : g[t].order > r.order}
<1>1. /\ Directory(f) /\ Sound(f) /\ r \in Records /\ r.order > 0 /\ f[r.id] = r
      /\ \A s \in Sessions : g[s] = IF s \in Surplus(f, w) THEN NoFile ELSE f[s]
  BY DEF Retaining
<1>2. r.id \in Present(f) BY <1>1 DEF Present, Records
<1>0. \A s : Rank(f, s) \in Nat BY RankNat
<1> HIDE DEF w
<1>20. w \in Nat BY DEF w
<1>3. Present(g) = Foremost(f, w)
  BY <1>0, <1>1, <1>20, SlotAssumption DEF Present, Foremost, Surplus
<1>4. Cardinality(Present(g)) <= w BY <1>1, <1>3, <1>20, ForemostAtMost
<1>5. CASE r.id \in Present(g)
  <2>1. g[r.id] = r BY <1>1, <1>5, SlotAssumption DEF Present
  <2> QED BY <1>4, <1>5, <2>1 DEF WriteTold, w, Answer
<1>6. CASE r.id \notin Present(g)
  <2>1. r.id \in Surplus(f, w) BY <1>0, <1>2, <1>3, <1>6, <1>20 DEF Foremost, Surplus
  <2>2. Cardinality(Present(g)) = w BY <1>1, <1>3, <1>20, <2>1, ForemostExact
  <2>3. ASSUME NEW t \in Present(g) PROVE g[t].order > r.order
    <3>1. t \in Present(f) /\ Rank(f, t) < w /\ t # r.id /\ Rank(f, r.id) >= w
      BY <1>3, <1>6, <2>1 DEF Foremost, Surplus
    <3>2. ~Newer(f[r.id], f[t])
      <4> SUFFICES ASSUME Newer(f[r.id], f[t]) PROVE FALSE OBVIOUS
      <4>1. Rank(f, r.id) < Rank(f, t) BY <1>1, <1>2, <3>1, RankOrder
      <4> QED BY <4>1, <3>1, <1>0, <1>20
    <3>3. Newer(f[t], f[r.id]) BY <1>1, <1>2, <3>1, <3>2, NewerTotal
    <3>4. f[t].order # r.order BY <1>1, <1>2, <3>1 DEF Sound
    <3>5. f[t].order \in Int /\ r.order \in Int BY <1>1, <3>1, OrderFields DEF Present
    <3>6. g[t] = f[t] BY <1>1, SlotAssumption DEF Present
    <3> QED BY <1>1, <3>3, <3>4, <3>5, <3>6 DEF Newer
  <2>4. later = Present(g) BY <2>3
  <2> QED BY <1>4, <2>2, <2>4 DEF WriteTold, w, Answer
<1> QED BY <1>5, <1>6

\* A repeated write finds its content there.
LEMMA StoppedTold ==
    ASSUME NEW f, Directory(f), NEW c, NEW r, NEW s \in Stops(f, r),
           Verdict(f[s], r).status = "ok"
    PROVE  WriteTold(f, c, r, Verdict(f[s], r))
<1>1. f[s].id = r.id /\ SameContent(f[s], r) BY DEF Verdict, Answer
<1>2. s \in Present(f) /\ f[s].id = s BY DEF Stops, Directory
<1>3. Verdict(f[s], r).detail = "idempotent" BY <1>1 DEF Verdict, Answer
<1> QED BY <1>1, <1>2, <1>3 DEF WriteTold, SameContent

\* A lookup shows the newest match of what it scanned, or that there is none.
LEMMA LookupTells ==
    ASSUME NEW f, NEW c, c.out \in Buffers, NEW a, a.status = "ok",
           \/ Matches(f, c) = {} /\ a = Answer("ok", "not_found", {})
           \/ \E s : /\ First(f, Matches(f, c), s)
                     /\ a = IF Renders(f[s]) THEN CopyJson(c.out, {f[s]})
                            ELSE Answer("error", "session_record_corrupt", {})
    PROVE  LookupTold(f, c, a)
<1>1. CASE Matches(f, c) = {} /\ a = Answer("ok", "not_found", {})
  BY <1>1 DEF LookupTold, Answer
<1>2. ASSUME NEW s, First(f, Matches(f, c), s),
             a = IF Renders(f[s]) THEN CopyJson(c.out, {f[s]})
                 ELSE Answer("error", "session_record_corrupt", {})
      PROVE  LookupTold(f, c, a)
  <2>1. Renders(f[s]) BY <1>2 DEF Answer
  <2>2. s \in Matches(f, c) BY <1>2 DEF First
  <2>3. a.detail = "found" /\ a.recs \subseteq {f[s]}
    BY <1>2, <2>1 DEF CopyJson, Buffers, Answer
  <2> QED BY <1>2, <2>2, <2>3 DEF LookupTold
<1> QED BY <1>1, <1>2

\* A list shows the foremost records of what it scanned, no two of them the same.
LEMMA ListedSize ==
    ASSUME NEW f, Directory(f), NEW c, c.arg \in Nat
    PROVE  Cardinality(Listed(f, c)) =
              IF c.arg = 0 \/ c.arg > Cardinality(Present(f))
              THEN Cardinality(Present(f)) ELSE c.arg
<1> DEFINE T == {t \in Present(f) : c.arg = 0 \/ Rank(f, t) < c.arg}
           n == Cardinality(Present(f))
           h == [s \in T |-> f[s]]
<1>0. \A s : Rank(f, s) \in Nat BY RankNat
<1>1. Listed(f, c) = {f[s] : s \in T} BY DEF Listed
<1>2. h \in Bijection(T, Listed(f, c))
  <2>1. \A s \in T : f[s].id = s BY DEF Directory
  <2>2. h \in [T -> Listed(f, c)] BY <1>1
  <2>3. \A a, b \in T : h[a] = h[b] => a = b BY <2>1
  <2>4. \A y \in Listed(f, c) : \E x \in T : h[x] = y BY <1>1
  <2> HIDE DEF T, h
  <2> QED BY <2>2, <2>3, <2>4 DEF Bijection, Injection, Surjection, IsInjective
<1>3. IsFiniteSet(T) /\ IsFiniteSet(Present(f)) /\ n \in Nat
  <2>1. T \in SUBSET Present(f) OBVIOUS
  <2> HIDE DEF T
  <2> QED BY <2>1, PresentFinite
<1>4. Cardinality(Listed(f, c)) = Cardinality(T)
  <2> HIDE DEF T, h
  <2>1. ExistsBijection(T, Listed(f, c)) BY <1>2 DEF ExistsBijection
  <2> QED BY <2>1, <1>3, FS_Bijection
<1>5. CASE c.arg = 0
  <2>1. T = Present(f) BY <1>5
  <2> QED BY <1>4, <1>5, <2>1
<1>6. CASE c.arg # 0
  <2>1. T = Foremost(f, c.arg) BY <1>6 DEF Foremost
  <2>2. CASE Surplus(f, c.arg) = {}
    <3>1. T = Present(f) BY <1>0, <1>6, <2>2 DEF Surplus
    <3>2. n <= c.arg BY <2>1, <3>1, ForemostAtMost
    <3> QED BY <1>3, <1>4, <3>1, <3>2
  <2>3. CASE Surplus(f, c.arg) # {}
    <3>1. Cardinality(T) = c.arg BY <2>1, <2>3, ForemostExact
    <3>2. T \in SUBSET Present(f) OBVIOUS
    <3> HIDE DEF T
    <3>3. Cardinality(T) <= n BY <1>3, <3>2, FS_Subset
    <3> QED BY <1>3, <1>4, <1>6, <3>1, <3>3
  <2> QED BY <2>2, <2>3
<1> QED BY <1>5, <1>6

\* What a list copies to its caller is what ListTold says.
LEMMA ListTells ==
    ASSUME NEW f, Directory(f), NEW c, c.arg \in Nat, NEW a, a.status = "ok",
           a = IF \A r \in Listed(f, c) : Renders(r) THEN CopyJson(c.out, Listed(f, c))
               ELSE Answer("error", "session_list_render_failed", {})
    PROVE  ListTold(f, c, a)
<1> SUFFICES ASSUME c.out = "fits" PROVE ListTold(f, c, a) BY DEF ListTold
<1>1. a = Answer("ok", "found", Listed(f, c)) BY DEF CopyJson, Answer
<1>2. a.recs = Listed(f, c) BY <1>1 DEF Answer
<1>3. \A r \in Listed(f, c) : \E s \in Present(f) : r = f[s] BY DEF Listed
<1>4. ASSUME NEW r \in Listed(f, c), NEW s \in Present(f), Newer(f[s], r)
      PROVE  f[s] \in Listed(f, c)
  <2>1. PICK t \in Present(f) : r = f[t] /\ (c.arg = 0 \/ Rank(f, t) < c.arg)
    BY DEF Listed
  <2>2. Rank(f, s) < Rank(f, t) BY <1>4, <2>1, RankOrder
  <2>3. Rank(f, s) \in Nat /\ Rank(f, t) \in Nat BY RankNat
  <2>4. c.arg = 0 \/ Rank(f, s) < c.arg BY <2>1, <2>2, <2>3
  <2> QED BY <2>4 DEF Listed
<1> QED BY <1>2, <1>3, <1>4, ListedSize DEF ListTold

-----------------------------------------------------------------------------
(* AnswerInv is an invariant *)

\* A step of p leaves every other process alone.
LEMMA OthersFramed ==
    ASSUME CoreInv, NEW p \in Procs, Calls(p) \/ Advance(p) \/ Trouble(p),
           NEW q \in Procs \ {p}
    PROVE  Framed(q) /\ reply'[q] = reply[q]
<1>1. TypeOK /\ ProcInv(p) BY InvByProc
<1>2. CASE Calls(p)
  BY <1>1, <1>2 DEF Calls, WriteCall, LookupCall, ListCall, Enter, Framed, TypeOK
<1>3. CASE AcquireLock(p) BY <1>1, <1>3, NoProcAssumption DEF AcquireLock, Framed, TypeOK
<1>4. CASE Scan(p) \/ ScanFails(p) BY <1>1, <1>4 DEF Scan, ScanFails, Framed, TypeOK
<1>5. CASE Stopped(p) BY <1>1, <1>5 DEF Stopped, Framed, TypeOK
<1>6. CASE AssignOrder(p) BY <1>1, <1>6 DEF AssignOrder, Framed, TypeOK
<1>7. CASE OpenTemp(p) \/ SyncTemp(p) \/ Rename(p)
  <2>1. lock = p BY <1>1, <1>7 DEF ProcInv, OpenTemp, SyncTemp, Rename
  <2> QED BY <1>1, <1>7, <2>1 DEF OpenTemp, SyncTemp, Rename, Framed, TypeOK
<1>8. CASE Rescan(p) \/ RescanFails(p) \/ Retained(p)
  BY <1>1, <1>8 DEF Rescan, RescanFails, Retained, Framed, TypeOK
<1>9. CASE EvictNext(p)
  <2>1. lock = p BY <1>1, <1>9 DEF ProcInv, EvictNext
  <2> QED BY <1>1, <1>9, <2>1 DEF EvictNext, Framed, TypeOK
<1>10. CASE Lookup(p) \/ List(p) BY <1>1, <1>10 DEF Lookup, List, Framed, TypeOK
<1>11. CASE Return(p) \/ Crash(p)
  BY <1>1, <1>11 DEF Return, Crash, Reset, Framed, TypeOK
<1>12. CASE Unavailable(p) \/ ReadFault(p) \/ EvictFault(p)
  BY <1>1, <1>12 DEF Unavailable, ReadFault, EvictFault, Framed, TypeOK
<1>13. CASE WriteFault(p)
  <2>1. lock = p BY <1>1, <1>13 DEF ProcInv, WriteFault
  <2> QED BY <1>1, <1>13, <2>1 DEF WriteFault, Framed, TypeOK
<1> QED BY <1>2, <1>3, <1>4, <1>5, <1>6, <1>7, <1>8, <1>9, <1>10, <1>11, <1>12, <1>13
        DEF Advance, Trouble

Parts(q) == ArgPart(q) /\ RetentionPart(q) /\ AnswerPart(q)

\* For a step of p it is enough to look at p.
LEMMA AnswerByStep ==
    ASSUME CoreInv, AnswerInv, NEW p \in Procs, Calls(p) \/ Advance(p) \/ Trouble(p),
           Parts(p)'
    PROVE  AnswerInv'
<1>1. ASSUME NEW q \in Procs \ {p} PROVE Parts(q)'
  <2>1. Framed(q) /\ reply'[q] = reply[q] BY OthersFramed
  <2>2. Parts(q) /\ ProcInv(q) BY InvByProc DEF AnswerInv, Parts
  <2>3. ArgPart(q)' BY <2>1, <2>2 DEF Parts, ArgPart, Framed
  <2>4. RetentionPart(q)'
    <3>1. CASE lock = q BY <2>1, <2>2, <3>1 DEF Parts, RetentionPart, Framed
    <3>2. CASE lock # q BY <2>1, <2>2, <3>2 DEF ProcInv, RetentionPart, Framed
    <3> QED BY <3>1, <3>2
  <2>5. AnswerPart(q)'
    <3>1. CASE lock = q BY <2>1, <2>2, <3>1 DEF Parts, AnswerPart, Framed
    <3>2. CASE lock # q BY <2>1, <2>2, <3>2 DEF Parts, AnswerPart, Framed
    <3> QED BY <3>1, <3>2
  <2> QED BY <2>3, <2>4, <2>5 DEF Parts
<1>2. \A q \in Procs : Parts(q)' BY <1>1
<1> QED BY <1>2 DEF AnswerInv, Parts

\* A call that ends badly tells nothing.
LEMMA NothingTold ==
    ASSUME NEW p \in Procs, pc'[p] = "done", reply'[p].status # "ok"
    PROVE  Parts(p)'
BY DEF Parts, ArgPart, RetentionPart, AnswerPart

\* The steps that end a call badly, begin one or forget one.
LEMMA QuietParts ==
    ASSUME CoreInv, AnswerInv, NEW p \in Procs,
           Calls(p) \/ ScanFails(p) \/ RescanFails(p) \/ Return(p) \/ Trouble(p)
    PROVE  Parts(p)'
<1>1. TypeOK /\ ProcInv(p) /\ Parts(p) BY InvByProc DEF AnswerInv, Parts
<1>2. CASE Calls(p)
  <2>1. ASSUME NEW c, NEW v, Enter(p, c, v), c.op = "list" => c.arg \in Nat
        PROVE  Parts(p)'
    <3>1. CASE v
      BY <1>1, <2>1, <3>1 DEF Enter, Parts, ArgPart, RetentionPart, AnswerPart, TypeOK
    <3>2. CASE ~v BY <1>1, <2>1, <3>2, NothingTold DEF Enter, Answer, TypeOK
    <3> QED BY <3>1, <3>2
  <2>2. CASE \E r \in Requests, m \in Maxima : WriteCall(p, r, m)
    BY <2>1, <2>2 DEF WriteCall
  <2>3. ASSUME NEW op \in {"inspect", "last_run"}, NEW key, NEW out, LookupCall(p, op, key, out)
        PROVE  Parts(p)'
    BY <2>1, <2>3 DEF LookupCall
  <2>4. ASSUME NEW n \in Limits, NEW out \in Buffers, ListCall(p, n, out)
        PROVE  Parts(p)'
    BY <2>1, <2>4, MaximaAssumption DEF ListCall
  <2> QED BY <1>2, <2>2, <2>3, <2>4 DEF Calls
<1>3. CASE ScanFails(p) \/ RescanFails(p)
  BY <1>1, <1>3, NothingTold DEF ScanFails, RescanFails, Answer, TypeOK
<1>4. CASE Return(p) \/ Crash(p)
  BY <1>1, <1>4
  DEF Return, Crash, Reset, Parts, ArgPart, RetentionPart, AnswerPart, TypeOK
<1>5. CASE Unavailable(p) \/ ReadFault(p) \/ WriteFault(p) \/ EvictFault(p)
  BY <1>1, <1>5, NothingTold
  DEF Unavailable, ReadFault, WriteFault, EvictFault, Answer, TypeOK
<1> QED BY <1>2, <1>3, <1>4, <1>5 DEF Trouble

\* The steps on the way to the commit tell nothing yet.
LEMMA OnTheWayParts ==
    ASSUME CoreInv, AnswerInv, NEW p \in Procs,
           AcquireLock(p) \/ Scan(p) \/ AssignOrder(p) \/ OpenTemp(p) \/ SyncTemp(p)
    PROVE  Parts(p)'
<1> USE DEF Parts, ArgPart, RetentionPart, AnswerPart
<1>1. TypeOK /\ Parts(p) BY InvByProc DEF AnswerInv
<1>2. CASE AcquireLock(p) BY <1>1, <1>2 DEF AcquireLock, TypeOK
<1>3. CASE Scan(p) BY <1>1, <1>3 DEF Scan, TypeOK
<1>4. CASE AssignOrder(p)
  <2>1. CASE pc'[p] = "stage" BY <1>1, <1>4, <2>1 DEF AssignOrder, TypeOK
  <2>2. CASE pc'[p] # "stage"
    BY <1>1, <1>4, <2>2, NothingTold DEF AssignOrder, Answer, TypeOK
  <2> QED BY <2>1, <2>2
<1>5. CASE OpenTemp(p) \/ SyncTemp(p) BY <1>1, <1>5 DEF OpenTemp, SyncTemp, TypeOK
<1> QED BY <1>2, <1>3, <1>4, <1>5

\* Commit and retention.
LEMMA RetentionParts ==
    ASSUME CoreInv, AnswerInv, NEW p \in Procs,
           Rename(p) \/ Rescan(p) \/ EvictNext(p) \/ Retained(p)
    PROVE  Parts(p)'
<1>1. TypeOK /\ ProcInv(p) /\ Parts(p) BY InvByProc DEF AnswerInv, Parts
<1>2. CASE Rename(p)
  <2>1. PICK c \in Records : request[p] = c /\ c.order > 0 /\ files' = [files EXCEPT ![c.id] = c]
    BY <1>2, RenameCommits
  <2>2. files'[c.id] = c BY <1>1, <2>1 DEF TypeOK, Records
  <2>3. pc'[p] = "committed" /\ request' = request /\ call' = call /\ call[p].op = "write"
    BY <1>1, <1>2 DEF Rename, TypeOK, Parts, ArgPart
  <2> QED BY <2>1, <2>2, <2>3 DEF Parts, ArgPart, RetentionPart, AnswerPart
<1>3. CASE Rescan(p)
  <2>1. /\ pc'[p] = "retain" /\ request' = request /\ call' = call /\ files' = files
        /\ snap'[p] = files /\ doomed'[p] = Surplus(files, Window(call[p]))
        /\ call[p].op = "write"
    BY <1>1, <1>3 DEF Rescan, TypeOK, Parts, ArgPart
  <2>2. /\ request[p] \in Records /\ request[p].order > 0
        /\ files[request[p].id] = request[p]
    BY <1>1, <1>3 DEF Rescan, Parts, RetentionPart
  <2>3. Directory(files) /\ Sound(files) BY InvDirectory
  <2>4. Retaining(files, files, call[p], request[p], Surplus(files, Window(call[p])))
    BY <2>2, <2>3 DEF Retaining
  <2> QED BY <2>1, <2>4 DEF Parts, ArgPart, RetentionPart, AnswerPart
<1>4. CASE EvictNext(p)
  <2>1. PICK s \in doomed[p] : /\ s \in Sessions
                               /\ files' = [files EXCEPT ![s] = NoFile]
                               /\ doomed' = [doomed EXCEPT ![p] = @ \ {s}]
    BY <1>4, EvictNextEvicts
  <2>2. /\ pc[p] = "retain" /\ pc' = pc /\ request' = request /\ call' = call
        /\ snap' = snap /\ doomed'[p] = doomed[p] \ {s} /\ call[p].op = "write"
    BY <1>1, <1>4, <2>1 DEF EvictNext, TypeOK, Parts, ArgPart
  <2>3. Retaining(snap[p], files, call[p], request[p], doomed[p])
    BY <1>1, <2>2 DEF Parts, RetentionPart
  <2>4. \A t \in Sessions : files'[t] = IF t = s THEN NoFile ELSE files[t]
    BY <1>1, <2>1 DEF TypeOK
  <2>5. Retaining(snap[p], files', call[p], request[p], doomed[p] \ {s})
    BY <2>3, <2>4 DEF Retaining
  <2> QED BY <2>2, <2>5 DEF Parts, ArgPart, RetentionPart, AnswerPart
<1>5. CASE Retained(p)
  <2>1. /\ pc'[p] = "done" /\ request' = request /\ call' = call /\ files' = files
        /\ reply'[p] = Answer("ok", "committed", {}) /\ lock' = lock
        /\ call[p].op = "write"
    BY <1>1, <1>5 DEF Retained, TypeOK, Parts, ArgPart
  <2>2. lock = p /\ Window(call[p]) \in Nat
    BY <1>1, <1>5, BoundsAssumption DEF ProcInv, Retained, Window
  <2>3. Retaining(snap[p], files, call[p], request[p], {})
    BY <1>1, <1>5 DEF Parts, RetentionPart, Retained
  <2>4. WriteTold(files, call[p], request[p], reply'[p])
    BY <2>1, <2>2, <2>3, RetainedTold
  <2>5. LookupTold(files, call[p], reply'[p]) /\ ListTold(files, call[p], reply'[p])
    BY <2>1 DEF LookupTold, ListTold
  <2> QED BY <2>1, <2>2, <2>4, <2>5 DEF Parts, ArgPart, RetentionPart, AnswerPart
<1> QED BY <1>2, <1>3, <1>4, <1>5

\* The steps that answer from the scan.
LEMMA ScanAnswerParts ==
    ASSUME CoreInv, AnswerInv, NEW p \in Procs, Stopped(p) \/ Lookup(p) \/ List(p)
    PROVE  Parts(p)'
<1>1. TypeOK /\ ProcInv(p) /\ Parts(p) BY InvByProc DEF AnswerInv, Parts
<1>2. /\ pc[p] = "scanned" /\ pc'[p] = "done" /\ request' = request /\ call' = call
      /\ files' = files /\ lock' = lock
  BY <1>1 DEF Stopped, Lookup, List, TypeOK
<1>3. lock = p /\ snap[p] = files /\ call[p] \in CallRecords BY <1>1, <1>2 DEF ProcInv
<1>4. Directory(files) BY InvDirectory
<1>5. call[p].out \in Buffers BY <1>3 DEF CallRecords
<1> SUFFICES ASSUME reply'[p].status = "ok" PROVE Parts(p)' BY <1>2, NothingTold
<1>6. CASE Stopped(p)
  <2>1. PICK s : /\ s \in Stops(files, request[p])
                 /\ reply'[p] = Verdict(files[s], request[p])
    BY <1>1, <1>3, <1>6 DEF Stopped, First, TypeOK
  <2>2. WriteTold(files, call[p], request[p], reply'[p])
    BY <1>4, <2>1, StoppedTold
  <2>3. LookupTold(files, call[p], reply'[p]) /\ ListTold(files, call[p], reply'[p])
    BY <1>6 DEF LookupTold, ListTold, Stopped
  <2> QED BY <1>2, <1>3, <2>2, <2>3 DEF Parts, ArgPart, RetentionPart, AnswerPart
<1>7. CASE Lookup(p)
  <2>1. \/ Matches(files, call[p]) = {} /\ reply'[p] = Answer("ok", "not_found", {})
        \/ \E s : /\ First(files, Matches(files, call[p]), s)
                  /\ reply'[p] = IF Renders(files[s]) THEN CopyJson(call[p].out, {files[s]})
                                 ELSE Answer("error", "session_record_corrupt", {})
    BY <1>1, <1>3, <1>7 DEF Lookup, TypeOK
  <2>2. LookupTold(files, call[p], reply'[p]) BY <1>5, <2>1, LookupTells
  <2>3. WriteTold(files, call[p], request[p], reply'[p]) /\ ListTold(files, call[p], reply'[p])
    BY <1>7 DEF WriteTold, ListTold, Lookup
  <2> QED BY <1>2, <1>3, <2>2, <2>3 DEF Parts, ArgPart, RetentionPart, AnswerPart
<1>8. CASE List(p)
  <2>1. reply'[p] = IF \A r \in Listed(files, call[p]) : Renders(r)
                    THEN CopyJson(call[p].out, Listed(files, call[p]))
                    ELSE Answer("error", "session_list_render_failed", {})
    BY <1>1, <1>3, <1>8 DEF List, TypeOK
  <2>2. call[p].op = "list" /\ call[p].arg \in Nat
    BY <1>1, <1>8 DEF List, Parts, ArgPart
  <2>3. ListTold(files, call[p], reply'[p]) BY <1>4, <2>1, <2>2, ListTells
  <2>4. WriteTold(files, call[p], request[p], reply'[p]) /\ LookupTold(files, call[p], reply'[p])
    BY <2>2 DEF WriteTold, LookupTold
  <2> QED BY <1>2, <1>3, <2>3, <2>4 DEF Parts, ArgPart, RetentionPart, AnswerPart
<1> QED BY <1>6, <1>7, <1>8

\* Every step keeps the second invariant.
LEMMA NextAnswer == CoreInv /\ AnswerInv /\ [Next]_vars => AnswerInv'
<1> SUFFICES ASSUME CoreInv, AnswerInv, [Next]_vars PROVE AnswerInv' OBVIOUS
<1>1. CASE Next
  <2>1. PICK p \in Procs : Calls(p) \/ Advance(p) \/ Trouble(p) BY <1>1 DEF Next
  <2>2. Parts(p)'
    BY <2>1, QuietParts, OnTheWayParts, RetentionParts, ScanAnswerParts DEF Advance
  <2> QED BY <2>1, <2>2, AnswerByStep
<1>2. CASE UNCHANGED vars
  BY <1>2 DEF vars, AnswerInv, ArgPart, RetentionPart, AnswerPart
<1> QED BY <1>1, <1>2

\* Both invariants hold in every state of the journal.
THEOREM AnswerInvariance == Spec => [](CoreInv /\ AnswerInv)
<1>1. Init => AnswerInv BY DEF Init, AnswerInv, ArgPart, RetentionPart, AnswerPart
<1> QED BY <1>1, NextAnswer, CoreInvariance, PTL DEF Spec

\* A write that returns OK has its content on disk, or as many later records as
\* the caller's window holds have pushed it out.
THEOREM OkIsStored == Spec => []OkMeansStored
<1>1. AnswerInv => OkMeansStored BY DEF AnswerInv, AnswerPart, WriteTold, OkMeansStored
<1> QED BY <1>1, AnswerInvariance, PTL

\* A write that is told of a conflict keeps the lock, and its record is not there.
ConflictPart(q) ==
    pc[q] = "done" /\ call[q].op = "write" /\ reply[q].detail \in Conflicts =>
        /\ lock = q
        /\ request[q].id \in Present(files) =>
              Content(files[request[q].id]) # Content(request[q])

ConflictInv == \A q \in Procs : ConflictPart(q)

\* The verdict of a conflict is given at a record that is not the requested one.
LEMMA VerdictConflict ==
    ASSUME NEW f, Directory(f), NEW r,
           \A s, t \in Present(f) : f[s].ident = f[t].ident => s = t,
           NEW s \in Stops(f, r), Verdict(f[s], r).detail \in Conflicts,
           r.id \in Present(f)
    PROVE  Content(f[r.id]) # Content(r)
<1>1. s \in Present(f) /\ f[s].id = s /\ f[r.id].id = r.id BY DEF Stops, Directory
<1>2. f[s].id = r.id => ~SameContent(f[s], r) BY DEF Verdict, Answer, Conflicts
<1>3. CASE s = r.id BY <1>1, <1>2, <1>3 DEF SameContent
<1>4. CASE s # r.id
  <2>1. f[s].ident = r.ident BY <1>1, <1>4 DEF Stops, IdentityConflict
  <2>2. f[r.id].ident # r.ident BY <1>1, <1>4, <2>1
  <2>3. f[r.id] \in Records BY DEF Present
  <2>4. Content(f[r.id]).ident = f[r.id].ident BY <2>3 DEF Content, Records
  <2>5. SUFFICES ASSUME Content(f[r.id]) = Content(r) PROVE FALSE OBVIOUS
  <2>6. Content(r).ident = r.ident BY DEF Content
  <2> QED BY <2>2, <2>4, <2>5, <2>6
<1> QED BY <1>3, <1>4

\* Only the loop over the snapshot tells of a conflict.
LEMMA ConflictStep ==
    ASSUME CoreInv, IdentityUnique, ConflictInv, [Next]_vars
    PROVE  ConflictInv'
<1>1. CASE UNCHANGED vars BY <1>1 DEF vars, ConflictInv, ConflictPart
<1>2. CASE Next
  <2>1. PICK p \in Procs : Calls(p) \/ Advance(p) \/ Trouble(p) BY <1>2 DEF Next
  <2>2. ASSUME NEW q \in Procs \ {p} PROVE ConflictPart(q)'
    <3>1. Framed(q) /\ reply'[q] = reply[q] BY <2>1, OthersFramed
    <3>2. ConflictPart(q) BY DEF ConflictInv
    <3>3. CASE lock = q BY <3>1, <3>2, <3>3 DEF ConflictPart, Framed
    <3>4. CASE lock # q BY <3>1, <3>2, <3>4 DEF ConflictPart, Framed
    <3> QED BY <3>3, <3>4
  <2>3. TypeOK /\ ProcInv(p) BY InvByProc
  <2>4. ConflictPart(p)'
    <3>1. CASE pc'[p] # "done" BY <3>1 DEF ConflictPart
    <3>2. CASE call'[p].op # "write" BY <3>2 DEF ConflictPart
    <3>3. CASE reply'[p].detail \notin Conflicts BY <3>3 DEF ConflictPart
    <3>4. CASE Calls(p)
      <4>1. ASSUME NEW c, NEW v, Enter(p, c, v)
            PROVE  pc'[p] # "done" \/ reply'[p].detail \notin Conflicts
        BY <2>3, <4>1 DEF Enter, Goto, Finish, Answer, Conflicts, TypeOK
      <4>2. pc'[p] # "done" \/ reply'[p].detail \notin Conflicts
        BY <3>4, <4>1 DEF Calls, WriteCall, LookupCall, ListCall
      <4> QED BY <3>1, <3>3, <4>2
    <3>5. CASE Stopped(p)
      <4>1. PICK s \in Sessions : /\ First(snap[p], Stops(snap[p], request[p]), s)
                                  /\ Finish(p, Verdict(snap[p][s], request[p]))
        BY <3>5 DEF Stopped
      <4>2. /\ s \in Stops(files, request[p])
            /\ reply'[p] = Verdict(files[s], request[p])
            /\ lock = p /\ lock' = lock /\ files' = files /\ request' = request
        BY <2>3, <3>5, <4>1 DEF ProcInv, Stopped, First, Finish, TypeOK
      <4>3. Directory(files) BY InvDirectory
      <4>4. \A x, y \in Present(files) : files[x].ident = files[y].ident => x = y
        BY DEF IdentityUnique
      <4>5. reply'[p].detail \in Conflicts /\ request[p].id \in Present(files) =>
              Content(files[request[p].id]) # Content(request[p])
        BY <4>2, <4>3, <4>4, VerdictConflict
      <4>6. Present(files)' = Present(files) BY <4>2 DEF Present
      <4> QED BY <4>2, <4>5, <4>6 DEF ConflictPart
    <3>6. CASE Lookup(p) \/ List(p)
      BY <2>3, <3>2, <3>6 DEF Lookup, List, TypeOK
    <3>7. CASE Return(p) \/ Crash(p)
      <4>1. pc'[p] = "idle" BY <2>3, <3>7 DEF Return, Crash, Reset, Goto, TypeOK
      <4> QED BY <3>1, <4>1
    <3>8. CASE \/ ScanFails(p) \/ RescanFails(p) \/ Retained(p)
               \/ Unavailable(p) \/ ReadFault(p) \/ WriteFault(p) \/ EvictFault(p)
      <4>1. reply'[p].detail \notin Conflicts
        BY <2>3, <3>8 DEF ScanFails, RescanFails, Retained, Unavailable, ReadFault,
           ReadFaultDetail, WriteFault, EvictFault, Finish, Answer, Conflicts, TypeOK
      <4> QED BY <3>3, <4>1
    <3>9. CASE AssignOrder(p)
      <4>1. pc'[p] = "stage" \/ reply'[p].detail \notin Conflicts
        BY <2>3, <3>9 DEF AssignOrder, Finish, Goto, Answer, Conflicts, TypeOK
      <4> QED BY <3>1, <3>3, <4>1
    <3>10. CASE AcquireLock(p) \/ Scan(p) \/ OpenTemp(p) \/ SyncTemp(p) \/ Rename(p)
                \/ Rescan(p) \/ EvictNext(p)
      <4>1. pc'[p] # "done"
        BY <2>3, <3>10 DEF AcquireLock, Scan, OpenTemp, SyncTemp, Rename, Rescan,
           EvictNext, Goto, TypeOK
      <4> QED BY <3>1, <4>1
    <3> QED BY <2>1, <3>4, <3>5, <3>6, <3>7, <3>8, <3>9, <3>10 DEF Advance, Trouble
  <2> QED BY <2>2, <2>4 DEF ConflictInv
<1> QED BY <1>1, <1>2

\* What a write is told is true: OK is never hollow, and a record that is there
\* is never called a conflict, so that ulk_session_journal_write_v1 may be
\* retried.
THEOREM WritersToldTruth == Spec => []WriteAnswersTrue
<1>1. Init => ConflictInv BY DEF Init, ConflictInv, ConflictPart
<1>2. ConflictInv => ConflictMeansOther
  BY DEF ConflictInv, ConflictPart, ConflictMeansOther
<1>3. IInv /\ ConflictInv /\ [Next]_vars => ConflictInv' BY ConflictStep DEF IInv
<1>4. Spec => []ConflictInv BY <1>1, <1>3, Invariance, PTL DEF Spec
<1> QED BY <1>2, <1>4, OkIsStored, PTL DEF WriteAnswersTrue

\* A write that commits and returns OK leaves at most its window of records.
THEOREM WindowIsHonoured == Spec => []WindowHonoured
<1>1. AnswerInv => WindowHonoured BY DEF AnswerInv, AnswerPart, WriteTold, WindowHonoured
<1> QED BY <1>1, AnswerInvariance, PTL

\* What a reader returns is true of the directory at the moment it returns.
THEOREM ReadersAreCurrent == Spec => []ReadersCurrent
<1>1. AnswerInv => LookupCurrent BY DEF AnswerInv, AnswerPart, LookupTold, LookupCurrent
<1>2. AnswerInv => ListCurrent BY DEF AnswerInv, AnswerPart, ListTold, ListCurrent
<1> QED BY <1>1, <1>2, AnswerInvariance, PTL DEF ReadersCurrent
-----------------------------------------------------------------------------
(* Refinement *)

\* SessionStore's operators are those of SessionRecords.
LEMMA SameOperators ==
    /\ \A r : Store!FromPublic(r) = FromPublic(r)
    /\ \A f, r : Store!MayCommit(f, r) <=> MayCommit(f, r)
    /\ \A f, s : Store!MayEvict(f, s) <=> MayEvict(f, s)
    /\ Store!InitialDirectories = InitialDirectories
<1>1. Store!Records = Records /\ Store!Damage = Damage
  BY DEF Store!Records, Records, Store!Damage, Damage
<1>2. \A f : Store!Present(f) = Present(f) /\ Store!Damaged(f) = Damaged(f)
  BY <1>1 DEF Store!Present, Present, Store!Damaged, Damaged
<1>3. \A a, b : /\ Store!Newer(a, b) <=> Newer(a, b)
                /\ Store!TransitionValid(a, b) <=> TransitionValid(a, b)
  BY DEF Store!Newer, Newer, Store!TransitionValid, TransitionValid
<1>4. \A f, n : Store!IsTop(f, n) <=> IsTop(f, n) BY <1>2 DEF Store!IsTop, IsTop
<1>5. \A f, r : Store!OrderFor(f, r) <=> OrderFor(f, r)
  BY <1>2, <1>4 DEF Store!OrderFor, OrderFor
<1>6. \A f : Store!Fits(f) <=> Fits(f) 
  BY <1>2 DEF Store!Fits, Fits, Store!Cardinality, Cardinality
<1>7. \A r : Store!FromPublic(r) = FromPublic(r)
  BY DEF Store!FromPublic, FromPublic, Store!CText, CText
<1>8. \A f, r : Store!MayCommit(f, r) <=> MayCommit(f, r)
  BY <1>2, <1>3, <1>5 DEF Store!MayCommit, MayCommit
<1>9. \A f, s : Store!MayEvict(f, s) <=> MayEvict(f, s)
  BY <1>2, <1>3 DEF Store!MayEvict, MayEvict
<1>10. Store!InitialDirectories = InitialDirectories
  BY <1>2, <1>6 DEF Store!InitialDirectories, InitialDirectories
<1> QED BY <1>7, <1>8, <1>9, <1>10

\* A step of the journal is a step of the abstract store.
LEMMA StoreStep == CoreInv /\ [Next]_vars => [Store!Next]_files
<1> SUFFICES ASSUME CoreInv, [Next]_vars, files' # files PROVE Store!Next OBVIOUS
<1>1. ASSUME NEW r \in Requests, NEW n \in 1..MaxOrder,
             MayCommit(files, [FromPublic(r) EXCEPT !.order = n]),
             files' = [files EXCEPT ![[FromPublic(r) EXCEPT !.order = n].id]
                                        = [FromPublic(r) EXCEPT !.order = n]]
      PROVE  Store!Next
  <2>1. Store!Commit([Store!FromPublic(r) EXCEPT !.order = n])
    BY <1>1, SameOperators DEF Store!Commit
  <2> QED BY <2>1 DEF Store!Next
<1>2. ASSUME NEW s \in Sessions, MayEvict(files, s), files' = [files EXCEPT ![s] = NoFile]
      PROVE  Store!Next
  <2>1. Store!Evict(s) BY <1>2, SameOperators DEF Store!Evict
  <2> QED BY <2>1 DEF Store!Next
<1> QED BY <1>1, <1>2, DirectoryStep

\* The journal implements the abstract store: locking, temporary files,
\* crashes and retention never show.
THEOREM Refinement == Spec => ImplementsStore
<1>1. Init => Store!Init BY SameOperators DEF Init, Store!Init
<1> QED BY <1>1, StoreStep, CoreInvariance, PTL DEF Spec, ImplementsStore, Store!Spec
=============================================================================
