----------------------- MODULE SessionPowerLossProofs -----------------------
(***************************************************************************)
(* Proofs about SessionPowerLoss.  The directory that the disk holds lags  *)
(* behind the one the file system shows, entry by entry; DiskInv says how  *)
(* far the two may differ, and CoreInv of the journal holds through every  *)
(* power loss.  IdentityUnique does not: a removal may be undone after the *)
(* identity has been given to another session.                             *)
(***************************************************************************)
EXTENDS SessionPowerLoss, SessionJournalProofs

USE DEF Goto, Finish

\* The orders on the disk are those of the directory or older ones: none is
\* larger than all in the directory, and none belongs to another session there.
DiskInv ==
    /\ Directory(disk)
    /\ DiskOrdersDistinct
    /\ \A s \in Present(disk), t \in Present(files) :
          disk[s].order = files[t].order /\ disk[s].order > 0 => s = t
    /\ \A s \in Present(disk) :
          disk[s].order > 0 => \E t \in Present(files) : files[t].order >= disk[s].order

\* The bytes of every session file are on the disk, and so are those of a
\* temporary file that is about to be renamed.
BytesInv ==
    /\ whole = Sessions
    /\ \A p \in Procs : pc[p] = "staged" => request[p].id \in forced

\* The disk holds the damage that the directory holds.
DamageInv == Damaged(disk) = Damaged(files)

PowerInv == CoreInv /\ AnswerInv /\ DiskInv /\ BytesInv /\ DamageInv
-----------------------------------------------------------------------------
(* Steps of the journal *)

\* A commit takes an order that is on the disk under no other session.
LEMMA CommitDisk ==
    ASSUME CoreInv, DiskInv, disk' = disk, NEW c \in Records, MayCommit(files, c),
           c.id \in Sessions,
           \A t \in Sessions : files'[t] = IF t = c.id THEN c ELSE files[t]
    PROVE  DiskInv'
<1>1. \A f, s : s \in Present(f) => s \in Sessions /\ f[s] \in Records BY DEF Present
<1>2. \A r \in Records : r.order \in Nat BY BoundsAssumption DEF Records
<1>3. \A t \in Present(files') : t = c.id \/ t \in Present(files) BY <1>1 DEF Present
<1>4. \A t \in Present(files) : t \in Present(files') BY <1>1 DEF Present
<1>5. c.id \in Present(files') BY DEF Present
<1>6. ASSUME NEW s \in Present(disk), disk[s].order = c.order, disk[s].order > 0
      PROVE  s = c.id
  <2>1. CASE c.id \in Present(files) /\ files[c.id].order > 0
    BY <1>6, <2>1 DEF MayCommit, OrderFor, DiskInv
  <2>2. CASE ~(c.id \in Present(files) /\ files[c.id].order > 0)
    <3>1. PICK t \in Present(files) : files[t].order >= disk[s].order BY <1>6 DEF DiskInv
    <3>2. files[t].order <= c.order - 1 BY <2>2 DEF MayCommit, OrderFor, IsTop
    <3> QED BY <1>1, <1>2, <1>6, <3>1, <3>2
  <2> QED BY <2>1, <2>2
<1>7. c.id \in Present(files) => c.order >= files[c.id].order
  BY <1>1, <1>2 DEF MayCommit, OrderFor, IsTop
<1>8. ASSUME NEW s \in Present(disk), disk[s].order > 0
      PROVE  \E t \in Present(files') : files'[t].order >= disk[s].order
  <2>1. PICK t \in Present(files) : files[t].order >= disk[s].order BY <1>8 DEF DiskInv
  <2>2. t \in Present(files') BY <1>4
  <2>3. files'[t].order >= files[t].order BY <1>1, <1>2, <1>7
  <2>4. files'[t].order >= disk[s].order BY <1>1, <1>2, <2>1, <2>2, <2>3
  <2> QED BY <2>2, <2>4
<1>9. \A s \in Present(disk), t \in Present(files') :
          disk[s].order = files'[t].order /\ disk[s].order > 0 => s = t
  BY <1>1, <1>3, <1>6 DEF DiskInv
<1> QED BY <1>8, <1>9 DEF DiskInv, DiskOrdersDistinct

\* An eviction leaves a record in the directory that is no older on the disk.
LEMMA EvictDisk ==
    ASSUME CoreInv, DiskInv, disk' = disk, NEW e \in Sessions, MayEvict(files, e),
           \A t \in Sessions : files'[t] = IF t = e THEN NoFile ELSE files[t]
    PROVE  DiskInv'
<1>1. \A f, s : s \in Present(f) => s \in Sessions /\ f[s] \in Records BY DEF Present
<1>2. \A r \in Records : r.order \in Nat BY BoundsAssumption DEF Records
<1>3. Present(files') = Present(files) \ {e} BY SlotAssumption DEF Present
<1>4. PICK k \in Present(files) : Newer(files[k], files[e]) /\ e \in Present(files)
  BY DEF MayEvict
<1>5. k # e /\ files[k].order >= files[e].order
  BY <1>1, <1>2, <1>4, NewerStrict DEF Newer
<1>6. ASSUME NEW s \in Present(disk), disk[s].order > 0
      PROVE  \E t \in Present(files') : files'[t].order >= disk[s].order
  <2>1. PICK t \in Present(files) : files[t].order >= disk[s].order BY <1>6 DEF DiskInv
  <2>2. CASE t # e BY <1>1, <1>3, <2>1, <2>2
  <2>3. CASE t = e
    <3>1. k \in Present(files') /\ files'[k] = files[k] BY <1>1, <1>3, <1>5
    <3>2. files[k].order >= disk[s].order BY <1>1, <1>2, <1>4, <1>5, <2>1, <2>3
    <3> QED BY <3>1, <3>2
  <2> QED BY <2>2, <2>3
<1>7. \A s \in Present(disk), t \in Present(files') :
          disk[s].order = files'[t].order /\ disk[s].order > 0 => s = t
  BY <1>1, <1>3 DEF DiskInv
<1> QED BY <1>6, <1>7 DEF DiskInv, DiskOrdersDistinct

\* A step of the journal keeps the relation between directory and disk.
LEMMA StepDisk ==
    ASSUME CoreInv, DiskInv, DamageInv, [Next]_vars, disk' = disk
    PROVE  DiskInv' /\ DamageInv' /\ Damaged(files') = Damaged(files)
<1>1. CASE files' = files
  BY <1>1 DEF DiskInv, DamageInv, DiskOrdersDistinct
<1>2. CASE files' # files
  <2>1. DiskInv' BY <1>2, SlotStep, CommitDisk, EvictDisk
  <2>2. Damaged(files) = {} BY <1>2, SlotStep DEF MayCommit, MayEvict
  <2>3. \A t \in Sessions : files'[t] \in Records \cup {NoFile, files[t]}
    BY <1>2, SlotStep
  <2>4. Damaged(files') = {} BY <2>2, <2>3, SlotAssumption DEF Damaged, Damage
  <2> QED BY <2>1, <2>2, <2>4 DEF DamageInv
<1> QED BY <1>1, <1>2

\* Only the step that syncs the temporary file leads to the rename.
LEMMA OnlySyncStages ==
    ASSUME CoreInv, NEW p \in Procs, Calls(p) \/ Advance(p) \/ Trouble(p),
           pc'[p] = "staged"
    PROVE  SyncTemp(p)
<1>1. pc \in [Procs -> Labels] BY DEF CoreInv, TypeOK
<1>2. ~Calls(p) BY <1>1 DEF Calls, WriteCall, LookupCall, ListCall, Enter
<1>3. ~Trouble(p)
  BY <1>1 DEF Trouble, Unavailable, ReadFault, WriteFault, EvictFault, Crash, Reset
<1>4. ~(AcquireLock(p) \/ Scan(p) \/ ScanFails(p) \/ Stopped(p) \/ AssignOrder(p))
  BY <1>1 DEF AcquireLock, Scan, ScanFails, Stopped, AssignOrder
<1>5. ~(OpenTemp(p) \/ Rename(p) \/ Rescan(p) \/ RescanFails(p) \/ EvictNext(p))
  BY <1>1 DEF OpenTemp, Rename, Rescan, RescanFails, EvictNext
<1>6. ~(Retained(p) \/ Lookup(p) \/ List(p) \/ Return(p))
  BY <1>1 DEF Retained, Lookup, List, Return, Reset
<1> QED BY <1>2, <1>3, <1>4, <1>5, <1>6 DEF Advance

\* A step of the journal renames only what it has forced to the disk.
LEMMA StepBytes ==
    ASSUME CoreInv, BytesInv, JournalStep
    PROVE  BytesInv'
<1>1. PICK p \in Procs : /\ Calls(p) \/ Advance(p) \/ Trouble(p)
                         /\ IF request[p] = NoRecord \/ pc[p] = "lock"
                            THEN UNCHANGED <<forced, whole>> ELSE TrackBytes(p)
  BY DEF JournalStep
<1>2. ProcInv(p) /\ TypeOK BY InvByProc
<1>3. ASSUME pc[p] \in {"stage", "open", "staged"}
      PROVE  request[p] \in Records /\ request[p] # NoRecord /\ request[p].id \in Sessions
  <2>1. PICK r \in Requests, n \in 1..MaxOrder :
            request[p] = [FromPublic(r) EXCEPT !.order = n]
    BY <1>2, <1>3 DEF ProcInv
  <2>2. request[p] \in Records BY <2>1, SubmittedIsRecord
  <2> QED BY <2>2, NoRecordAssumption DEF Records
<1>4. whole' = Sessions
  <2>1. CASE pc[p] = "staged" /\ pc'[p] = "committed"
    BY <1>1, <1>3, <2>1 DEF TrackBytes, BytesInv
  <2>2. CASE ~(pc[p] = "staged" /\ pc'[p] = "committed")
    BY <1>1, <2>2 DEF TrackBytes, BytesInv
  <2> QED BY <2>1, <2>2
<1>5. pc'[p] = "staged" => request'[p].id \in forced'
  <2> SUFFICES ASSUME pc'[p] = "staged" PROVE request'[p].id \in forced' OBVIOUS
  <2>1. SyncTemp(p) BY <1>1, OnlySyncStages
  <2>2. pc[p] = "open" /\ request' = request BY <2>1 DEF SyncTemp
  <2>3. TrackBytes(p) BY <1>1, <1>3, <2>2
  <2> QED BY <2>2, <2>3 DEF TrackBytes, Forces
<1>6. ASSUME NEW q \in Procs \ {p}, pc'[q] = "staged"
      PROVE  request'[q].id \in forced'
  <2>1. Framed(q) BY <1>1, OthersFramed
  <2>2. pc[q] = "staged" /\ request'[q] = request[q] BY <1>6, <2>1 DEF Framed
  <2>3. request[q].id \in forced BY <2>2 DEF BytesInv
  <2>4. lock = q BY <2>2, InvByProc DEF ProcInv
  <2>5. temps' = temps BY <2>1, <2>4 DEF Framed
  <2>6. forced \subseteq forced' BY <1>1, <2>5 DEF TrackBytes
  <2> QED BY <2>2, <2>3, <2>6
<1> QED BY <1>4, <1>5, <1>6 DEF BytesInv
-----------------------------------------------------------------------------
(* Steps of the machine *)

\* An entry arrives on the disk.
LEMMA WriteBackPower ==
    ASSUME PowerInv, NEW s \in Sessions, WriteBack(s)
    PROVE  PowerInv'
<1> USE DEF PowerInv
<1>1. UNCHANGED vars /\ forced' = forced /\ whole' = whole BY DEF WriteBack
<1>2. CoreInv' BY <1>1, NextInv
<1>3. AnswerInv' BY <1>1, NextAnswer
<1>4. BytesInv' BY <1>1 DEF BytesInv, vars
<1>5. Directory(disk) /\ Directory(files) BY InvDirectory DEF DiskInv
<1>6. \A t \in Sessions : disk'[t] = IF t = s THEN files[s] ELSE disk[t]
  BY <1>5 DEF WriteBack, BytesInv, Directory
<1>7. disk' \in [Sessions -> Slots]
  BY <1>5 DEF WriteBack, BytesInv, Directory
<1>8. files' = files BY <1>1 DEF vars
<1>9. \A t \in Present(disk') : \/ t = s /\ s \in Present(files) /\ disk'[t] = files[s]
                                \/ t # s /\ t \in Present(disk) /\ disk'[t] = disk[t]
  BY <1>6 DEF Present
<1>10. Directory(disk') BY <1>5, <1>7, <1>9 DEF Directory
<1>11. \A t \in Present(files) : files[t].order \in Nat
  BY BoundsAssumption DEF Present, Records
<1>12. DiskInv'
  <2>1. DiskOrdersDistinct' BY <1>9 DEF DiskInv, DiskOrdersDistinct
  <2>2. \A u \in Present(disk'), t \in Present(files) :
            disk'[u].order = files[t].order /\ disk'[u].order > 0 => u = t
    BY <1>9 DEF DiskInv, CoreInv, OrdersDistinct
  <2>3. \A u \in Present(disk') :
            disk'[u].order > 0 => \E t \in Present(files) : files[t].order >= disk'[u].order
    BY <1>9, <1>11 DEF DiskInv
  <2> QED BY <1>8, <1>10, <2>1, <2>2, <2>3 DEF DiskInv
<1>13. DamageInv' BY <1>6, <1>8 DEF DamageInv, Damaged
<1> QED BY <1>2, <1>3, <1>4, <1>12, <1>13

\* The power fails, and the directory is what the disk held.
LEMMA PowerLossPower ==
    ASSUME PowerInv, PowerLoss
    PROVE  PowerInv'
<1> USE DEF PowerInv, PowerLoss
<1>1. Directory(disk) /\ TypeOK BY DEF DiskInv, CoreInv
<1>2. NoFiles \in [Sessions -> Slots] BY DEF NoFiles, Slots
<1>3. TypeOK' BY <1>1, <1>2 DEF TypeOK, Directory, Labels
<1>4. OrdersDistinct' BY DEF DiskInv, DiskOrdersDistinct, OrdersDistinct
<1>5. (LockInv /\ RequestInv /\ CommitInv /\ RetainInv)'
  BY DEF LockInv, RequestInv, CommitInv, RetainInv
<1>6. CoreInv' BY <1>3, <1>4, <1>5 DEF CoreInv
<1>7. AnswerInv' BY DEF AnswerInv, ArgPart, RetentionPart, AnswerPart
<1>8. \A t \in Present(disk) : disk[t].order \in Nat
  BY BoundsAssumption DEF Present, Records
<1>9. DiskInv' BY <1>8 DEF DiskInv, DiskOrdersDistinct
<1>10. BytesInv' /\ DamageInv' BY DEF BytesInv, DamageInv
<1> QED BY <1>6, <1>7, <1>9, <1>10

-----------------------------------------------------------------------------
(* The theorems *)

\* PowerInv holds at the start.
LEMMA PowerInitInv == PowerInit => PowerInv
<1> SUFFICES ASSUME PowerInit PROVE PowerInv OBVIOUS
<1>1. CoreInv BY InitInv DEF PowerInit
<1>2. AnswerInv
  BY DEF PowerInit, Init, AnswerInv, ArgPart, RetentionPart, AnswerPart
<1>3. Directory(files) /\ Sound(files) BY <1>1, InvDirectory
<1>4. \A t \in Present(files) : files[t].order \in Nat
  BY BoundsAssumption DEF Present, Records
<1>5. DiskInv BY <1>3, <1>4 DEF PowerInit, DiskInv, DiskOrdersDistinct, Sound
<1>6. BytesInv /\ DamageInv BY DEF PowerInit, Init, BytesInv, DamageInv
<1> QED BY <1>1, <1>2, <1>5, <1>6 DEF PowerInv

\* Every step keeps PowerInv.
LEMMA PowerNextInv == PowerInv /\ [PowerNext]_powerVars => PowerInv'
<1> SUFFICES ASSUME PowerInv, [PowerNext]_powerVars PROVE PowerInv' OBVIOUS
<1>1. CASE JournalStep
  <2>1. Next /\ disk' = disk BY <1>1 DEF JournalStep, Next
  <2>2. CoreInv' /\ AnswerInv' BY <2>1, NextInv, NextAnswer DEF PowerInv
  <2>3. DiskInv' /\ DamageInv' BY <2>1, StepDisk DEF PowerInv
  <2>4. BytesInv' BY <1>1, StepBytes DEF PowerInv
  <2> QED BY <2>2, <2>3, <2>4 DEF PowerInv
<1>2. CASE UNCHANGED powerVars
  <2>1. UNCHANGED vars /\ disk' = disk /\ forced' = forced /\ whole' = whole
    BY <1>2 DEF powerVars
  <2>2. CoreInv' /\ AnswerInv' BY <2>1, NextInv, NextAnswer DEF PowerInv
  <2>3. DiskInv' /\ DamageInv' BY <2>1, StepDisk DEF PowerInv
  <2>4. BytesInv' BY <2>1 DEF PowerInv, BytesInv, vars
  <2> QED BY <2>2, <2>3, <2>4 DEF PowerInv
<1> QED BY <1>1, <1>2, WriteBackPower, PowerLossPower DEF PowerNext

\* PowerInv holds in every state, for any number of power losses: the invariant
\* of the journal, what its answers say, and how the disk may lag behind.
THEOREM PowerInvariance == PowerSpec => []PowerInv
BY PowerInitInv, PowerNextInv, PTL DEF PowerSpec

\* The commit orders on the disk are distinct.
THEOREM DiskOrders == PowerSpec => []DiskOrdersDistinct
<1>1. PowerInv => DiskOrdersDistinct BY DEF PowerInv, DiskInv
<1> QED BY <1>1, PowerInvariance, PTL

\* Of a directory that was undamaged no file is ever torn, on the disk or in
\* what is read after a power loss.
THEOREM PowerLossSurvived == DamagedInit = {} /\ PowerSpec => []SurvivesPowerLoss
<1> DEFINE Undamaged == Damaged(files) = {}
<1>1. DamagedInit = {} /\ PowerInit => Undamaged
  <2> SUFFICES ASSUME DamagedInit = {}, PowerInit PROVE Damaged(files) = {} OBVIOUS
  <2>1. \A s \in Sessions : files[s] \in Legacy \cup {NoFile}
    BY DEF PowerInit, Init, InitialDirectories
  <2>2. \A s \in Sessions : files[s] \notin Damage
    BY <2>1, LegacyAssumption, SlotAssumption DEF Damage
  <2> QED BY <2>2 DEF Damaged
<1>2. PowerInv /\ Undamaged /\ [PowerNext]_powerVars => Undamaged'
  <2> SUFFICES ASSUME PowerInv, Damaged(files) = {}, [PowerNext]_powerVars
               PROVE  (Damaged(files) = {})'
    OBVIOUS
  <2>1. CASE JournalStep
    <3>1. Next /\ disk' = disk BY <2>1 DEF JournalStep, Next
    <3> QED BY <3>1, StepDisk DEF PowerInv
  <2>2. CASE PowerLoss BY <2>2 DEF PowerLoss, PowerInv, DamageInv
  <2>3. CASE UNCHANGED vars BY <2>3 DEF vars
  <2> QED BY <2>1, <2>2, <2>3 DEF PowerNext, WriteBack, powerVars
<1>3. PowerInv /\ Undamaged => SurvivesPowerLoss
  BY DEF PowerInv, DamageInv, SurvivesPowerLoss
<1> HIDE DEF Undamaged
<1> QED BY <1>1, <1>2, <1>3, PowerInvariance, PTL DEF PowerSpec

\* A power loss breaks no answer: whatever a call returns is true of the
\* directory the file system shows when it returns.
THEOREM AnswersSurvivePowerLoss ==
    PowerSpec => [](OkMeansStored /\ WindowHonoured /\ ReadersCurrent)
<1>1. AnswerInv => OkMeansStored BY DEF AnswerInv, AnswerPart, WriteTold, OkMeansStored
<1>2. AnswerInv => WindowHonoured BY DEF AnswerInv, AnswerPart, WriteTold, WindowHonoured
<1>3. AnswerInv => LookupCurrent BY DEF AnswerInv, AnswerPart, LookupTold, LookupCurrent
<1>4. AnswerInv => ListCurrent BY DEF AnswerInv, AnswerPart, ListTold, ListCurrent
<1>5. PowerInv => AnswerInv BY DEF PowerInv
<1> QED BY <1>1, <1>2, <1>3, <1>4, <1>5, PowerInvariance, PTL DEF ReadersCurrent
=============================================================================
