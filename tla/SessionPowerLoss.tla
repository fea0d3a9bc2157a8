-------------------------- MODULE SessionPowerLoss --------------------------
(***************************************************************************)
(* The session journal on a machine that may lose power.  A write forces   *)
(* the bytes of its temporary file to the disk before it renames it, but   *)
(* it never forces the directory: the rename and the removals that follow  *)
(* reach the disk later, each entry when the file system gets to it, and   *)
(* what has not arrived when the power fails is undone.                    *)
(*                                                                         *)
(* disk is the sessions directory as the disk holds it.  An entry whose    *)
(* bytes were not forced may arrive without them, and is then a damaged    *)
(* file.                                                                   *)
(***************************************************************************)
EXTENDS SessionJournal

CONSTANT MaxLosses   \* bound on the power losses of a behaviour

ASSUME LossesAssumption   == MaxLosses \in Nat
ASSUME NoRecordAssumption == NoRecord \notin Records

VARIABLES
    disk,      \* the entries of the sessions directory that are on the disk
    forced,    \* the temporary files whose bytes are on the disk
    whole,     \* the session files whose bytes are on the disk
    losses

powerVars == <<vars, disk, forced, whole, losses>>

PowerInit ==
    /\ Init
    /\ disk = files
    /\ forced = {}
    /\ whole = Sessions
    /\ losses = 0

\* Mutant: the temporary file is closed without fsync.
Forces_Never(p) == FALSE

\* fsync of the temporary file, part of the step that completes it.
Forces(p) == pc[p] = "open" /\ pc'[p] = "staged"

\* What p's step does to the bytes on the disk: opening a temporary file
\* truncates it, fsync forces it, and the rename carries its bytes along.
TrackBytes(p) ==
    LET s == request[p].id IN
    /\ forced' = IF Forces(p) THEN forced \cup {s}
                 ELSE IF temps' # temps THEN forced \ {s} ELSE forced
    /\ whole' = IF pc[p] = "staged" /\ pc'[p] = "committed"
                THEN IF s \in forced THEN whole \cup {s} ELSE whole \ {s}
                ELSE whole

\* A step of the journal: it works on what the file system shows.
JournalStep ==
    /\ \E p \in Procs :
          /\ Calls(p) \/ Advance(p) \/ Trouble(p)
          /\ IF request[p] = NoRecord \/ pc[p] = "lock"
             THEN UNCHANGED <<forced, whole>> ELSE TrackBytes(p)
    /\ UNCHANGED <<disk, losses>>

\* One entry of the directory arrives on the disk.
WriteBack(s) ==
    /\ disk' = [disk EXCEPT ![s] =
                   IF files[s] = NoFile \/ s \in whole THEN files[s] ELSE Corrupt]
    /\ disk' # disk
    /\ UNCHANGED <<vars, forced, whole, losses>>

\* The power fails: every process dies, and the directory is what the disk
\* holds.  Temporary files may be there or not; nothing reads them.
PowerLoss ==
    /\ losses < MaxLosses
    /\ losses' = losses + 1
    /\ files' = disk
    /\ temps' \in {temps, NoFiles}
    /\ lock' = NoProc
    /\ pc' = [p \in Procs |-> "idle"]
    /\ call' = [p \in Procs |-> NoCall]
    /\ request' = [p \in Procs |-> NoRecord]
    /\ snap' = [p \in Procs |-> NoFiles]
    /\ doomed' = [p \in Procs |-> {}]
    /\ reply' = [p \in Procs |-> NoReply]
    /\ forced' = {}
    /\ whole' = Sessions
    /\ UNCHANGED <<disk, faults>>

PowerNext == JournalStep \/ (\E s \in Sessions : WriteBack(s)) \/ PowerLoss

PowerSpec == PowerInit /\ [][PowerNext]_powerVars
-----------------------------------------------------------------------------
(* Properties *)

(***************************************************************************)
(* Whatever the disk holds when the power fails, a directory that was      *)
(* undamaged is undamaged afterwards: no session file is torn, so the      *)
(* journal, which fails closed on a torn one, stays usable.                *)
(***************************************************************************)
SurvivesPowerLoss == Damaged(disk) = {} /\ Damaged(files) = {}

(***************************************************************************)
(* The commit orders on the disk are distinct too, although entries arrive *)
(* in any order and a removal may be undone: a record that comes back      *)
(* after a power loss has an order of its own, so Last Run stays decided   *)
(* by admission and never by a timestamp.                                  *)
(***************************************************************************)
DiskOrdersDistinct ==
    \A s, t \in Present(disk) :
        disk[s].order = disk[t].order /\ disk[s].order > 0 => s = t
=============================================================================
