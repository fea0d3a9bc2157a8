--------------------------- MODULE WorktreeStore ----------------------------
(***************************************************************************)
(* The development store that workspace_hygiene.py keeps: one worktree,    *)
(* one ownership record and one task root per branch, and the commands     *)
(* that add, adopt, retire and clean them.  A command observes with git    *)
(* and GitHub and acts later; nothing locks the store, so a developer or   *)
(* another run may come between.  A run may also be killed anywhere.       *)
(*                                                                         *)
(* The commits of a branch are numbered, 0 being where it starts; a target *)
(* contains the commits up to a number.  Worktrees that are locked,        *)
(* detached, linked or outside the store are refused by every command and  *)
(* left out, as are branches whose names lead to one directory, and the    *)
(* one-time legacy commands, which look at names only.                     *)
(***************************************************************************)
EXTENDS Integers, FiniteSets

CONSTANTS
    Runs,        \* runs of the tool
    Branches,    \* branches with a supported prefix
    Targets,     \* refs that branches are merged to
    None,        \* no branch, no record
    Torn,        \* a record that is no JSON
    MaxTrees,    \* --max-worktrees
    MaxCrashes,  \* bound on runs killed
    Scenes       \* who is there: the settings that "scene" may take

ASSUME StoreAssumption ==
    /\ None \notin Branches \cup Targets /\ Torn \notin Targets \cup {None}
    /\ MaxTrees \in Nat /\ MaxCrashes \in Nat
    /\ Scenes \subseteq [alone : BOOLEAN, runs : SUBSET Runs,
                         branches : SUBSET Branches, targets : SUBSET Targets,
                         commits : Nat]

VARIABLES
    scene,     \* the setting of this behaviour: whether anybody acts while a
               \* command runs, the runs, branches and targets that take
               \* part, and a bound on the commits of a branch
    head,      \* the head of each local branch, or -1
    made,      \* the commits made on each branch so far
    tree,      \* its worktree: "none", "clean" or "dirty"
    contains,  \* the commits of a branch that a target contains
    merged,    \* merged pull requests: branch, target and exact head
    based,     \* branches that open pull requests use as base
    marked,    \* the marker of the store: "none", "whole", or "torn": no JSON
    record,    \* the target in the ownership record of a branch, None or Torn
    root,      \* its task root: "none", "recent", "expired", or "torn": without marker
    job,       \* what each run is doing, with its locals
    crashes,
    unsaved,   \* history: branches with edits not committed yet
    declared   \* history: the target that the command which made or adopted
               \* the worktree gave for it, or None

git      == <<head, made, tree, contains, merged, based>>
store    == <<marked, record, root>>
vars     == <<scene, git, store, job, crashes, unsaved, declared>>

Idle == [at |-> "idle", branch |-> None, target |-> None, todo |-> {}, kept |-> {}]
Step(at, b, t, todo, kept) ==
    [at |-> at, branch |-> b, target |-> t, todo |-> todo, kept |-> kept]
Goes(r, j) == job' = [job EXCEPT ![r] = j]

\* Whoever acts next may act now.
Free == scene.alone => \A r \in Runs : job[r] = Idle

\* The worktrees other than the primary checkout.
Secondary == {b \in Branches : tree[b] # "none"}
-----------------------------------------------------------------------------
(* worktree-add and worktree-register *)

\* ensure_worktree_store refuses a store whose marker it cannot read, and one
\* with content and no marker.
StoreUsable(acknowledged) ==
    marked = "whole" \/ (marked = "none" /\ (Secondary = {} \/ acknowledged))

\* The limit check of command_worktree_add.
RoomForTree == Cardinality(Secondary) < MaxTrees

\* command_worktree_add up to git worktree add.
AddCheck(r, b, t) ==
    /\ job[r] = Idle /\ Free
    /\ head[b] = -1 /\ RoomForTree /\ StoreUsable(FALSE) /\ tree[b] = "none"
    /\ marked' = "whole"
    /\ Goes(r, Step("add", b, t, {}, {}))
    /\ UNCHANGED <<git, record, root, crashes, unsaved, declared>>

\* git worktree add -b, which refuses a branch or a path that is there.
AddTree(r) ==
    LET b == job[r].branch IN
    /\ job[r].at = "add"
    /\ \/ /\ head[b] = -1 /\ tree[b] = "none"
          /\ head' = [head EXCEPT ![b] = 0]
          /\ tree' = [tree EXCEPT ![b] = "clean"]
          /\ declared' = [declared EXCEPT ![b] = job[r].target]
          /\ Goes(r, [job[r] EXCEPT !.at = "record"])
       \/ /\ head[b] # -1 \/ tree[b] # "none"
          /\ Goes(r, Idle)
          /\ UNCHANGED <<head, tree, declared>>
    /\ UNCHANGED <<made, contains, merged, based, store, crashes, unsaved>>

\* command_worktree_register up to write_worktree_record.
RegisterCheck(r, b, t) ==
    /\ job[r] = Idle /\ Free
    /\ tree[b] # "none"
    /\ Goes(r, Step("record", b, t, {}, {}))
    /\ UNCHANGED <<git, store, crashes, unsaved, declared>>

\* What write_worktree_record requires to be there: a record that cannot be
\* read, or has another target, is refused.
RecordFits(b, t) == tree[b] # "none" /\ record[b] \in {None, t}

\* write_worktree_record.  The acknowledgement of an unowned store is read here
\* and nowhere else.
WriteRecord(r, acknowledged) ==
    LET b == job[r].branch
        t == job[r].target
        usable == StoreUsable(acknowledged)
        fits == usable /\ RecordFits(b, t)
    IN
    /\ job[r].at = "record"
    /\ marked' = IF usable THEN "whole" ELSE marked
    /\ record' = [record EXCEPT ![b] = IF fits THEN t ELSE @]
    /\ declared' = [declared EXCEPT ![b] = IF fits THEN t ELSE @]
    /\ Goes(r, Idle)
    /\ UNCHANGED <<git, root, crashes, unsaved>>

\* write_text writes in place: a run killed in it leaves half a marker, which
\* is also the last thing written before git worktree add, or half a record.
KilledWriting(r, acknowledged) ==
    LET b == job[r].branch IN
    /\ job[r].at \in {"add", "record"} /\ StoreUsable(acknowledged)
    /\ crashes < MaxCrashes
    /\ \/ marked' = "torn" /\ UNCHANGED record
       \/ /\ job[r].at = "record" /\ RecordFits(b, job[r].target)
          /\ marked' = "whole"
          /\ record' = [record EXCEPT ![b] = Torn]
    /\ crashes' = crashes + 1
    /\ Goes(r, Idle)
    /\ UNCHANGED <<git, root, unsaved, declared>>
-----------------------------------------------------------------------------
(* worktrees --apply *)

\* read_worktree_record finds the record of the worktree.
Owned(b) == marked = "whole" /\ record[b] \in Targets

Contained(b, t) == head[b] <= contains[t][b]

\* local_ready of worktree_records.
LocallyReady(b) ==
    /\ tree[b] = "clean" /\ Owned(b)
    /\ Contained(b, record[b])

\* worktree_records: the whole list is observed first.  "here" is the
\* worktree that the command runs from.
RetireList(r, here) ==
    /\ job[r] = Idle /\ Free
    /\ Goes(r, Step("ask", None, None,
                    {<<b, head[b], record[b]>> :
                        b \in {x \in Secondary \ {here} : LocallyReady(x)}}, {}))
    /\ UNCHANGED <<git, store, crashes, unsaved, declared>>

\* github_pr_observation, for the head that was observed.
PullRequestsAllow(b, n, t) == <<b, t, n>> \in merged /\ b \notin based

\* retirement_record of one worktree; GitHub may not answer.
RetireAsk(r) ==
    /\ job[r].at = "ask"
    /\ \E x \in job[r].todo, answers \in BOOLEAN :
          Goes(r, [job[r] EXCEPT
                      !.todo = @ \ {x},
                      !.kept = IF answers /\ PullRequestsAllow(x[1], x[2], x[3])
                               THEN @ \cup {x[1]} ELSE @])
    /\ UNCHANGED <<git, store, crashes, unsaved, declared>>

\* Mutant: git is told to force the removal.
GitRemoves_Forced(b) == tree[b] # "none"

\* git worktree remove, without --force, removes the worktree.
GitRemoves(b) == tree[b] = "clean"

\* The removals of command_worktrees.  A removal that git refuses ends the run.
RetireRemove(r) ==
    /\ job[r].at = "ask" /\ job[r].todo = {}
    /\ \/ \E b \in job[r].kept :
             \/ /\ GitRemoves(b)
                /\ tree' = [tree EXCEPT ![b] = "none"]
                /\ declared' = [declared EXCEPT ![b] = None]
                /\ Goes(r, Step("forget", b, None, {}, job[r].kept \ {b}))
             \/ ~GitRemoves(b) /\ Goes(r, Idle) /\ UNCHANGED <<tree, declared>>
       \/ job[r].kept = {} /\ Goes(r, Idle) /\ UNCHANGED <<tree, declared>>
    /\ UNCHANGED <<head, made, contains, merged, based, store, crashes, unsaved>>

\* Mutant: the record stays.
RetireForget_Keeps(r) ==
    /\ job[r].at = "forget"
    /\ Goes(r, [job[r] EXCEPT !.at = "ask", !.branch = None])
    /\ UNCHANGED <<git, store, crashes, unsaved, declared>>

\* remove_worktree_record
RetireForget(r) ==
    LET b == job[r].branch IN
    /\ job[r].at = "forget"
    /\ record' = [record EXCEPT ![b] = None]
    /\ Goes(r, IF record[b] = None THEN Idle ELSE [job[r] EXCEPT !.at = "ask", !.branch = None])
    /\ UNCHANGED <<git, marked, root, crashes, unsaved, declared>>
-----------------------------------------------------------------------------
(* clean --apply *)

\* Mutant: only worktrees with a record count as active.
ActiveRoots_Recorded == {b \in Secondary : Owned(b)}

\* The task roots of the worktrees that are there.
ActiveRoots == Secondary

\* command_clean up to its loop.  "current" is the task root of the branch
\* it runs on, unless --include-current is given.
CleanList(r, current) ==
    /\ job[r] = Idle /\ Free
    /\ Goes(r, Step("judge", None, None, {b \in Branches : root[b] # "none"},
                    ActiveRoots \cup {current}))
    /\ UNCHANGED <<git, store, crashes, unsaved, declared>>

\* One round of the loop up to the removal.  A marker that cannot be read
\* ends the run.
CleanJudge(r) ==
    /\ job[r].at = "judge"
    /\ \/ \E b \in job[r].todo :
             Goes(r, IF root[b] \in {"none", "torn"} THEN Idle
                     ELSE IF root[b] = "expired" /\ b \notin job[r].kept
                     THEN [job[r] EXCEPT !.at = "sweep", !.branch = b, !.todo = @ \ {b}]
                     ELSE [job[r] EXCEPT !.todo = @ \ {b}])
       \/ job[r].todo = {} /\ Goes(r, Idle)
    /\ UNCHANGED <<git, store, crashes, unsaved, declared>>

\* The second read of the marker, and remove_tree until the marker is gone.
CleanSweep(r) ==
    LET b == job[r].branch IN
    /\ job[r].at = "sweep"
    /\ root' = [root EXCEPT ![b] = IF @ = "none" THEN @ ELSE "torn"]
    /\ Goes(r, IF root[b] \in {"none", "torn"} THEN Idle
               ELSE [job[r] EXCEPT !.at = "wipe"])
    /\ UNCHANGED <<git, marked, record, crashes, unsaved, declared>>

\* The rest of remove_tree.
CleanWipe(r) ==
    /\ job[r].at = "wipe"
    /\ root' = [root EXCEPT ![job[r].branch] = "none"]
    /\ Goes(r, [job[r] EXCEPT !.at = "judge", !.branch = None])
    /\ UNCHANGED <<git, marked, record, crashes, unsaved, declared>>
-----------------------------------------------------------------------------
(* Developers, GitHub and time *)

\* ensure_task_root, by a build: content without a marker is refused.
UseRoot(b) ==
    /\ Free
    /\ root[b] \in {"none", "expired"}
    /\ root' = [root EXCEPT ![b] = "recent"]
    /\ UNCHANGED <<git, marked, record, job, crashes, unsaved, declared>>

Expire(b) ==
    /\ root[b] = "recent"
    /\ root' = [root EXCEPT ![b] = "expired"]
    /\ UNCHANGED <<git, marked, record, job, crashes, unsaved, declared>>

EditFiles(b) ==
    /\ Free
    /\ tree[b] = "clean"
    /\ tree' = [tree EXCEPT ![b] = "dirty"]
    /\ unsaved' = unsaved \cup {b}
    /\ UNCHANGED <<head, made, contains, merged, based, store, job, crashes, declared>>

CommitFiles(b) ==
    /\ Free
    /\ tree[b] = "dirty" /\ made[b] < scene.commits
    /\ tree' = [tree EXCEPT ![b] = "clean"]
    /\ made' = [made EXCEPT ![b] = @ + 1]
    /\ head' = [head EXCEPT ![b] = made[b] + 1]
    /\ unsaved' = unsaved \ {b}
    /\ UNCHANGED <<contains, merged, based, store, job, crashes, declared>>

\* A worktree that the tool knows nothing of.
AddByHand(b) ==
    /\ Free
    /\ tree[b] = "none"
    /\ tree' = [tree EXCEPT ![b] = "clean"]
    /\ head' = [head EXCEPT ![b] = IF @ = -1 THEN 0 ELSE @]
    /\ UNCHANGED <<made, contains, merged, based, store, job, crashes, unsaved, declared>>

\* The branch is merged: by a pull request that keeps its commits, by one that
\* squashes them, or without a pull request.
Merge(b, t, how) ==
    /\ Free
    /\ head[b] > 0
    /\ contains' = [contains EXCEPT ![t][b] = IF how = "squash" THEN @ ELSE head[b]]
    /\ merged' = IF how = "push" THEN merged ELSE merged \cup {<<b, t, head[b]>>}
    /\ <<contains, merged>>' # <<contains, merged>>
    /\ UNCHANGED <<head, made, tree, based, store, job, crashes, unsaved, declared>>

\* A pull request that uses the branch as base is opened or closed.
Rebase(b) ==
    /\ Free
    /\ based' = IF b \in based THEN based \ {b} ELSE based \cup {b}
    /\ UNCHANGED <<head, made, tree, contains, merged, store, job, crashes, unsaved, declared>>

\* git branch -d: the branch is merged and not checked out.
DeleteBranch(b) ==
    /\ Free
    /\ head[b] # -1 /\ tree[b] = "none"
    /\ \E t \in Targets : Contained(b, t)
    /\ head' = [head EXCEPT ![b] = -1]
    /\ UNCHANGED <<made, tree, contains, merged, based, store, job, crashes, unsaved, declared>>

Crash(r) ==
    /\ job[r] # Idle /\ crashes < MaxCrashes
    /\ crashes' = crashes + 1
    /\ Goes(r, Idle)
    /\ UNCHANGED <<git, store, unsaved, declared>>
-----------------------------------------------------------------------------
Init ==
    /\ scene \in Scenes
    /\ head = [b \in Branches |-> -1]
    /\ made = [b \in Branches |-> 0]
    /\ tree = [b \in Branches |-> "none"]
    /\ contains = [t \in Targets |-> [b \in Branches |-> 0]]
    /\ merged = {} /\ based = {}
    /\ marked = "none"
    /\ record = [b \in Branches |-> None]
    /\ root = [b \in Branches |-> "none"]
    /\ job = [r \in Runs |-> Idle]
    /\ crashes = 0
    /\ unsaved = {}
    /\ declared = [b \in Branches |-> None]

Tool(r) ==
    \/ \E b \in scene.branches, t \in scene.targets :
          AddCheck(r, b, t) \/ RegisterCheck(r, b, t)
    \/ AddTree(r)
    \/ \E acknowledged \in BOOLEAN :
          WriteRecord(r, acknowledged) \/ KilledWriting(r, acknowledged)
    \/ \E b \in scene.branches \cup {None} : RetireList(r, b) \/ CleanList(r, b)
    \/ RetireAsk(r) \/ RetireRemove(r) \/ RetireForget(r)
    \/ CleanJudge(r) \/ CleanSweep(r) \/ CleanWipe(r)
    \/ Crash(r)

World(b) ==
    \/ UseRoot(b) \/ Expire(b) \/ EditFiles(b) \/ CommitFiles(b)
    \/ \E t \in scene.targets, how \in {"keep", "squash", "push"} : Merge(b, t, how)
    \/ Rebase(b) \/ AddByHand(b) \/ DeleteBranch(b)

Next ==
    /\ (\E r \in scene.runs : Tool(r)) \/ (\E b \in scene.branches : World(b))
    /\ UNCHANGED scene

Spec == Init /\ [][Next]_vars
-----------------------------------------------------------------------------
(* Properties *)

\* No command loses work, whoever edits or commits while it runs: edits that
\* were not committed are in their worktree, and every commit is on its branch
\* or in a target.
NothingLost ==
    \A b \in Branches :
        /\ b \in unsaved => tree[b] = "dirty"
        /\ \A n \in 1..made[b] : n <= head[b] \/ \E t \in Targets : n <= contains[t][b]

\* workspace_hygiene.md: "Worktree retirement requires [...] exact head
\* reachability from the declared target; an exact-head GitHub PR merged to
\* that target; and no open PR using the retiring branch as a base."  Since the
\* tool observes first and removes later, this is promised only if nobody
\* commits, merges or opens a pull request while the command runs.  After a run
\* was killed the record may be that of an earlier worktree, and the target is
\* the one it names.
RetiresOnlyMerged ==
    [][\A b \in Branches :
          scene.alone /\ tree[b] # "none" /\ tree'[b] = "none" =>
              LET target == IF crashes = 0 THEN declared[b] ELSE record[b] IN
              /\ target \in Targets /\ Contained(b, target)
              /\ <<b, target, head[b]>> \in merged
              /\ b \notin based]_vars

\* workspace_hygiene.md: "Task roots [...] are retained while their registered
\* worktree is active", if no worktree is added while the command runs: nothing
\* of the root that is named after its branch is removed, and nothing of what a
\* killed run left of it.
ActiveRootsRetained ==
    [][\A b \in Branches :
          scene.alone /\ root'[b] # root[b] /\ root'[b] \in {"torn", "none"}
              => tree[b] = "none"]_vars
=============================================================================
