------------------------ MODULE WorktreeStoreProofs -------------------------
(***************************************************************************)
(* Proofs about WorktreeStore: for any runs, branches, targets and bounds, *)
(* no command loses work, whoever acts while it runs, and a command that   *)
(* nobody disturbs retires only merged worktrees and removes only task     *)
(* roots without a worktree.                                               *)
(***************************************************************************)
EXTENDS WorktreeStore, TLAPS

(***************************************************************************)
(* The inductive invariants.                                               *)
(***************************************************************************)

\* A job at one of the given places, with the given kind of items to do.
Job(places, items) ==
    [at : places, branch : Branches \cup {None}, target : Targets \cup {None},
     todo : SUBSET items, kept : SUBSET (Branches \cup {None})]

Jobs == Job({"idle", "add", "record", "ask", "forget"},
            Branches \X Int \X (Targets \cup {None, Torn}))
        \cup Job({"judge", "sweep", "wipe"}, Branches)

\* Every variable has its type.
TypeOK ==
    /\ scene \in Scenes
    /\ head \in [Branches -> Int] /\ made \in [Branches -> Nat]
    /\ tree \in [Branches -> {"none", "clean", "dirty"}]
    /\ contains \in [Targets -> [Branches -> Nat]]
    /\ merged \subseteq Branches \X Targets \X Int
    /\ based \subseteq Branches
    /\ marked \in {"none", "whole", "torn"}
    /\ record \in [Branches -> Targets \cup {None, Torn}]
    /\ root \in [Branches -> {"none", "recent", "expired", "torn"}]
    /\ job \in [Runs -> Jobs]
    /\ crashes \in Nat
    /\ unsaved \subseteq Branches
    /\ declared \in [Branches -> Targets \cup {None}]

\* A branch is not there, starts, or has its last commit as head; no target
\* contains a commit that was not made.
CommitsKnown ==
    \A b \in Branches :
        /\ head[b] \in {-1, 0, made[b]}
        /\ \A t \in Targets : contains[t][b] <= made[b]

\* What worktrees --apply found out about the worktrees it has not removed.
Retirable(b) ==
    /\ record[b] \in Targets /\ Contained(b, record[b])
    /\ <<b, record[b], head[b]>> \in merged
    /\ b \notin based

RetireKnows(j) ==
    j.at \in {"ask", "forget"} =>
        /\ \A x \in j.todo : /\ x[1] \in Branches /\ LocallyReady(x[1])
                             /\ x[2] = head[x[1]] /\ x[3] = record[x[1]]
        /\ \A b \in j.kept : b \in Branches /\ Retirable(b)
        /\ j.at = "forget" => j.todo = {} /\ j.branch \notin j.kept

\* What clean --apply found out: it keeps the roots of all worktrees, and the
\* root it removes is not one of them.
CleanKnows(j) ==
    j.at \in {"judge", "sweep", "wipe"} =>
        /\ Secondary \subseteq j.kept
        /\ j.at \in {"sweep", "wipe"} => j.branch \in Branches \ j.kept
        /\ j.at = "wipe" => root[j.branch] \notin {"recent", "expired"}

\* A command that nobody disturbs is the only one, and what it found out holds.
Undisturbed ==
    scene.alone =>
        /\ \A r, s \in Runs : job[r] # Idle /\ job[s] # Idle => r = s
        /\ \A r \in Runs : RetireKnows(job[r]) /\ CleanKnows(job[r])

\* If no run was killed, a record is that of the present worktree, or a run is
\* about to remove it.
Forgetting(r, b) == job[r].at = "forget" /\ job[r].branch = b

RecordsCurrent ==
    scene.alone /\ crashes = 0 =>
        \A b \in Branches : record[b] # None =>
            \/ tree[b] # "none" /\ declared[b] = record[b]
            \/ \E r \in Runs : Forgetting(r, b)

StoreInv == TypeOK /\ CommitsKnown /\ NothingLost /\ Undisturbed /\ RecordsCurrent
-----------------------------------------------------------------------------
(* Types *)

\* What the setting of a behaviour is made of.
LEMMA SceneFacts ==
    ASSUME TypeOK
    PROVE  /\ scene.runs \subseteq Runs /\ scene.branches \subseteq Branches
           /\ scene.targets \subseteq Targets
           /\ scene.alone \in BOOLEAN /\ scene.commits \in Nat
BY StoreAssumption DEF TypeOK

\* The jobs that commands start with and go on to.
LEMMA JobsTyped ==
    /\ Idle \in Jobs
    /\ \A b \in Branches, t \in Targets :
         Step("add", b, t, {}, {}) \in Jobs /\ Step("record", b, t, {}, {}) \in Jobs
    /\ \A j \in Jobs : j.at = "add" => [j EXCEPT !.at = "record"] \in Jobs
BY DEF Idle, Step, Jobs, Job

\* A run's next job, if typed, leaves all jobs typed.
LEMMA GoesTyped ==
    ASSUME TypeOK, NEW r \in Runs, NEW j \in Jobs, Goes(r, j)
    PROVE  job' \in [Runs -> Jobs]
BY DEF TypeOK, Goes

\* Every action keeps the types.
LEMMA AddTyped ==
    ASSUME TypeOK, NEW r \in Runs, NEW b \in Branches, NEW t \in Targets,
           UNCHANGED scene,
           AddCheck(r, b, t) \/ RegisterCheck(r, b, t)
    PROVE  TypeOK'
<1>1. CASE AddCheck(r, b, t)
  <2>1. job' \in [Runs -> Jobs] BY <1>1, JobsTyped, GoesTyped DEF AddCheck
  <2> QED BY <1>1, <2>1 DEF AddCheck, TypeOK, git
<1>2. CASE RegisterCheck(r, b, t)
  <2>1. job' \in [Runs -> Jobs] BY <1>2, JobsTyped, GoesTyped DEF RegisterCheck
  <2> QED BY <1>2, <2>1 DEF RegisterCheck, TypeOK, git, store
<1> QED BY <1>1, <1>2

LEMMA AddTreeTyped ==
    ASSUME TypeOK, NEW r \in Runs, UNCHANGED scene, AddTree(r)
    PROVE  TypeOK'
<1>1. job[r] \in Jobs BY DEF TypeOK
<1>2. job[r].target \in Targets \cup {None} BY <1>1 DEF Jobs, Job
<1>3. job' \in [Runs -> Jobs] BY <1>1, JobsTyped, GoesTyped DEF AddTree
<1>4. declared' \in [Branches -> Targets \cup {None}] BY <1>2 DEF AddTree, TypeOK
<1>5. /\ head' \in [Branches -> Int] /\ tree' \in [Branches -> {"none", "clean", "dirty"}]
  BY DEF AddTree, TypeOK
<1> QED BY <1>3, <1>4, <1>5 DEF AddTree, TypeOK, store

LEMMA RecordTyped ==
    ASSUME TypeOK, NEW r \in Runs, UNCHANGED scene, NEW acknowledged \in BOOLEAN,
           WriteRecord(r, acknowledged) \/ KilledWriting(r, acknowledged)
    PROVE  TypeOK'
<1>1. job' \in [Runs -> Jobs] BY JobsTyped, GoesTyped DEF WriteRecord, KilledWriting
<1>2. job[r] \in Jobs BY DEF TypeOK
<1>3. job[r].target \in Targets \cup {None} BY <1>2 DEF Jobs, Job
<1>4. CASE WriteRecord(r, acknowledged)
  <2>1. marked' \in {"none", "whole", "torn"} BY <1>4 DEF WriteRecord, TypeOK
  <2>2. record' \in [Branches -> Targets \cup {None, Torn}]
    BY <1>3, <1>4 DEF WriteRecord, TypeOK
  <2>3. declared' \in [Branches -> Targets \cup {None}]
    BY <1>3, <1>4 DEF WriteRecord, TypeOK
  <2> QED BY <1>1, <1>4, <2>1, <2>2, <2>3 DEF WriteRecord, TypeOK, git
<1>5. CASE KilledWriting(r, acknowledged)
  <2>1. marked' \in {"none", "whole", "torn"} BY <1>5 DEF KilledWriting
  <2>2. record' \in [Branches -> Targets \cup {None, Torn}]
    BY <1>5 DEF KilledWriting, TypeOK
  <2> QED BY <1>1, <1>5, <2>1, <2>2 DEF KilledWriting, TypeOK, git
<1> QED BY <1>4, <1>5

LEMMA RetireTyped ==
    ASSUME TypeOK, NEW r \in Runs, NEW here, UNCHANGED scene,
           RetireList(r, here) \/ RetireAsk(r) \/ RetireRemove(r) \/ RetireForget(r)
    PROVE  TypeOK'
<1>0. job[r] \in Jobs BY DEF TypeOK
<1>1. CASE RetireList(r, here)
  <2> DEFINE todo == {<<b, head[b], record[b]>> :
                        b \in {x \in Secondary \ {here} : LocallyReady(x)}}
  <2>1. todo \subseteq Branches \X Int \X (Targets \cup {None, Torn})
    BY DEF TypeOK, Secondary
  <2>2. Step("ask", None, None, todo, {}) \in Jobs BY <2>1 DEF Step, Jobs, Job
  <2>3. job' \in [Runs -> Jobs] BY <1>1, <2>2, GoesTyped DEF RetireList
  <2> QED BY <1>1, <2>3 DEF RetireList, TypeOK, git, store
<1>2. CASE RetireAsk(r)
  <2>1. PICK x \in job[r].todo, answers \in BOOLEAN :
          Goes(r, [job[r] EXCEPT
                      !.todo = @ \ {x},
                      !.kept = IF answers /\ PullRequestsAllow(x[1], x[2], x[3])
                               THEN @ \cup {x[1]} ELSE @])
    BY <1>2 DEF RetireAsk
  <2>2. PullRequestsAllow(x[1], x[2], x[3]) => x[1] \in Branches
    BY DEF PullRequestsAllow, TypeOK
  <2>3. [job[r] EXCEPT
                      !.todo = @ \ {x},
                      !.kept = IF answers /\ PullRequestsAllow(x[1], x[2], x[3])
                               THEN @ \cup {x[1]} ELSE @] \in Jobs
    BY <1>0, <2>2 DEF Jobs, Job
  <2>4. job' \in [Runs -> Jobs] BY <2>1, <2>3, GoesTyped
  <2> QED BY <1>2, <2>4 DEF RetireAsk, TypeOK, git, store
<1>3. CASE RetireRemove(r)
  <2>1. \A b \in job[r].kept : Step("forget", b, None, {}, job[r].kept \ {b}) \in Jobs
    BY <1>0 DEF Step, Jobs, Job
  <2>2. job' \in [Runs -> Jobs] BY <1>3, <2>1, JobsTyped, GoesTyped DEF RetireRemove
  <2>3. tree' \in [Branches -> {"none", "clean", "dirty"}]
    BY <1>3 DEF RetireRemove, TypeOK
  <2> QED BY <1>3, <2>2, <2>3 DEF RetireRemove, TypeOK, store
<1>4. CASE RetireForget(r)
  <2>1. [job[r] EXCEPT !.at = "ask", !.branch = None] \in Jobs
    BY <1>0, <1>4 DEF RetireForget, Jobs, Job
  <2>2. job' \in [Runs -> Jobs] BY <1>4, <2>1, JobsTyped, GoesTyped DEF RetireForget
  <2> QED BY <1>4, <2>2 DEF RetireForget, TypeOK, git
<1> QED BY <1>1, <1>2, <1>3, <1>4

LEMMA CleanTyped ==
    ASSUME TypeOK, NEW r \in Runs, NEW current \in Branches \cup {None}, UNCHANGED scene,
           CleanList(r, current) \/ CleanJudge(r) \/ CleanSweep(r) \/ CleanWipe(r)
           \/ Crash(r)
    PROVE  TypeOK'
<1>0. job[r] \in Jobs BY DEF TypeOK
<1>1. CASE CleanList(r, current)
  <2>1. Step("judge", None, None, {b \in Branches : root[b] # "none"},
             ActiveRoots \cup {current}) \in Jobs
    BY DEF Step, Jobs, Job, ActiveRoots, Secondary
  <2>2. job' \in [Runs -> Jobs] BY <1>1, <2>1, GoesTyped DEF CleanList
  <2> QED BY <1>1, <2>2 DEF CleanList, TypeOK, git, store
<1>2. CASE CleanJudge(r)
  <2>1. job' \in [Runs -> Jobs]
    <3>1. CASE job[r].todo = {} /\ Goes(r, Idle) BY <3>1, JobsTyped, GoesTyped
    <3>2. ASSUME NEW b \in job[r].todo,
                 Goes(r, IF root[b] \in {"none", "torn"} THEN Idle
                     ELSE IF root[b] = "expired" /\ b \notin job[r].kept
                     THEN [job[r] EXCEPT !.at = "sweep", !.branch = b, !.todo = @ \ {b}]
                     ELSE [job[r] EXCEPT !.todo = @ \ {b}])
          PROVE  job' \in [Runs -> Jobs]
      <4>1. [job[r] EXCEPT !.todo = @ \ {b}] \in Jobs BY <1>0 DEF Jobs, Job
      <4>2. b \in Branches BY <1>0, <1>2 DEF CleanJudge, Jobs, Job
      <4>3. [job[r] EXCEPT !.at = "sweep", !.branch = b, !.todo = @ \ {b}] \in Jobs
        BY <1>0, <1>2, <4>2 DEF CleanJudge, Jobs, Job
      <4> QED BY <3>2, <4>1, <4>3, JobsTyped, GoesTyped
    <3> QED BY <1>2, <3>1, <3>2 DEF CleanJudge
  <2> QED BY <1>2, <2>1 DEF CleanJudge, TypeOK, git, store
<1>3. CASE CleanSweep(r)
  <2>1. [job[r] EXCEPT !.at = "wipe"] \in Jobs BY <1>0, <1>3 DEF CleanSweep, Jobs, Job
  <2>2. job' \in [Runs -> Jobs] BY <1>3, <2>1, JobsTyped, GoesTyped DEF CleanSweep
  <2> QED BY <1>3, <2>2 DEF CleanSweep, TypeOK, git
<1>4. CASE CleanWipe(r)
  <2>1. [job[r] EXCEPT !.at = "judge", !.branch = None] \in Jobs
    BY <1>0, <1>4 DEF CleanWipe, Jobs, Job
  <2>2. job' \in [Runs -> Jobs] BY <1>4, <2>1, GoesTyped DEF CleanWipe
  <2> QED BY <1>4, <2>2 DEF CleanWipe, TypeOK, git
<1>5. CASE Crash(r)
  <2>1. job' \in [Runs -> Jobs] BY <1>5, JobsTyped, GoesTyped DEF Crash
  <2> QED BY <1>5, <2>1 DEF Crash, TypeOK, git, store
<1> QED BY <1>1, <1>2, <1>3, <1>4, <1>5

LEMMA WorldTyped ==
    ASSUME TypeOK, NEW b \in Branches, UNCHANGED scene, World(b)
    PROVE  TypeOK'
<1>1. CASE UseRoot(b) \/ Expire(b) BY <1>1 DEF UseRoot, Expire, TypeOK, git
<1>2. CASE EditFiles(b) BY <1>2 DEF EditFiles, TypeOK, store
<1>3. CASE CommitFiles(b) BY <1>3 DEF CommitFiles, TypeOK, store
<1>4. ASSUME NEW t \in Targets, NEW how \in {"keep", "squash", "push"}, Merge(b, t, how)
      PROVE  TypeOK'
  <2>1. head[b] \in Nat BY <1>4 DEF Merge, TypeOK
  <2>2. contains' \in [Targets -> [Branches -> Nat]] BY <1>4, <2>1 DEF Merge, TypeOK
  <2>3. merged' \subseteq Branches \X Targets \X Int BY <1>4, <2>1 DEF Merge, TypeOK
  <2> QED BY <1>4, <2>2, <2>3 DEF Merge, TypeOK, store
<1>5. CASE Rebase(b) BY <1>5 DEF Rebase, TypeOK, store
<1>6. CASE AddByHand(b) BY <1>6 DEF AddByHand, TypeOK, store
<1>7. CASE DeleteBranch(b) BY <1>7 DEF DeleteBranch, TypeOK, store
<1> QED BY <1>1, <1>2, <1>3, <1>4, <1>5, <1>6, <1>7, SceneFacts DEF World

LEMMA TypeStep == TypeOK /\ [Next]_vars => TypeOK'
<1> SUFFICES ASSUME TypeOK, [Next]_vars PROVE TypeOK' OBVIOUS
<1>1. CASE UNCHANGED vars BY <1>1 DEF vars, git, store, TypeOK
<1>2. CASE Next
  <2>1. ASSUME NEW r \in scene.runs, Tool(r) PROVE TypeOK'
    <3>1. r \in Runs /\ scene.branches \subseteq Branches BY SceneFacts
    <3>2. UNCHANGED scene BY <1>2 DEF Next
    <3> QED BY <2>1, <3>1, <3>2, SceneFacts, AddTyped, AddTreeTyped, RecordTyped,
            RetireTyped, CleanTyped DEF Tool
  <2>2. ASSUME NEW b \in scene.branches, World(b) PROVE TypeOK'
    BY <1>2, <2>2, SceneFacts, WorldTyped DEF Next
  <2> QED BY <1>2, <2>1, <2>2 DEF Next
<1> QED BY <1>1, <1>2
-----------------------------------------------------------------------------
(* Nothing is lost *)

\* The steps that touch branches, worktrees or what is merged; all others
\* leave alone what CommitsKnown and NothingLost are about.
LEMMA QuietSteps ==
    ASSUME NEW r, NEW b, NEW t, NEW acknowledged,
           \/ AddCheck(r, b, t) \/ RegisterCheck(r, b, t) \/ WriteRecord(r, acknowledged)
           \/ KilledWriting(r, acknowledged)
           \/ RetireList(r, b) \/ RetireAsk(r) \/ RetireForget(r)
           \/ CleanList(r, b) \/ CleanJudge(r) \/ CleanSweep(r) \/ CleanWipe(r)
           \/ Crash(r) \/ UseRoot(b) \/ Expire(b) \/ Rebase(b)
    PROVE  UNCHANGED <<head, made, tree, contains, unsaved>>
BY DEF AddCheck, RegisterCheck, WriteRecord, KilledWriting, RetireList, RetireAsk, RetireForget,
   CleanList, CleanJudge, CleanSweep, CleanWipe, Crash, UseRoot, Expire, Rebase, git

\* A step of the tool or of the world keeps every commit and every edit.
LEMMA WorkKept ==
    ASSUME TypeOK, CommitsKnown, NothingLost, [Next]_vars
    PROVE  CommitsKnown' /\ NothingLost'
<1>1. CASE UNCHANGED <<head, made, tree, contains, unsaved>>
  BY <1>1 DEF CommitsKnown, NothingLost
<1>2. ASSUME NEW r \in Runs, AddTree(r) PROVE CommitsKnown' /\ NothingLost'
  <2>1. CASE UNCHANGED <<head, tree>>
    BY <1>1, <1>2, <2>1 DEF AddTree
  <2>2. CASE ~UNCHANGED <<head, tree>>
    <3> DEFINE b == job[r].branch
    <3>1. /\ head[b] = -1 /\ tree[b] = "none"
          /\ head' = [head EXCEPT ![b] = 0] /\ tree' = [tree EXCEPT ![b] = "clean"]
          /\ UNCHANGED <<made, contains, unsaved>>
      BY <1>2, <2>2 DEF AddTree
    <3> HIDE DEF b
    <3>2. \A x \in Branches : head'[x] = (IF x = b THEN 0 ELSE head[x])
      BY <3>1 DEF TypeOK
    <3>3. \A x \in Branches : x \in unsaved => x # b /\ tree'[x] = tree[x]
      BY <3>1 DEF TypeOK, NothingLost
    <3>4. CommitsKnown' BY <3>1, <3>2 DEF CommitsKnown
    <3>5. NothingLost' BY <3>1, <3>2, <3>3 DEF NothingLost, TypeOK
    <3> QED BY <3>4, <3>5
  <2> QED BY <2>1, <2>2
<1>3. ASSUME NEW r \in Runs, RetireRemove(r) PROVE CommitsKnown' /\ NothingLost'
  <2>1. UNCHANGED <<head, made, contains, unsaved>> BY <1>3 DEF RetireRemove
  <2>2. \/ UNCHANGED tree
        \/ \E b : tree[b] = "clean" /\ tree' = [tree EXCEPT ![b] = "none"]
    BY <1>3 DEF RetireRemove, GitRemoves
  <2>3. \A x \in Branches : tree[x] = "dirty" => tree'[x] = "dirty"
    BY <2>2 DEF TypeOK
  <2> QED BY <2>1, <2>3 DEF CommitsKnown, NothingLost
<1>4. ASSUME NEW b \in Branches, EditFiles(b) PROVE CommitsKnown' /\ NothingLost'
  <2>1. \A x \in Branches : tree'[x] = (IF x = b THEN "dirty" ELSE tree[x])
    BY <1>4 DEF EditFiles, TypeOK
  <2> QED BY <1>4, <2>1 DEF EditFiles, CommitsKnown, NothingLost
<1>5. ASSUME NEW b \in Branches, CommitFiles(b) PROVE CommitsKnown' /\ NothingLost'
  <2>1. \A x \in Branches :
          /\ tree'[x] = (IF x = b THEN "clean" ELSE tree[x])
          /\ made'[x] = (IF x = b THEN made[b] + 1 ELSE made[x])
          /\ head'[x] = (IF x = b THEN made[b] + 1 ELSE head[x])
    BY <1>5 DEF CommitFiles, TypeOK
  <2>2. contains' = contains /\ unsaved' = unsaved \ {b} BY <1>5 DEF CommitFiles
  <2>3. CommitsKnown' BY <2>1, <2>2 DEF CommitsKnown, TypeOK
  <2>4. NothingLost' BY <2>1, <2>2 DEF NothingLost, TypeOK
  <2> QED BY <2>3, <2>4
<1>6. ASSUME NEW b \in Branches, NEW t \in Targets, NEW how, Merge(b, t, how)
      PROVE  CommitsKnown' /\ NothingLost'
  <2>1. head[b] = made[b] BY <1>6 DEF Merge, CommitsKnown
  <2>2. \A u \in Targets, x \in Branches :
          \/ contains'[u][x] = contains[u][x]
          \/ x = b /\ contains'[u][x] = made[b]
    BY <1>6, <2>1 DEF Merge, TypeOK
  <2>3. UNCHANGED <<head, made, tree, unsaved>> BY <1>6 DEF Merge
  <2>4. CommitsKnown' BY <2>2, <2>3 DEF CommitsKnown, TypeOK
  <2>5. \A u \in Targets, x \in Branches : \A n \in 1..made[x] :
          n <= contains[u][x] => n <= contains'[u][x]
    BY <2>2 DEF TypeOK
  <2>6. NothingLost' BY <2>3, <2>5 DEF NothingLost
  <2> QED BY <2>4, <2>6
<1>7. ASSUME NEW b \in Branches, AddByHand(b) PROVE CommitsKnown' /\ NothingLost'
  <2>1. \A x \in Branches :
          /\ tree'[x] = (IF x = b THEN "clean" ELSE tree[x])
          /\ head'[x] = (IF x = b /\ head[x] = -1 THEN 0 ELSE head[x])
    BY <1>7 DEF AddByHand, TypeOK
  <2>2. UNCHANGED <<made, contains, unsaved>> /\ b \notin unsaved
    BY <1>7 DEF AddByHand, NothingLost
  <2>3. CommitsKnown' BY <2>1, <2>2 DEF CommitsKnown
  <2>4. NothingLost' BY <2>1, <2>2 DEF NothingLost, TypeOK
  <2> QED BY <2>3, <2>4
<1>8. ASSUME NEW b \in Branches, DeleteBranch(b) PROVE CommitsKnown' /\ NothingLost'
  <2>1. PICK t \in Targets : head[b] <= contains[t][b]
    BY <1>8 DEF DeleteBranch, Contained
  <2>2. \A x \in Branches : head'[x] = (IF x = b THEN -1 ELSE head[x])
    BY <1>8 DEF DeleteBranch, TypeOK
  <2>3. UNCHANGED <<made, tree, contains, unsaved>> BY <1>8 DEF DeleteBranch
  <2>4. CommitsKnown' BY <2>2, <2>3 DEF CommitsKnown
  <2>5. \A n \in 1..made[b] : n <= head[b] => n <= contains[t][b]
    BY <2>1 DEF TypeOK
  <2>6. NothingLost' BY <2>2, <2>3, <2>5 DEF NothingLost
  <2> QED BY <2>4, <2>6
<1>9. ASSUME NEW r \in scene.runs, Tool(r) PROVE CommitsKnown' /\ NothingLost'
  BY <1>1, <1>2, <1>3, <1>9, QuietSteps, SceneFacts DEF Tool
<1>10. ASSUME NEW b \in scene.branches, World(b) PROVE CommitsKnown' /\ NothingLost'
  BY <1>1, <1>4, <1>5, <1>6, <1>7, <1>8, <1>10, QuietSteps, SceneFacts DEF World
<1> QED BY <1>1, <1>9, <1>10 DEF Next, vars, git
-----------------------------------------------------------------------------
(* A command that nobody disturbs *)

\* A run that acts is, from then on, the only one that may be busy.
LEMMA OnlyRun ==
    ASSUME TypeOK, Undisturbed, scene.alone, UNCHANGED scene, NEW r \in Runs,
           \/ job[r] # Idle
           \/ Free,
           NEW j, Goes(r, j), RetireKnows(j)', CleanKnows(j)'
    PROVE  Undisturbed'
<1>1. job'[r] = j /\ \A s \in Runs \ {r} : job'[s] = Idle
  BY DEF TypeOK, Goes, Undisturbed, Free
<1>2. RetireKnows(Idle)' /\ CleanKnows(Idle)' BY DEF RetireKnows, CleanKnows, Idle
<1>3. \A s \in Runs : job'[s] = j \/ job'[s] = Idle BY <1>1
<1>4. \A s \in Runs : RetireKnows(job[s])' /\ CleanKnows(job[s])'
  <2> TAKE s \in Runs
  <2>1. CASE job'[s] = j BY <2>1 DEF RetireKnows, CleanKnows
  <2>2. CASE job'[s] = Idle BY <1>2, <2>2 DEF RetireKnows, CleanKnows
  <2> QED BY <1>3, <2>1, <2>2
<1>5. \A s, u \in Runs : job'[s] # Idle /\ job'[u] # Idle => s = u BY <1>1
<1> QED BY <1>4, <1>5 DEF Undisturbed

\* A run that is idle, adds a worktree or writes a record relies on nothing.
LEMMA RelyingOnNothing ==
    ASSUME NEW j, j.at \in {"idle", "add", "record"}
    PROVE  RetireKnows(j)' /\ CleanKnows(j)'
BY DEF RetireKnows, CleanKnows

\* The steps of worktree-add, worktree-register and a crash.
LEMMA AddUndisturbed ==
    ASSUME TypeOK, Undisturbed, scene.alone, UNCHANGED scene, NEW r \in Runs,
           \/ \E b, t : AddCheck(r, b, t) \/ RegisterCheck(r, b, t)
           \/ AddTree(r)
           \/ \E acknowledged : WriteRecord(r, acknowledged) \/ KilledWriting(r, acknowledged)
           \/ Crash(r)
    PROVE  Undisturbed'
<1>1. job[r] # Idle \/ Free
  <2>1. Idle.at = "idle" BY DEF Idle
  <2>2. CASE \/ AddTree(r)
             \/ \E acknowledged : WriteRecord(r, acknowledged) \/ KilledWriting(r, acknowledged)
    BY <2>1, <2>2 DEF AddTree, WriteRecord, KilledWriting
  <2> QED BY <2>2 DEF AddCheck, RegisterCheck, Crash
<1>2. PICK j : Goes(r, j) /\ j.at \in {"idle", "add", "record"}
  <2>1. Idle.at = "idle" BY DEF Idle
  <2>2. ASSUME NEW b, NEW t, AddCheck(r, b, t)
        PROVE  \E j : Goes(r, j) /\ j.at \in {"idle", "add", "record"}
    <3>1. Step("add", b, t, {}, {}).at = "add" BY DEF Step
    <3> QED BY <2>2, <3>1 DEF AddCheck
  <2>3. ASSUME NEW b, NEW t, RegisterCheck(r, b, t)
        PROVE  \E j : Goes(r, j) /\ j.at \in {"idle", "add", "record"}
    <3>1. Step("record", b, t, {}, {}).at = "record" BY DEF Step
    <3> QED BY <2>3, <3>1 DEF RegisterCheck
  <2>4. CASE AddTree(r)
    <3>1. job[r] \in Jobs BY DEF TypeOK
    <3>2. [job[r] EXCEPT !.at = "record"].at = "record" BY <3>1 DEF Jobs, Job
    <3> QED BY <2>1, <2>4, <3>2 DEF AddTree
  <2>5. ASSUME NEW acknowledged,
               WriteRecord(r, acknowledged) \/ KilledWriting(r, acknowledged)
        PROVE  \E j : Goes(r, j) /\ j.at \in {"idle", "add", "record"}
    BY <2>1, <2>5 DEF WriteRecord, KilledWriting
  <2>6. CASE Crash(r) BY <2>1, <2>6 DEF Crash
  <2> QED BY <2>2, <2>3, <2>4, <2>5, <2>6
<1> QED BY <1>1, <1>2, RelyingOnNothing, OnlyRun

\* What is retirable stays so while nothing it depends on changes.
LEMMA StillRetirable ==
    ASSUME NEW b, UNCHANGED <<head, contains, merged, based>>, record'[b] = record[b],
           Retirable(b)
    PROVE  Retirable(b)'
BY DEF Retirable, Contained

\* The steps of worktrees --apply.
LEMMA RetireUndisturbed ==
    ASSUME TypeOK, Undisturbed, scene.alone, UNCHANGED scene, NEW r \in Runs,
           \/ \E here : RetireList(r, here)
           \/ RetireAsk(r) \/ RetireRemove(r) \/ RetireForget(r)
    PROVE  Undisturbed'
<1>0. job[r] \in Jobs /\ RetireKnows(job[r]) /\ (job[r] # Idle \/ Free)
  <2>1. Idle.at = "idle" BY DEF Idle
  <2>2. CASE RetireAsk(r) \/ RetireRemove(r) \/ RetireForget(r)
    <3>1. job[r].at # "idle" BY <2>2 DEF RetireAsk, RetireRemove, RetireForget
    <3> QED BY <2>1, <3>1 DEF TypeOK, Undisturbed
  <2> QED BY <2>2 DEF TypeOK, Undisturbed, RetireList
<1>1. ASSUME NEW here, RetireList(r, here) PROVE Undisturbed'
  <2>1. PICK j : /\ Goes(r, j)
                 /\ j = Step("ask", None, None,
                             {<<b, head[b], record[b]>> :
                               b \in {x \in Secondary \ {here} : LocallyReady(x)}}, {})
    BY <1>1 DEF RetireList
  <2>2. j.at = "ask" /\ j.kept = {} BY <2>1 DEF Step
  <2>3. \A x \in j.todo : /\ x[1] \in Branches /\ LocallyReady(x[1])
                          /\ x[2] = head[x[1]] /\ x[3] = record[x[1]]
    BY <2>1 DEF Step, Secondary
  <2>4. UNCHANGED <<head, tree, contains, merged, based, marked, record>>
    BY <1>1 DEF RetireList, git, store
  <2>5. RetireKnows(j)'
    BY <2>2, <2>3, <2>4 DEF RetireKnows, LocallyReady, Owned, Contained
  <2>6. CleanKnows(j)' BY <2>2 DEF CleanKnows
  <2> QED BY <1>0, <2>1, <2>5, <2>6, OnlyRun
<1>2. CASE RetireAsk(r)
  <2>0. PICK x \in job[r].todo, answers \in BOOLEAN :
          Goes(r, [job[r] EXCEPT
                      !.todo = @ \ {x},
                      !.kept = IF answers /\ PullRequestsAllow(x[1], x[2], x[3])
                               THEN @ \cup {x[1]} ELSE @])
    BY <1>2 DEF RetireAsk
  <2>1. PICK j : /\ Goes(r, j)
                 /\ j = [job[r] EXCEPT
                          !.todo = @ \ {x},
                          !.kept = IF answers /\ PullRequestsAllow(x[1], x[2], x[3])
                                   THEN @ \cup {x[1]} ELSE @]
    BY <2>0
  <2>2. /\ j.at = "ask" /\ j.todo \subseteq job[r].todo
        /\ \A b \in j.kept : \/ b \in job[r].kept
                             \/ b = x[1] /\ PullRequestsAllow(x[1], x[2], x[3])
    BY <1>0, <1>2, <2>1 DEF RetireAsk, Jobs, Job
  <2>3. PullRequestsAllow(x[1], x[2], x[3]) => x[1] \in Branches /\ Retirable(x[1])
    BY <1>0, <1>2 DEF RetireAsk, RetireKnows, LocallyReady, Owned, PullRequestsAllow,
       Retirable
  <2>4. \A b \in j.kept : b \in Branches /\ Retirable(b)
    BY <1>0, <1>2, <2>2, <2>3 DEF RetireAsk, RetireKnows
  <2>5. \A y \in j.todo : /\ y[1] \in Branches /\ LocallyReady(y[1])
                          /\ y[2] = head[y[1]] /\ y[3] = record[y[1]]
    BY <1>0, <1>2, <2>2 DEF RetireAsk, RetireKnows
  <2>6. UNCHANGED <<head, tree, contains, merged, based, marked, record>>
    BY <1>2 DEF RetireAsk, git, store
  <2>7. RetireKnows(j)'
    BY <2>2, <2>4, <2>5, <2>6 DEF RetireKnows, LocallyReady, Owned, Contained, Retirable
  <2>8. CleanKnows(j)' BY <2>2 DEF CleanKnows
  <2> QED BY <1>0, <2>1, <2>7, <2>8, OnlyRun
<1>3. CASE RetireRemove(r)
  <2>1. PICK j : /\ Goes(r, j)
                 /\ \/ j = Idle
                    \/ \E b \in job[r].kept : j = Step("forget", b, None, {}, job[r].kept \ {b})
    BY <1>3 DEF RetireRemove
  <2>2. CASE j = Idle
    <3>1. j.at = "idle" BY <2>2 DEF Idle
    <3> QED BY <1>0, <2>1, <3>1, RelyingOnNothing, OnlyRun
  <2>3. ASSUME NEW b \in job[r].kept, j = Step("forget", b, None, {}, job[r].kept \ {b})
        PROVE  Undisturbed'
    <3>1. /\ j.at = "forget" /\ j.todo = {} /\ j.branch = b
          /\ j.kept = job[r].kept \ {b}
      BY <2>3 DEF Step
    <3>2. \A x \in j.kept : x \in Branches /\ Retirable(x)
      BY <1>0, <1>3, <3>1 DEF RetireRemove, RetireKnows
    <3>3. UNCHANGED <<head, contains, merged, based, record>>
      BY <1>3 DEF RetireRemove, store
    <3>4. \A x \in j.kept : Retirable(x)' BY <3>2, <3>3, StillRetirable
    <3>5. RetireKnows(j)' BY <3>1, <3>2, <3>4 DEF RetireKnows
    <3>6. CleanKnows(j)' BY <3>1 DEF CleanKnows
    <3> QED BY <1>0, <2>1, <3>5, <3>6, OnlyRun
  <2> QED BY <2>1, <2>2, <2>3
<1>4. CASE RetireForget(r)
  <2>1. PICK j : /\ Goes(r, j)
                 /\ \/ j = Idle
                    \/ j = [job[r] EXCEPT !.at = "ask", !.branch = None]
    BY <1>4 DEF RetireForget
  <2>2. CASE j = Idle
    <3>1. j.at = "idle" BY <2>2 DEF Idle
    <3> QED BY <1>0, <2>1, <3>1, RelyingOnNothing, OnlyRun
  <2>3. CASE j = [job[r] EXCEPT !.at = "ask", !.branch = None]
    <3>1. j.at = "ask" /\ j.todo = job[r].todo /\ j.kept = job[r].kept
      BY <1>0, <2>3 DEF Jobs, Job
    <3>2. /\ j.todo = {} /\ job[r].branch \notin j.kept
          /\ \A x \in j.kept : x \in Branches /\ Retirable(x)
      BY <1>0, <1>4, <3>1 DEF RetireForget, RetireKnows
    <3>3. /\ UNCHANGED <<head, contains, merged, based>>
          /\ \A x \in j.kept : record'[x] = record[x]
      BY <1>4, <3>2 DEF RetireForget, git, TypeOK
    <3>4. \A x \in j.kept : Retirable(x)' BY <3>2, <3>3, StillRetirable
    <3>5. RetireKnows(j)' BY <3>1, <3>2, <3>4 DEF RetireKnows
    <3>6. CleanKnows(j)' BY <3>1 DEF CleanKnows
    <3> QED BY <1>0, <2>1, <3>5, <3>6, OnlyRun
  <2> QED BY <2>1, <2>2, <2>3
<1> QED BY <1>1, <1>2, <1>3, <1>4

\* The steps of clean --apply.
LEMMA CleanUndisturbed ==
    ASSUME TypeOK, Undisturbed, scene.alone, UNCHANGED scene, NEW r \in Runs,
           \/ \E current : CleanList(r, current)
           \/ CleanJudge(r) \/ CleanSweep(r) \/ CleanWipe(r)
    PROVE  Undisturbed'
<1>0. job[r] \in Jobs /\ CleanKnows(job[r]) /\ (job[r] # Idle \/ Free)
  <2>1. Idle.at = "idle" BY DEF Idle
  <2>2. CASE CleanJudge(r) \/ CleanSweep(r) \/ CleanWipe(r)
    <3>1. job[r].at # "idle" BY <2>2 DEF CleanJudge, CleanSweep, CleanWipe
    <3> QED BY <2>1, <3>1 DEF TypeOK, Undisturbed
  <2> QED BY <2>2 DEF TypeOK, Undisturbed, CleanList
<1>1. ASSUME NEW j, j = Idle, Goes(r, j) PROVE Undisturbed'
  <2>1. j.at = "idle" BY <1>1 DEF Idle
  <2> QED BY <1>0, <1>1, <2>1, RelyingOnNothing, OnlyRun
<1>2. ASSUME NEW j, Goes(r, j), j.at \in {"judge", "sweep", "wipe"}, CleanKnows(j)'
      PROVE  Undisturbed'
  <2>1. RetireKnows(j)' BY <1>2 DEF RetireKnows
  <2> QED BY <1>0, <1>2, <2>1, OnlyRun
<1>3. ASSUME NEW current, CleanList(r, current) PROVE Undisturbed'
  <2>1. PICK j : /\ Goes(r, j)
                 /\ j = Step("judge", None, None, {b \in Branches : root[b] # "none"},
                             ActiveRoots \cup {current})
    BY <1>3 DEF CleanList
  <2>2. j.at = "judge" /\ Secondary \subseteq j.kept BY <2>1 DEF Step, ActiveRoots
  <2>3. Secondary' = Secondary BY <1>3 DEF CleanList, git, Secondary
  <2>4. CleanKnows(j)' BY <2>2, <2>3 DEF CleanKnows
  <2> QED BY <1>2, <2>1, <2>2, <2>4
<1>4. CASE CleanJudge(r)
  <2>1. PICK j : /\ Goes(r, j)
                 /\ \/ j = Idle
                    \/ \E b \in job[r].todo :
                         \/ /\ b \notin job[r].kept
                            /\ j = [job[r] EXCEPT !.at = "sweep", !.branch = b,
                                                  !.todo = @ \ {b}]
                         \/ j = [job[r] EXCEPT !.todo = @ \ {b}]
    BY <1>4 DEF CleanJudge
  <2>2. CASE j # Idle
    <3>1. /\ j.at \in {"judge", "sweep"} /\ j.kept = job[r].kept
          /\ j.at = "sweep" => j.branch \in Branches \ j.kept
      BY <1>0, <1>4, <2>1, <2>2 DEF CleanJudge, Jobs, Job
    <3>2. Secondary' = Secondary BY <1>4 DEF CleanJudge, git, Secondary
    <3>3. Secondary \subseteq j.kept BY <1>0, <1>4, <3>1 DEF CleanJudge, CleanKnows
    <3>4. CleanKnows(j)' BY <3>1, <3>2, <3>3 DEF CleanKnows
    <3> QED BY <1>2, <2>1, <3>1, <3>4
  <2> QED BY <1>1, <2>1, <2>2
<1>5. CASE CleanSweep(r)
  <2>1. PICK j : /\ Goes(r, j)
                 /\ j = Idle \/ j = [job[r] EXCEPT !.at = "wipe"]
    BY <1>5 DEF CleanSweep
  <2>2. CASE j # Idle
    <3>1. j.at = "wipe" /\ j.kept = job[r].kept /\ j.branch = job[r].branch
      BY <1>0, <2>1, <2>2 DEF Jobs, Job
    <3>2. Secondary' = Secondary BY <1>5 DEF CleanSweep, git, Secondary
    <3>3. Secondary \subseteq j.kept /\ j.branch \in Branches \ j.kept
      BY <1>0, <1>5, <3>1 DEF CleanSweep, CleanKnows
    <3>4. root'[j.branch] \notin {"recent", "expired"}
      BY <1>5, <3>1, <3>3 DEF CleanSweep, TypeOK
    <3>5. CleanKnows(j)' BY <3>1, <3>2, <3>3, <3>4 DEF CleanKnows
    <3> QED BY <1>2, <2>1, <3>1, <3>5
  <2> QED BY <1>1, <2>1, <2>2
<1>6. CASE CleanWipe(r)
  <2>1. PICK j : Goes(r, j) /\ j = [job[r] EXCEPT !.at = "judge", !.branch = None]
    BY <1>6 DEF CleanWipe
  <2>2. j.at = "judge" /\ j.kept = job[r].kept BY <1>0, <2>1 DEF Jobs, Job
  <2>3. Secondary' = Secondary BY <1>6 DEF CleanWipe, git, Secondary
  <2>4. CleanKnows(j)' BY <1>0, <1>6, <2>2, <2>3 DEF CleanWipe, CleanKnows
  <2> QED BY <1>2, <2>1, <2>2, <2>4
<1> QED BY <1>3, <1>4, <1>5, <1>6

\* Others act only while no command runs, but for time, which passes.
LEMMA WorldUndisturbed ==
    ASSUME TypeOK, Undisturbed, scene.alone, UNCHANGED scene,
           NEW b \in Branches, World(b)
    PROVE  Undisturbed'
<1>1. job' = job
  BY DEF World, UseRoot, Expire, EditFiles, CommitFiles, Merge, Rebase, AddByHand,
     DeleteBranch
<1>2. CASE Free
  <2>1. \A r \in Runs : job'[r] = Idle BY <1>1, <1>2 DEF Free
  <2>2. Idle.at = "idle" BY DEF Idle
  <2>3. \A r \in Runs : RetireKnows(job[r])' /\ CleanKnows(job[r])'
    BY <2>1, <2>2 DEF RetireKnows, CleanKnows
  <2> QED BY <1>1, <2>3 DEF Undisturbed
<1>3. CASE Expire(b)
  <2>1. /\ UNCHANGED <<head, tree, contains, merged, based, marked, record>>
        /\ \A x \in Branches : root'[x] = root[x] \/ root[x] = "recent"
    BY <1>3 DEF Expire, git, TypeOK
  <2>2. DOMAIN root = Branches /\ DOMAIN root' = Branches /\ root' = [root EXCEPT ![b] = "expired"]
    BY <1>3 DEF Expire, TypeOK
  <2>3. \A r \in Runs : RetireKnows(job[r])'
    BY <1>1, <2>1 DEF Undisturbed, RetireKnows, Retirable, LocallyReady, Owned, Contained
  <2>4. \A r \in Runs : CleanKnows(job[r])'
    BY <1>1, <1>3, <2>1, <2>2 DEF Expire, Undisturbed, CleanKnows, Secondary
  <2> QED BY <1>1, <2>3, <2>4 DEF Undisturbed
<1> QED BY <1>2, <1>3 DEF World, UseRoot, EditFiles, CommitFiles, Merge, Rebase,
        AddByHand, DeleteBranch
-----------------------------------------------------------------------------
(* The theorems *)

\* Every step keeps what an undisturbed command relies on.
LEMMA UndisturbedStep ==
    ASSUME TypeOK, Undisturbed, [Next]_vars
    PROVE  Undisturbed'
<1>1. CASE UNCHANGED vars
  BY <1>1 DEF vars, git, store, Undisturbed, RetireKnows, CleanKnows, Retirable,
     LocallyReady, Owned, Contained, Secondary
<1>2. CASE Next /\ scene.alone
  <2>1. UNCHANGED scene BY <1>2 DEF Next
  <2>2. ASSUME NEW r \in scene.runs, Tool(r) PROVE Undisturbed'
    <3>1. r \in Runs BY SceneFacts
    <3>2. CASE \/ \E b, t : AddCheck(r, b, t) \/ RegisterCheck(r, b, t)
               \/ AddTree(r)
               \/ (\E acknowledged : \/ WriteRecord(r, acknowledged)
                                     \/ KilledWriting(r, acknowledged))
               \/ Crash(r)
      BY <1>2, <2>1, <3>1, <3>2, AddUndisturbed
    <3>3. CASE \/ \E here : RetireList(r, here)
               \/ RetireAsk(r) \/ RetireRemove(r) \/ RetireForget(r)
      BY <1>2, <2>1, <3>1, <3>3, RetireUndisturbed
    <3>4. CASE \/ \E current : CleanList(r, current)
               \/ CleanJudge(r) \/ CleanSweep(r) \/ CleanWipe(r)
      BY <1>2, <2>1, <3>1, <3>4, CleanUndisturbed
    <3> QED BY <2>2, <3>2, <3>3, <3>4 DEF Tool
  <2>3. ASSUME NEW b \in scene.branches, World(b) PROVE Undisturbed'
    BY <1>2, <2>1, <2>3, SceneFacts, WorldUndisturbed
  <2> QED BY <1>2, <2>2, <2>3 DEF Next
<1>3. CASE Next /\ ~scene.alone BY <1>3 DEF Next, Undisturbed
<1> QED BY <1>1, <1>2, <1>3

\* The record of a worktree that a run adds, adopts or removes is, if no run was
\* killed, that of the same worktree.
LEMMA RecordsStep ==
    ASSUME TypeOK, Undisturbed, RecordsCurrent, [Next]_vars
    PROVE  RecordsCurrent'
<1>1. CASE UNCHANGED vars
  BY <1>1 DEF vars, git, store, RecordsCurrent, Forgetting
<1>2. CASE Next
  <2> SUFFICES ASSUME scene.alone, crashes' = 0 PROVE RecordsCurrent'
    BY <1>2 DEF Next, RecordsCurrent
  <2>0. UNCHANGED scene BY <1>2 DEF Next
  <2>a. Idle.at = "idle" BY DEF Idle
  <2>1. crashes = 0
    <3>1. crashes' = crashes \/ crashes' = crashes + 1
      BY <1>2 DEF Next, Tool, World, AddCheck, RegisterCheck, AddTree, WriteRecord,
         KilledWriting, RetireList, RetireAsk, RetireRemove, RetireForget, CleanList,
         CleanJudge, CleanSweep, CleanWipe, Crash, UseRoot, Expire, EditFiles,
         CommitFiles, Merge, Rebase, AddByHand, DeleteBranch
    <3> QED BY <3>1 DEF TypeOK
  <2>2. \A b \in Branches : record[b] # None =>
            \/ tree[b] # "none" /\ declared[b] = record[b]
            \/ \E r \in Runs : Forgetting(r, b)
    BY <2>1 DEF RecordsCurrent
  <2>3. \* A run that is not forgetting leaves those that are alone.
        ASSUME NEW r \in Runs, job[r].at # "forget", NEW j, Goes(r, j),
               UNCHANGED record,
               \A b \in Branches : tree[b] # "none" => tree'[b] # "none",
               \A b \in Branches : tree[b] # "none" => declared'[b] = declared[b]
        PROVE  RecordsCurrent'
    <3>1. \A s \in Runs, b \in Branches : Forgetting(s, b) => Forgetting(s, b)'
      BY <2>3 DEF Forgetting, Goes, TypeOK
    <3> QED BY <2>2, <2>3, <3>1 DEF RecordsCurrent
  <2>4. ASSUME NEW r \in scene.runs, Tool(r) PROVE RecordsCurrent'
    <3>1. r \in Runs BY SceneFacts
    <3>2. CASE \E b \in scene.branches, t \in scene.targets :
                 AddCheck(r, b, t) \/ RegisterCheck(r, b, t)
      <4>1. /\ job[r].at # "forget" /\ UNCHANGED <<record, tree, declared>>
            /\ \E j : Goes(r, j)
        BY <2>a, <3>2 DEF AddCheck, RegisterCheck, git, store
      <4> QED BY <2>3, <3>1, <4>1
    <3>3. CASE AddTree(r)
      <4>1. /\ job[r].at = "add" /\ UNCHANGED record /\ \E j : Goes(r, j)
            /\ \/ UNCHANGED <<tree, declared>>
               \/ /\ tree[job[r].branch] = "none"
                  /\ tree' = [tree EXCEPT ![job[r].branch] = "clean"]
                  /\ declared' = [declared EXCEPT ![job[r].branch] = job[r].target]
        BY <3>3 DEF AddTree, store
      <4>2. \A b \in Branches : tree[b] # "none" => tree'[b] # "none" /\ declared'[b] = declared[b]
        BY <4>1 DEF TypeOK
      <4> QED BY <2>3, <3>1, <4>1, <4>2
    <3>4. ASSUME NEW acknowledged \in BOOLEAN, WriteRecord(r, acknowledged)
          PROVE  RecordsCurrent'
      <4>1. job[r].at = "record" /\ tree' = tree BY <3>4 DEF WriteRecord, git
      <4>2. \A b \in Branches :
              \/ record'[b] = record[b] /\ declared'[b] = declared[b]
              \/ tree[b] # "none" /\ record'[b] = declared'[b]
        BY <3>4 DEF WriteRecord, RecordFits, TypeOK
      <4>3. \A s \in Runs, b \in Branches : Forgetting(s, b) => Forgetting(s, b)'
        BY <3>1, <3>4, <4>1 DEF WriteRecord, Forgetting, Goes, TypeOK
      <4> QED BY <2>2, <4>1, <4>2, <4>3 DEF RecordsCurrent
    <3>5. CASE Crash(r) \/ \E acknowledged \in BOOLEAN : KilledWriting(r, acknowledged)
      BY <2>1, <3>5 DEF Crash, KilledWriting
    <3>6. CASE \/ \E b \in scene.branches \cup {None} : RetireList(r, b) \/ CleanList(r, b)
               \/ RetireAsk(r) \/ CleanJudge(r) \/ CleanSweep(r) \/ CleanWipe(r)
      <4>1. /\ job[r].at # "forget" /\ UNCHANGED <<record, tree, declared>>
            /\ \E j : Goes(r, j)
        BY <2>a, <3>6 DEF RetireList, CleanList, RetireAsk, CleanJudge, CleanSweep,
           CleanWipe, git, store
      <4> QED BY <2>3, <3>1, <4>1
    <3>7. CASE RetireRemove(r)
      <4>1. job[r].at = "ask" /\ UNCHANGED record BY <3>7 DEF RetireRemove, store
      <4>2. CASE UNCHANGED <<tree, declared>> /\ Goes(r, Idle)
        BY <2>3, <3>1, <4>1, <4>2
      <4>3. ASSUME NEW x \in job[r].kept,
                   tree' = [tree EXCEPT ![x] = "none"],
                   declared' = [declared EXCEPT ![x] = None],
                   Goes(r, Step("forget", x, None, {}, job[r].kept \ {x}))
            PROVE  RecordsCurrent'
        <5>1. Forgetting(r, x)' BY <3>1, <4>3 DEF Forgetting, Goes, Step, TypeOK
        <5>2. \A s \in Runs, b \in Branches : Forgetting(s, b) => Forgetting(s, b)'
          BY <3>1, <4>1, <4>3 DEF Forgetting, Goes, TypeOK
        <5>3. \A b \in Branches : b # x => tree'[b] = tree[b] /\ declared'[b] = declared[b]
          BY <4>3 DEF TypeOK
        <5> QED BY <2>2, <3>1, <4>1, <5>1, <5>2, <5>3 DEF RecordsCurrent
      <4> QED BY <3>7, <4>2, <4>3 DEF RetireRemove
    <3>8. CASE RetireForget(r)
      <4>1. /\ UNCHANGED <<tree, declared>>
            /\ record' = [record EXCEPT ![job[r].branch] = None]
        BY <3>8 DEF RetireForget, git
      <4>2. \A b \in Branches : record'[b] # None => b # job[r].branch /\ record'[b] = record[b]
        BY <4>1 DEF TypeOK
      <4>3. \A s \in Runs, b \in Branches :
              Forgetting(s, b) /\ b # job[r].branch => Forgetting(s, b)'
        BY <3>1, <3>8 DEF RetireForget, Forgetting, Goes, TypeOK
      <4> QED BY <2>2, <4>1, <4>2, <4>3 DEF RecordsCurrent
    <3> QED BY <2>4, <3>2, <3>3, <3>4, <3>5, <3>6, <3>7, <3>8 DEF Tool
  <2>5. ASSUME NEW x \in scene.branches, World(x) PROVE RecordsCurrent'
    <3>1. /\ UNCHANGED <<job, record, declared>>
          /\ tree' = tree \/ \E y \in {"clean", "dirty"} : tree' = [tree EXCEPT ![x] = y]
      BY <2>5 DEF World, UseRoot, Expire, EditFiles, CommitFiles, Merge, Rebase,
         AddByHand, DeleteBranch, git, store
    <3>2. \A b \in Branches : tree[b] # "none" => tree'[b] # "none"
      BY <3>1 DEF TypeOK
    <3> QED BY <2>2, <3>1, <3>2 DEF RecordsCurrent, Forgetting
  <2> QED BY <1>2, <2>4, <2>5 DEF Next
<1> QED BY <1>1, <1>2

LEMMA InitInv == Init => StoreInv
<1> SUFFICES ASSUME Init PROVE StoreInv OBVIOUS
<1>1. TypeOK
  <2>1. -1 \in Int /\ 0 \in Nat OBVIOUS
  <2>2. Idle \in Jobs BY JobsTyped
  <2>3. /\ head \in [Branches -> Int] /\ made \in [Branches -> Nat]
        /\ contains \in [Targets -> [Branches -> Nat]] /\ crashes \in Nat
    BY <2>1 DEF Init
  <2>4. /\ scene \in Scenes /\ tree \in [Branches -> {"none", "clean", "dirty"}]
        /\ merged = {} /\ based = {} /\ unsaved = {} /\ marked \in {"none", "whole", "torn"}
        /\ record \in [Branches -> Targets \cup {None, Torn}]
        /\ declared \in [Branches -> Targets \cup {None}]
        /\ root \in [Branches -> {"none", "recent", "expired", "torn"}]
    BY DEF Init
  <2>5. job \in [Runs -> Jobs] BY <2>2 DEF Init
  <2> QED BY <2>3, <2>4, <2>5 DEF TypeOK
<1>2. CommitsKnown BY DEF Init, CommitsKnown
<1>3. NothingLost BY DEF Init, NothingLost
<1>4. Undisturbed
  <2>1. Idle.at = "idle" BY DEF Idle
  <2> QED BY <2>1 DEF Init, Undisturbed, RetireKnows, CleanKnows
<1>5. RecordsCurrent BY DEF Init, RecordsCurrent
<1> QED BY <1>1, <1>2, <1>3, <1>4, <1>5 DEF StoreInv

\* The development store keeps its invariant, whoever acts and whichever run
\* is killed.
THEOREM StoreInvariance == Spec => []StoreInv
<1>1. StoreInv /\ [Next]_vars => StoreInv'
  BY TypeStep, WorkKept, UndisturbedStep, RecordsStep DEF StoreInv
<1> QED BY <1>1, InitInv, PTL DEF Spec

\* No command of workspace_hygiene.py loses an edit or a commit, whoever edits,
\* commits, merges or deletes branches while it runs.
THEOREM WorkIsSafe == Spec => []NothingLost
<1>1. StoreInv => NothingLost BY DEF StoreInv
<1> QED BY <1>1, StoreInvariance, PTL

\* Only a removal by worktrees --apply takes a worktree away.
LEMMA RemovedByRetire ==
    ASSUME StoreInv, Next, scene.alone, NEW b \in Branches,
           tree[b] # "none", tree'[b] = "none"
    PROVE  Retirable(b) /\ (crashes = 0 => declared[b] = record[b])
<1>1. TypeOK BY DEF StoreInv
<1>2. PICK r \in scene.runs : RetireRemove(r)
  <2>1. ASSUME NEW x \in scene.branches, World(x) PROVE FALSE
    <3>1. tree' = tree \/ \E y \in {"clean", "dirty"} : tree' = [tree EXCEPT ![x] = y]
      BY <2>1 DEF World, UseRoot, Expire, EditFiles, CommitFiles, Merge, Rebase,
         AddByHand, DeleteBranch, git
    <3> QED BY <1>1, <3>1 DEF TypeOK
  <2>2. ASSUME NEW r \in scene.runs, AddTree(r) PROVE FALSE
    BY <1>1, <2>2 DEF AddTree, TypeOK
  <2>3. ASSUME NEW r \in scene.runs, Tool(r) PROVE RetireRemove(r)
    BY <2>2, <2>3, QuietSteps DEF Tool
  <2> QED BY <2>1, <2>3 DEF Next
<1>3. r \in Runs /\ RetireKnows(job[r])
  BY <1>1, SceneFacts DEF StoreInv, Undisturbed
<1>4. PICK x \in job[r].kept : tree' = [tree EXCEPT ![x] = "none"]
  BY <1>2 DEF RetireRemove
<1>5. x = b BY <1>1, <1>4 DEF TypeOK
<1>6. Retirable(b) BY <1>2, <1>3, <1>5 DEF RetireRemove, RetireKnows
<1>7. ASSUME NEW s \in Runs, Forgetting(s, b) PROVE FALSE
  <2>1. Idle.at = "idle" /\ job[r].at = "ask" /\ job[s].at = "forget"
    BY <1>2, <1>7 DEF Idle, RetireRemove, Forgetting
  <2>2. job[r] # Idle /\ job[s] # Idle BY <2>1
  <2>3. r = s BY <1>3, <2>2 DEF StoreInv, Undisturbed
  <2> QED BY <2>1, <2>3
<1>8. record[b] # None BY <1>6, StoreAssumption DEF Retirable
<1>9. crashes = 0 => declared[b] = record[b]
  BY <1>7, <1>8 DEF StoreInv, RecordsCurrent
<1> QED BY <1>6, <1>9

\* command_worktrees, undisturbed, removes a worktree only if its head is in
\* the target declared for it, an exact-head pull request was merged to that
\* target, and no open pull request is based on the branch; after a run was
\* killed, the target is the one that the record names.
THEOREM OnlyMergedRetire == Spec => RetiresOnlyMerged
<1>1. StoreInv /\ [Next]_vars =>
        [\A b \in Branches :
          scene.alone /\ tree[b] # "none" /\ tree'[b] = "none" =>
              LET target == IF crashes = 0 THEN declared[b] ELSE record[b] IN
              /\ target \in Targets /\ Contained(b, target)
              /\ <<b, target, head[b]>> \in merged
              /\ b \notin based]_vars
  BY RemovedByRetire DEF Retirable
<1> QED BY <1>1, StoreInvariance, PTL DEF Spec, RetiresOnlyMerged

\* Only clean --apply takes the content of a task root, whole or torn.
LEMMA SweptByClean ==
    ASSUME StoreInv, Next, scene.alone, NEW b \in Branches,
           root'[b] # root[b], root'[b] \in {"torn", "none"}
    PROVE  tree[b] = "none"
<1>1. TypeOK BY DEF StoreInv
<1>2. PICK r \in scene.runs : CleanSweep(r) \/ CleanWipe(r)
  <2>1. ASSUME NEW x \in scene.branches, World(x) PROVE FALSE
    <3>1. root' = root \/ \E y \in {"recent", "expired"} : root' = [root EXCEPT ![x] = y]
      BY <2>1 DEF World, UseRoot, Expire, EditFiles, CommitFiles, Merge, Rebase,
         AddByHand, DeleteBranch, store
    <3> QED BY <1>1, <3>1 DEF TypeOK
  <2>2. ASSUME NEW r \in scene.runs, Tool(r) PROVE CleanSweep(r) \/ CleanWipe(r)
    <3>1. root' # root BY <1>1 DEF TypeOK
    <3> QED BY <2>2, <3>1 DEF Tool, AddCheck, RegisterCheck, AddTree, WriteRecord,
            KilledWriting, RetireList, RetireAsk, RetireRemove, RetireForget, CleanList, CleanJudge,
            Crash, store
  <2> QED BY <2>1, <2>2 DEF Next
<1>3. r \in Runs /\ CleanKnows(job[r])
  BY <1>1, SceneFacts DEF StoreInv, Undisturbed
<1>4. job[r].branch = b BY <1>1, <1>2 DEF CleanSweep, CleanWipe, TypeOK
<1>5. b \notin job[r].kept /\ Secondary \subseteq job[r].kept
  BY <1>2, <1>3, <1>4 DEF CleanSweep, CleanWipe, CleanKnows
<1> QED BY <1>5 DEF Secondary

\* command_clean, undisturbed, removes nothing of a task root whose worktree is
\* there, nor of what a killed run left of one.
THEOREM ActiveRootsStay == Spec => ActiveRootsRetained
<1>1. StoreInv /\ [Next]_vars =>
        [\A b \in Branches :
          scene.alone /\ root'[b] # root[b] /\ root'[b] \in {"torn", "none"}
              => tree[b] = "none"]_vars
  BY SweptByClean
<1> QED BY <1>1, StoreInvariance, PTL DEF Spec, ActiveRootsRetained
=============================================================================
