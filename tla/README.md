# TLA+ models of Universal Launcher

Specifications of the Universal Launcher kernel, its client helpers and its
worktree tool: TLA+ modules translated from the sources, TLC configurations that
check them on small instances, and TLAPS proofs of the main results for every
instance.

## The system

Universal Launcher is a C library with no threads, no daemon and no process of
its own. Its callers are frontends and product bindings. What it keeps or does:

| Part | Source | State | Operations |
|---|---|---|---|
| Session journal | `runtime/launcher/kernel/ulk_session.c` | a directory of `*.session` files, `*.session.tmp` files and a lock file, shared by all processes of a root | write, inspect, last_run, list |
| Command registry and API | `runtime/launcher/kernel/ulk_api.c` | one context: an array of registered commands, the last command graph, all allocator-owned | create, register v1/v2, unregister, execute, inspect graph, destroy |
| Owned responses | `runtime/client/ulk_owned_response.c` | one block per owned response | validate, copy (plain, with options), release |
| Client transport | `runtime/client/ulk_client.c` | a copied adapter | initialize, execute |
| Operation outcomes | `runtime/client/ulk_operation.c` | none | validate an identity, a result |
| Setup handoff | `runtime/launcher/kernel/ulk_setup_handoff.c` | none; the caller keeps the install reference | validate an apply request, project a Setup result, launch-plan status |
| Reference model | `runtime/launcher/kernel/ulk_reference_model.c` | none | validate references and the graph of them |
| Product composition | `runtime/launcher/kernel/ulk_product_composition.c` | none | validate a contract set, capabilities, entrypoints, a composition |
| Workspace hygiene | `tools/workspace_hygiene.py`, `tools/development_layout.py` | git worktrees, ownership records, task roots | add, register, retire, clean |
| Contract checkers | other `tools/*.py` | none | compare files of the repository |
| Frontends, daemon, platform | `apps/`, `runtime/daemon`, `runtime/platform` | none yet | placeholders without code |

How they interact. A frontend calls the client, which forwards to an adapter,
which for the direct transport calls `ulk_command_execute_v1` on a context. The
handler that runs may call the context again. The response is borrowed: its
texts belong to the context, the handler or the transport, and an owned copy
ends that dependence. The journal is separate: it takes facts from its caller,
uses `ulk_operation.c` to validate terminal results, and shares its directory
with the journal calls of other processes. Universal Setup is another program:
the launcher sends it apply requests and projects its results onto the install
reference that launch plans, instances and the reference graph refer to. The
worktree tool shares the development store with other runs of itself, with
developers and with git.

What is hard in it:

- the journal is concurrent and persistent. Processes interleave between lock,
  scan, decision, temporary file, rename, second scan and retention; they crash
  between any two of these; a removal or a write fails; the power fails with any
  part of the directory on the disk; the directory may hold records of an older
  library, damaged files or files of a later version; callers disagree about
  the retention window; a client asks twice, and others write in between;
- the registry hands out pointers into its memory and runs on allocators that
  may fail anywhere; a handler may unregister itself, make the array move or
  destroy the context while it runs;
- owned responses add caller-supplied sizes, and call the allocator, which is
  caller code, while a borrowed source is in use;
- Setup's results come late, twice, out of order and malformed, and the
  projection has no memory; freshness of a launch plan is decided in three
  places by different comparisons;
- the validators decide by loops with flags, look-behind and look-ahead over
  caller memory, and by combinations of optional parts;
- the worktree tool observes, asks GitHub, and acts later, without a lock.

What makes each part correct:

- journal: one identity names one session; terminal records do not change;
  commit orders are distinct and grow with admission; Last Run is the newest
  admission; OK means stored; damage stops every change; a crash or a power loss
  leaves a directory from which every later call can go on; the lock is always
  let go; a client that retries gets its answer;
- registry and client: memory is exact; entries stay within their array and the
  budget; the graph a caller may read lives and agrees with execution; nested
  calls amount to calls made one after the other;
- owned responses: the size check accepts exactly what fits; a block has one
  owner and is freed once, by the allocator that made it; the copied texts are
  those the source had when the call was made;
- handoff and references: a reference is never a mixture of two reports; nothing
  takes it back; a launch plan that is called fresh is for an installation that
  has not changed; the places that decide freshness agree;
- validators: they accept exactly what the published schemas and the coherence
  of a graph admit, and read only inside their input;
- worktree tool: no edit and no commit is lost; what is retired was merged; the
  task roots of active worktrees stay.

`PROJECT.json` lists the hazards one by one, with the properties that would
show each going wrong.

## Modules

| Module | Models |
|---|---|
| `SessionRecords` | the disk record and the pure operators of the journal: validation, equality, the one transition, the sort order, scan capacity, surplus |
| `SessionStore` | the abstract promise: a directory that changes by whole commits and single evictions only |
| `SessionJournal` | the journal calls step by step, by several processes, with faults and crashes |
| `SessionPowerLoss` | the journal on a disk that lags behind, with power failures |
| `SessionReader` | a client that follows the two-call buffer law, on the abstract store |
| `CommandRegistry` | a context: registry, graph and heap |
| `ClientCalls` | clients and handlers that call the context, nested |
| `OwnedResponse` | copying and releasing an owned response |
| `SetupHandoff` | the launcher's install reference, and a Setup that misbehaves |
| `ReferenceModel` | the validators of references and of their graph |
| `LaunchReadiness` | handoff and reference model together: instances, launch plans and the two freshness questions |
| `ReferenceGraph` | the graph validator on edited graphs |
| `TextRules` | the text rules of the schemas, as one-line definitions |
| `TextScan` | the character loops that decide them |
| `OperationOutcome` | validation of operation results |
| `ProductComposition` | validation of product compositions |
| `WorktreeStore` | the worktree tool, its store, git, GitHub and developers |
| `SessionRecordsProofs`, `SessionJournalProofs`, `SessionPowerLossProofs` | theorems about the journal |
| `CommandRegistryProofs` | theorems about the registry and about `ClientCalls` |
| `OwnedResponseProofs` | theorems about owned responses |
| `SetupHandoffProofs` | theorems about the handoff and about `LaunchReadiness` |
| `ContractValidatorProofs` | theorems about `TextScan`, `OperationOutcome`, `ProductComposition` and `ReferenceGraph` |
| `WorktreeStoreProofs` | theorems about the worktree store |
| `MC*` | instances for TLC; `MCContractValidators` puts the stateless validators in one instance |

Operators whose name has a suffix after an underscore, such as
`AcquireLock_Unchecked`, are variants with a plausible bug. No specification
uses them. Putting one in the place of the operator they are named after makes
the property it is listed with in `PROJECT.json` fail.

### Session journal

A record keeps what the code compares or orders by: `id` (session ID, a number
so that `strcmp` is `<`), `ident` (operation and attempt ID), `run` (runnable
reference), `start` (launch facts, `process_identity` folded in), `state`,
`result` (all of the terminal payload) and `order` (the commit order of disk
record v2; 0 for a v1 record). The text format, hex and CRC are reduced to what
`ulk_parse_record` can answer: a record, `Corrupt` or `Future`. One property of
the conversion is kept, because it matters: a runnable reference with a NUL byte
is cut there once it has been a C string (`CText`, `BeforeNul`), to another
reference or to the empty text.

`files` is the directory, `temps` the temporary files, `lock` the owner of the
lock file. Per process there are the place in the call (`pc`), the call, the
record to write (`request`, the code's `requested`), what the last scan read
(`snap`, the code's `set`), what retention has still to remove (`doomed`) and
the reply. One action is one step that another process or a crash may see
separated from the next:

| Action | Code |
|---|---|
| `WriteCall`, `LookupCall`, `ListCall` | validation and `ulk_prepare_root` |
| `AcquireLock`, `Unavailable` | `ulk_acquire_lock` |
| `Scan`, `ScanFails` | the first `ulk_scan_records` |
| `Stopped`, `AssignOrder` | the loop over the snapshot and the choice of a commit order |
| `OpenTemp`, `SyncTemp`, `Rename` | `ulk_write_file_atomic` |
| `Rescan`, `RescanFails` | the second scan |
| `EvictNext`, `Retained` | the retention loop |
| `Lookup`, `List` | selection, rendering and `ulk_copy_json` |
| `Return` | the cleanup label |
| `ReadFault`, `WriteFault`, `EvictFault` | a system call or an allocation fails |
| `Crash` | the process dies; the operating system drops its lock |

The loop over the snapshot reads nothing that other processes change, so it is
one action; `First` says at which record of the sorted snapshot it stops.
`ulk_append_record` doubles its array from 16 to 1024 and then refuses, which
for the constant of the code is "more than `MaxRecords` files fail the scan"
(`Fits`).

**Power loss.** `SessionPowerLoss` runs the unchanged journal on what the file
system shows and adds `disk`, what would be there after a power failure. The
code forces the bytes of a temporary file (`Forces`) before the rename and never
forces the directory, so the entry of each session reaches the disk on its own,
at any time or not at all (`WriteBack`), and an entry whose bytes were not
forced is torn. `PowerLoss` ends all processes and makes the disk the directory.

**Two calls.** `SessionReader` is a client that asks with no buffer, brings the
capacity it was told, and brings more when the answer has outgrown it. A call
holds the lock from scan to copy, so it is one step on the store; that is what
`ReadersCurrent` of the journal says. The other processes are `SessionStore`.
JSON text is its size: a terminal record is longer than a running one.

### Command registry and client calls

A context is documented as a serialized boundary, so a call is one action of
`CommandRegistry`. Blocks on the heap are named by what they were allocated for:
the context, the array of a capacity, string `i` of the entry of a name, the
graph. `view` is a history variable: the graph text that the documented rule
lets the caller read. An entry keeps its name, its handler, its effects and its
other texts as one value. The graph is a sequence of rows: name, metadata, and
whether a handler or the built-in command answers.

`ClientCalls` takes the calls apart. `op` is the call in progress and `mem` the
context's memory at this moment; the variables of `CommandRegistry` hold the
context as the last call to return left it, and take over `mem` when a call
returns. A registration checks its descriptor (`CheckDescriptor`), grows the
array (`Grow`, `CannotGrow`), tries all copies, each of which may fail
(`CopyText`), then frees them (`DropCopies`) or appends the entry
(`AppendEntry`), and gives the graph up last (`InvalidateForRegister`); an
inspection gives the old graph up first; a destruction frees entry by entry. An
execution that finds a handler hands over to it (`HandlerStarts`): until it
returns, `stack` holds it, and it makes any call, through a client or on the
context, to a depth of `MaxDepth`. `client` is the copied adapter; an adapter
other than the direct one leads out of the process.

The texts that a caller passes may be views into the graph JSON it was lent
(`from`): `ulk_command.h` lends it until the next command call, so passing a name
out of it to that very call is natural. `ArgumentsLive` says that the call is
through with its arguments when it frees the graph. It holds by the order of the
steps, in `ulk_register_internal` by that of lines 500 to 529. A handler is
handed the request as it came: one that unregisters or inspects and then reads a
request whose texts came out of the graph reads freed memory, and that is the
handler's affair by the documented rule; the property ends where the handler
starts.

### Owned responses

`source` is the borrowed response, `dests` the owned ones, `heap` the allocated
blocks with the allocator that made each. A response is its three texts; byte
`i` of a text is a value of its own, so a copy to the wrong place is visible.
Sizes are words below `W`, and `AddrMax` stands for `SIZE_MAX`, which may be
less. A copy is two steps, because the allocator runs in the middle of it:
`CopyWithLimit` is everything up to the call of the allocator, `AllocFails`,
`Allocates` and `CopiesNothing` are the rest, and between them `Callback` may
rewrite the borrowed structure (the texts themselves stay, as the caller must
guarantee for the call). `asked` holds the locals of the copy; `promised` is a
history variable, the texts that each owned response was made from. The status
and error codes are carried along unchanged by the code and left out.

### Setup handoff, references and launch plans

`ref`, `plan` and `bound` are what the launcher keeps: the install reference,
the reviewed plan and the binding of the launch plan it built last. `installed`
is what is really there, `requests` and `results` are on their way. A result is
delivered from a set that nothing leaves, so it may come late, twice and after
others. `ResultProject` is `ulk_setup_result_project_v1`, one operator per
branch; after an error the overwritten refresh structure is kept, as in the code
(`ProjectError`), and the launcher keeps the reference only after OK. A digest
stands for the operation, product and target it is computed from; `place` for
state reference, entrypoint and capabilities together.

Two things are assumed of Setup, which is not in this repository: it applies a
plan ID at most once, and every change of an installation gets a new state
revision. Without the first, two results with one identity exist and nothing in
the launcher could tell them apart.

`LaunchReadiness` adds an instance that is bound anew (`BindInstance`) and a
launch plan built for both (`BuildPlan`), puts them with the reference into a
graph (`Graph`) and asks both freshness questions, that of the handoff
(`InstallStatus`) and that of graph validation (`GraphValidate`), at any moment.
Both compare with the launcher's reference. What Setup changed without a result
for the launcher (`SetupDrift`) is in `installed` only: until a result tells, a
plan is called fresh for an installation that is no longer there, and
`FreshMeansUnchanged` and `GraphFreshMeansUnchanged` speak of the reference.

`ReferenceModel` has the checks of the graph in the order of the code, the first
that fails giving the issue. `ReferenceGraph` starts from a coherent graph, with
or without profile and artifact set, replaces fields by another text, a bad one
or the empty one, leaves parts out, and validates. Since `place` is one value,
the optional `setup_state_ref` of a reference that is not managed is never
absent, and owner and lifecycle are not edited: the checks of
`ulk_install_reference_validate_v2` on these (`ulk_reference_model.c:111` to
`148`) are in the model and the run does not reach both their outcomes.

### Validators

A text is a sequence of character classes (`Chars`), one for each kind of
character that some rule treats in its own way, behind a view that may have a
size and no data. `TextRules` states the rules as the schemas' patterns do;
`TextScan` follows the loops: entry checks, the position, the two flags of the
command-name scan, and in `touched` the positions that have been
read. The validators of results and compositions use the rules, which
`ScanDecides` shows the loops decide.

`OperationOutcome` is `ulk_operation_result_validate_v1` as the implications of
the code, against the table of the published schema. `ProductComposition` keeps
the two nested loops with their positions and early returns. Its reference is
the schemas in two parts, their form (`SchemaForm`) and the lengths that the code
has no check for (`SchemaLengths`); the samples of the run have texts that are
too long by one.

### Worktree store

The commits of a branch are numbered and a target contains those up to a number.
`job` is what each run of the tool is doing, with its locals: one step per
observation or external command, so that developers, GitHub and other runs come
between, and a kill anywhere. `scene` fixes who is there in a behaviour: one run
at a time with nobody else acting during it (`alone`), or several runs and
developers at once. A task root whose removal was interrupted is `torn`: it has
no marker left, and later runs of `clean` stop at it. Marker and records are
written in place with `write_text`, so a kill in the middle (`KilledWriting`)
leaves a torn one, which is not JSON and which every later reader refuses.
`declared` is a history variable: the target that the worktree of a branch was
added or registered with, whatever the record says.

`RetireList` observes all worktrees in one step, where `worktree_records` asks
git several times for each; a change in between makes the observation as old as
one made before it, which the steps that follow allow for anyhow. Each branch has
the one task root that is named after it: a root that `FACMAN_TASK_ID` or
`FACMAN_WORK_ITEM` names otherwise (`development_layout.py:61`) matches no active
worktree and is kept by its age only.

## Runs

| Run | Instance | Shows |
|---|---|---|
| `race` | 2 processes, 3 sessions, windows 1 and 2 (the default), all calls, 1 fault, orders up to 3 | interleavings: identity, order, immutability, true answers to writers and readers, windows, refinement of `SessionStore` |
| `history` | 1 process, 4 sessions, 10 requests, v1 records and damage at the start, 1 fault, fairness | fail-closed behaviour, the order after an upgrade, the lock let go |
| `overfull` | 1 process, `maximum_records` at the maximum | the finding below |
| `powerloss` | 1 process, 3 sessions, 2 power losses, orders up to 5 | no torn session file; distinct orders on the disk |
| `twocall` | 6 questions, 3 sessions, orders up to 4, fairness | the client is answered |
| `registry` | 4 names of which one overrides a built-in, 2 handlers, array 2 growing to a limit of 3, 3 strings an entry | memory, budget, lifetime and truth of the graph |
| `reentry` | 2 names, array 1 growing to 2, 2 strings an entry, handlers 2 deep, 3 adapters | calls of many steps, failing and nested, amount to single ones; arguments out of the graph are read before it is freed |
| `copies` | words below 16, addresses to 12, default limit 4; 2 owned responses, 2 blocks, 9 responses, 4 kinds of allocator | ownership, bounds, exact limits, intact texts |
| `handoff` | 6 operations, 8 misreports, 2 of every identity, 1 plan, 2 revisions, first references of every owner and one that needs recovery | no mixture, fixed identity, answers that agree but in one case |
| `ready` | 3 operations, 2 products, 2 verifications, install IDs misreported, 2 plans, 3 revisions, 2 bindings, 1 place | no rollback, fresh means an unchanged reference, the two questions agree |
| `validators` | texts to 4 characters of 12 classes under 8 rules, all results over sample texts, 3 edits of a composition or a graph | the validators decide what the schemas say, four lengths apart |
| `worktrees` | alone on 2 branches, or on 1 with 2 targets and 2 commits, or 2 runs and a developer on 1 with 2 commits; 1 kill; a limit of 1 worktree | nothing lost, only what was merged to the declared target retired, active task roots kept |

Why the bounds are enough. Three sessions with windows 1 and 2 give a record
that stays, one that is replaced and one that is evicted, and let two records be
surplus at once. Two processes suffice for every interleaving under one lock;
with one fault, a crashed call is followed by a complete one. Starting times are
0 and 1, and the later session has the earlier time, so that an order by time is
wrong. `MaxOrder` is reached in `race` and `history`. Two power losses let one
hit what the other left. In `registry` the limit of 3 is not twice the first
array, so the last growth step is the clamped one; three strings are enough for
a copy that fails first, last or in between. In `reentry` an array of one makes
every second registration move it, two strings give every kind of partly failed
copy, and a depth of two has a handler in a handler. In `copies` sums of sizes
fall on the default limit, one past it, on `SIZE_MAX`, between it and the
largest word, and past a word at the first and at the second addition, once to a
remainder small enough to pass the limit. In `ready` two plans with three
revisions let a result of the first arrive after that of the second, with a
change nobody asked for in between; an install ID that Setup reports again for a
second product lets one ID come to stand for two products while an instance is
bound to it; two verifications let the same installation be verified anew. One
place is enough there, since neither question compares places and every change
of one has a new revision; `handoff` has two, with one plan and every misreport.
Texts of four characters are one longer than the limit on
names (3 here), and hold a `..` segment with neighbours on both sides. Two items
in each array and three edits put a fault behind sound items in both loops. In
`worktrees` the second target lets a stale record name another than the one that
the present worktree of the branch was added for.

Symmetry is used over processes (`race`), over the commands that are not built
in (`registry`), and over owned responses and blocks (`copies`), in runs without
liveness only.

Fairness. `FairSpec` of the journal assumes weak fairness of each process's own
steps: a call in progress goes on, since nothing in the code waits for anything
but the lock. No fairness between waiters is assumed (`flock` promises none),
hence no property says that a waiter gets the lock. `SessionReader` assumes that
its client goes on calling, which is what a client that wants an answer does;
that it is answered also rests on the bounded number of commit orders: other
processes that for ever enlarge the answer between two calls could keep it
waiting.

Deadlock is checked in every run but `twocall` and `validators`, where the
client or the validation ends.

## Findings

- `overfull`: with `maximum_records` at 1024 and a full journal, one write more
  commits record 1025, which no scan can read; this and all later calls fail.

Differences between documents and code that were met while modelling. The
models follow the code, and the properties are stated so that they say what the
code does guarantee:

- a session that a v1 library started gets a fresh commit order when it ends
  (`ulk_session.c:1085` to `1088`), so it overtakes sessions admitted after it;
  `session_journal.md:31` says terminal replacement preserves the order.
  `RankStable` makes the exception.
- a runnable reference with a NUL byte in front is accepted
  (`ulk_session.c:116`), and the record it becomes cannot be inspected, nor any
  list that includes it; one with a NUL byte further on is stored as the part
  before it, and `last_run` finds it under that.
- neither the rename (`ulk_session.c:569`) nor the removal of a surplus record
  (line 1124) is followed by a sync of the directory: after a power loss a
  record whose write returned OK may be missing, and an evicted one may be back
  although its identity has been given to another session, against
  `session_journal.md:20`.
- `command_graph.md:26` to `32` lists `install_refs.scan` and
  `install_refs.import` among the exposed commands; `ULK_BUILTIN_COMMANDS`
  (`ulk_api.c:80`) has neither and the kernel answers them as unsupported.
- graph validation decides freshness by two revisions (`ulk_reference_model.c:303`)
  and so calls a launch plan fresh while its installation needs recovery;
  `setup_handoff.md:33` to `35` says every bound launch plan is stale then, and
  `ulk_launch_plan_install_status_v1` says so too. `QuestionsAgree` names the
  difference.
- a refused or failed result on a reference that already needs recovery is
  projected as ready and fresh (`ulk_setup_handoff.c:213`), against the same
  lines; `ulk_launch_plan_install_status_v1` says stale. `AnswersAgree` says that
  this is the one case in which the two disagree.
- a result carries no input identity digest (`ulk_setup_handoff.c:125`), so one
  made for earlier inputs of a plan is accepted; `setup_handoff.md:10` lists the
  digest among the identities that must still match.
- four texts of a composition have a length limit in their schemas and none in
  `ulk_product_composition.c`: the version of a contract set (64), the exact
  version and the composition revision of a product (128 each) and the relative
  path of an entrypoint (4096). `ValidIffFitsOrTooLong` says that nothing else
  beyond the schemas is accepted. Two characters are left out of its reference:
  a NUL byte in a free text, which the code refuses and a JSON string may hold,
  and a line break in a relative path, which the schema's pattern excludes and
  the code does not look for.
- the worktree tool takes no lock. Two runs of `worktree-add` can both pass the
  limit (`workspace_hygiene.py:637`); a commit made after the observation is
  retired unmerged, though its branch keeps it (line 588); a worktree added
  while `clean` runs loses its expired task root (line 539); and a run killed
  between removing a worktree and its record leaves a record (line 597) that a
  later worktree of the branch, for another target, is taken to be owned by:
  `worktree-add` for that target fails after git has added the worktree
  (`development_layout.py:253`), and the worktree is retired by the target of
  the stale record. A run killed while it writes the store's marker (line 180)
  leaves one with which nothing is added, registered or retired any more, and one
  killed in a task root leaves a root without a marker that stops every later
  `clean`.
  `RetiresOnlyMerged` and `ActiveRootsRetained` are therefore about commands that
  nobody interferes with, and the first goes by the record once a run was
  killed; `NothingLost` is about all.

## Proofs

All proofs are checked by TLAPS, for every value of the constants that meets
the named assumptions of the modules. Every safety property that a run checks,
invariant, action property or refinement, is also a theorem.

**Journal** (`SessionJournalProofs`). The safety properties are not inductive:
that a rename keeps identities unique follows from a scan made some steps
before. `CoreInv` joins to type and distinct orders what links the two, and
`IInv` adds unique identities:

- `LockInv`: from scan to retention a process owns the lock, so no other
  process is between these points;
- `RequestInv`: what a process writes is one of the requests, converted;
- `CommitInv`: between scan and rename the snapshot is still the directory,
  the record may be committed to it (`MayCommit`), and at the rename the
  temporary file holds exactly that record;
- `RetainInv`: what retention still has to remove is there, and a newer record
  that stays is there too.

`StepInv` reduces the preservation of `CoreInv` by a step of one process to the
process itself and to what the step does to the directory, which must be
nothing, a commit or an eviction. `CommitKeepsSound` and `EvictKeepsSound` of
`SessionRecordsProofs` show what these keep; `SurplusSparesNewest` that
retention never dooms the newest record, from the fact that the sort order is
strict and total. `DirectoryStep` then states once what any step does to the
directory, and the action properties `TerminalImmutable`, `FailClosed`,
`AdmittedIsNewest` and `RankStable` and the refinement of `SessionStore` follow
from it.

What a call tells its caller is a second invariant, `AnswerInv`, on top of
`CoreInv`. A call that ends well holds the lock until it returns, so its answer
stays true (`AnswerPart`): that gives `ReadersCurrent`. For a write the answer is
prepared by the retention loop (`RetentionPart`): the directory is the second
scan without the part of the surplus that is not doomed any more. When nothing is
doomed the directory is the foremost records of the scan, as many as the window
holds, which gives `WindowHonoured`; and if the committed record is not among
them, exactly a window of later ones is, which gives `OkMeansStored`. Both are
counting arguments: `SessionRecordsProofs` shows by finite cardinalities that
ranks in the sort order are distinct and that a window of `w` holds at most `w`
records, and exactly `w` if some record is left out.

A write that is told of a conflict holds the lock, too (`ConflictPart`). The loop
over the snapshot stopped at its own session with another content, or at another
session with its identity, and then unique identities rule out that its record is
stored under its ID (`VerdictConflict`). With `OkMeansStored` that is
`WriteAnswersTrue`: a caller that does not know whether its write took effect may
repeat it.

**Power loss** (`SessionPowerLossProofs`). `IdentityUnique` does not survive a
power loss (a removal may be undone after the identity was given away), which is
why `CoreInv` leaves it out. `PowerInv` adds `DiskInv`: no order on the disk is
larger than all in the directory, and none belongs to another session there, so
a new order is new on the disk as well; `BytesInv`: bytes are forced before the
rename; and `DamageInv`: the disk holds the damage that the directory holds. The
theorem on torn files has the hypothesis that no file was damaged at the start.
That `AnswerInv` is part of `PowerInv` gives `AnswersSurvivePowerLoss`: power
losses take away what was stored, and never make the next answers wrong.

**Registry and client calls** (`CommandRegistryProofs`). `IInv` is the
conjunction of the type and the memory invariants; they are inductive only
together. That an unregistration frees the right strings needs unique names, and
that a registration's new strings are new needs the exact heap. `RoomForOne`
proves the law of growth: where growth is possible, there is room for one entry
more. `TypeCorrect`, `ArrayBounds` and `UniqueNames` state the parts that no run
repeats.

`GraphParity` needs `ViewTrue`, that the graph a caller may still read is that of
the present registry, and that the rows name every command once. The rows that
follow the built-in ones are given by the number of entries up to them
(`RowNumber`) and not by filtering a sequence, of which nothing can be proved
without induction; `RowNumbers` shows by cardinalities that they are numbered
without gaps.

For `ClientCalls` the invariant `CallsInv` says, for each place in a call, how far
`mem` has moved from the context as the last call left it (`InCall`: the grown
array, the strings copied so far, the entry appended or removed, the graph given
up, the entries cleared) and what the call was given and has checked (`Given`).
The steps in the middle of a call leave the registry's variables alone; that the
last step of each call adds up to one step of `CommandRegistry`, a failed one
included, is `NestedCallsSerialize`, for any depth of nesting. It needs the exact
heap: that freeing the copies of a failed registration gives back the old heap
rests on these strings having been new. `ArgumentsStayLive` follows from `InCall`,
since at every step that reads an argument the graph of `mem` is still the one
the caller holds; `MemoryExactInCalls` and `GraphTrueInCalls` carry the results on
the registry over.

**Owned responses** (`OwnedResponseProofs`). `AcceptsExactly` shows that
the word-size checks decide by the true sum, for every word size and every limit
up to `SIZE_MAX`; `ViewsShowTexts` that the views, made in a second pass of the
cursor, lead to the bytes that the first pass wrote. The invariant adds
`Measured` to the checked ones: between the two steps of a copy the computed
size is the true one. Ownership and intact texts need each other's company:
`ShowsLocal` says that a response shows its texts as long as its own block is
untouched, and that a release or an allocation touches no other's block is
what ownership says.

**Setup handoff** (`SetupHandoffProofs`). That a late result does no harm is a
fact about all results under way, so `IInv` joins to type and `SingleOrigin`:

- `Ordered`: nothing has a revision that Setup has not given yet;
- `Coherent`: one revision stands for one place;
- `Numbered`: plans are numbered as they are made and have one result at most;
- `ResultsCurrent`: a result of the current plan is as new as the reference;
- `Lineage`: a binding is of the present installation or older.

From these follow `NoRollback`, `IdentityFixed` and `AnswersAgree` step by step,
the last for references of every lifecycle with its one exception as an
equivalence, and `FreshMeansUnchanged` as an invariant: equal revisions mean an equal place,
and the binding compares the verification.

**Launch readiness** (the last parts of `SetupHandoffProofs`). A step of the
composition is a step of the handoff or leaves it alone, so its invariant carries
over; with `InstanceInv` (the instance has the last binding revision) and
`LaunchInv` (what the launch plan was built for) it gives
`GraphFreshMeansUnchanged`. For `QuestionsAgree` in both directions `RecordsInv`
adds that instance and launch plan are complete records of acceptable texts, so
that all eleven checks of the graph pass (`GraphPasses`); the theorem has the
hypothesis that install IDs, which are numbers here, are acceptable identifiers.
Writing the proof showed that the property had to name the product: where Setup
misreports an install ID, an instance may be bound to the ID under one product
while the reference has it under another, and then only graph validation objects.

**Validators** (`ContractValidatorProofs`). For the character loops, for texts of
any length and every limit, the invariant says that the part of the text before
the position obeys the rule (`PrefixObeys`), that the two flags tell what the
part read so far has (`FlagsTell`), and what the entry checks have ensured
(`Entered`). At the end the part is the whole, which gives `ScanDecides`;
`ReadsInside` follows from the order of the tests.

The other validators are shown to decide what a definition of a different shape
says. `ResultDecided`: the implications of the code hold of exactly the rows of
the schema's table. `LoopInv`: of a composition whose walk has come to some
entrypoint and capability, all before them fit, for arrays of any length; the
answer is given when nothing is left or at the first that does not fit. That the
four lengths make no difference is in the statement (`CompositionsFitOrTooLong`).
`WellDecided` and `AgreeDecided`: the eleven checks of a graph, which compare in
pairs, amount to well-formed texts and one text for each identity. The graphs
and compositions are those that edits of a sound one can reach, any number of
edits, with the type of each part kept by every edit (`GraphShaped`,
`EditTyped`).

**Worktree store** (`WorktreeStoreProofs`). `NothingLost` holds whoever acts,
because git refuses, at the moment of the removal, to remove a worktree with
edits, and the tool deletes no branch (`CommitsKnown` links heads and targets to
the commits made, for branches that developers delete). What the tool knows
from earlier steps matters only for commands that nobody disturbs: `Undisturbed`
says that such a command is the only one, and that what it has found out still
holds (`RetireKnows`, `CleanKnows`), which gives `ActiveRootsRetained` and, by the
target of the record, `RetiresOnlyMerged`. That the record names the declared
target as long as no run was killed is `RecordsCurrent`: a record without its
worktree exists only while the run that removed the worktree is about to remove
it.

Only model-checked: the liveness properties `HolderReleases` and
`ClientAnswered`, as liveness under fairness is out of the prover's reach, and
that the counterexample of `overfull` exists.

## Not modelled

- the text of records, JSON and the command graph, and the sizes of the buffers
  for them;
- file names: on a case-insensitive file system two session IDs may share one
  file, and a write of one would replace the record of the other; here every
  session has its own;
- an allocator callback that copies into the destination that the outer copy is
  for;
- `struct_size` and null checks of the reference graph, and
  `ulk_setup_authority_status_get_v1`, which returns constants;
- of the worktree tool: `paths` and `doctor`, which only report; `legacy-clean`
  and `legacy-prune`, one-time migrations; linked, locked and detached
  worktrees, which every command refuses;
- the contract checkers, which are stateless scripts over the repository's
  files, and the parts that are placeholders without code.

## Plan

Done: all modules above and their proofs, in the order journal, registry, owned
responses, client calls, handoff and references, text scans and validators,
power loss and two-call readers, worktree store.

Left:

1. `OperationOutcome` in the place of the one value that stands for a terminal
   result in `SessionRecords`;
2. owned responses composed with `ClientCalls`: borrowed views copied before and
   after the calls that invalidate them.
