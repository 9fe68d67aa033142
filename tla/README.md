# Reasonix: a verification project

Reasonix (`src/`) is a coding agent written in Go: a model drives tools in a
loop, and terminals, an HTTP server, an editor protocol, a desktop window and
chat bots drive the model through one *controller* per session. This directory
holds TLA+ models of the parts of that program whose correctness depends on
the order in which goroutines, processes and users act, the TLC configurations
that check them on small instances, and TLAPS proofs of theorems about them for
every instance.

| Module | What it is |
|---|---|
| `Jobs.tla` | the background-job manager, `internal/jobs/jobs.go` |
| `JobsProofs.tla` | theorems about `Jobs` |
| `MCJobs.tla`, `MCJobs*.cfg` | its TLC instances |
| `SessionLease.tla` | the session lease, save lock and removal guard, `internal/agent/session_lease.go`, `session_lock_unix.go`, `session_removal.go` and parts of `save.go` |
| `SessionLeaseProofs.tla` | theorems about `SessionLease` |
| `MCSessionLease.tla`, `MCSessionLease*.cfg` | its TLC instances |
| `Approvals.tla` | prompts, grants and postures, `internal/control/approval.go` and the parts of `controller.go` and `turn_orchestrator.go` around them |
| `ApprovalsProofs.tla` | theorems about `Approvals` |
| `MCApprovals.tla`, `MCApprovals*.cfg` | its TLC instances |
| `Mailbox.tla` | what the job manager promises: a completion is posted once and drained once, or dropped; `Jobs` implements it |
| `SessionFile.tla` | what the locks around a session promise: one holder, one saver, a remover alone; `SessionLease` and `AcpSession` implement it |
| `DurableTranscript.tla` | what the session store promises: one transcript, saves that land whole |
| `SessionStore.tla` | the files of a session: log, anchor, index and revision ledger, `internal/agent/save.go`, `session_events.go`, `branch.go`; implements `DurableTranscript` |
| `SessionStoreProofs.tla` | theorems about `SessionStore`, the refinement among them |
| `MCSessionStore.tla`, `MCSessionStore*.cfg` | its TLC instances |
| `Snapshots.tla` | how a controller keeps its conversation on disk: saves, compactions, cancels, rewinds, rotations and the recovery of conflicts, `internal/control/controller.go` and `internal/agent` (`compact.go`, `save.go`) |
| `SnapshotsProofs.tla` | theorems about `Snapshots` |
| `MCSnapshots.tla`, `MCSnapshots.cfg` | its TLC instance |
| `AcpSession.tla` | one session id of the editor protocol: prompts, configuration changes, closes, deletions, loads, recoveries, `internal/acp/service.go` |
| `AcpSessionProofs.tla`, `AcpSessionClosingProofs.tla`, `AcpSessionLeaseProofs.tla` | theorems about `AcpSession`; each module extends the one before |
| `MCAcpSession.tla`, `MCAcpSession*.cfg` | its TLC instances |

Run a model with `tlc -workers 2 -config MCJobsSafety.cfg MCJobs`, check the
proofs of a module with `tlapm JobsProofs.tla`. Definitions in the models that
are called *Mutant* in their comment take no part in the specification: each is
a plausible bug of the definition beside it, and the property it is listed with
in `PROJECT.json` fails when it takes that definition's place.

## 1. Inventory

Paths are relative to `src/internal/` unless they start with `src/`.

### Background jobs (`jobs/jobs.go`) — modelled in the main

*State.* One `Manager`: the table of jobs and their order, the queue of
completion notes, the set of sessions being destroyed, the map from session id
to artifact directory, a root context, a wait group, the temporary artifact
root. One `Job`: a status, the session it belongs to, a cancel function, a
`done` channel, output.
*Operations.* Start, the run goroutine's end, the stall monitor, Kill, Output,
Wait, DrainCompletedNote, Running, SetActiveSessionPath and adoption,
BeginDestroySession / FinishDestroySession, Close and CloseAsync.
*Interactions.* Turns start, kill, wait for and drain jobs through tools; a
switch of session binds and adopts; servers and windows destroy sessions; the
controller closes the manager.
*Hard.* A job's end, its note and its status are separate critical sections
under two locks; monitors and goroutines outlive the calls that made them.
*Correct when.* A terminal status is final; whoever sees an end finds its note;
notes reach the session they are about and no destroyed one; a destroy forgets
no goroutine that can still write; a killed job ends; Close cleans up after,
and only after, the goroutines.

### Session lease, save lock and removal guard (`agent/session_lease.go`, `session_lock_*.go`, `session_removal.go`, `save.go`) — modelled in the main

*State.* Per session path two flock files, an info file naming the holder, an
in-process registry of owners and an in-process save mutex.
*Operations.* TryAcquireSessionLease, TryReclaimSessionLease, Release, the save
lock of every transcript write, TryLockSessionRemoval, the probe
SessionLeaseHeldByOtherRuntime, the startup sweep of stale lock files.
*Interactions.* Every process that opens the session directory: terminals,
servers, desktop tabs, the garbage collection of recovery branches.
*Hard.* The locks are on inodes and the files are unlinked; a lock is opened and
locked in two calls; processes crash.
*Correct when.* One lease, one writer, a removal alone; nobody is refused for
good; a holder can be found by looking at the info file.

### Approval manager (`control/approval.go`, `control/controller.go`) — modelled in the main

*State.* Pending prompts and their reply channels, session grants, the posture
(ask, auto, yolo), the window of an approved plan, `promptMu`, the timeout; the
executor's gate; the controller's `running`, `cancel`, `canceling`, `rotating`.
*Operations.* the gate's check, requestDecision, requestAsk, Approve, AnswerQuestion,
SetToolApprovalMode, Cancel, the begin and end of a turn, of a rotation and of the
execution of a plan.
*Interactions.* Tool calls of a turn block in it; frontends answer from other
goroutines; Cancel and a change of posture act on all of it at once.
*Hard.* Four locks, never held across two of them; a prompt that is shown can be
answered, drained, cancelled and time out at the same time.
*Correct when.* Each call is decided only by what its kind allows; a call that
waits can be ended; a cancelled turn ends; the gate is the posture's.

### Session store (`agent/save.go`, `session_events.go`, `branch.go`) — modelled in the main

*State.* A transcript in an append-only event log and a checkpoint beside it (the
*anchor*), an index of the log, a revision ledger in the branch-metadata
sidecar; in each runtime, the *baseline* it last saw on disk.
*Operations.* Save as a snapshot (append only), as a declared rewrite, or forced;
load; the repair of a torn tail; the writers of other sidecar fields.
*Interactions.* Every controller saves through it; several runtimes may have one
session open. *Hard.* A crash between any two file operations, a write that
fails or tears, a writer whose copy is stale. *Correct when.* The files are one
transcript that changes in one step; what a save reported is there; nobody
overwrites what he has not seen.

### Session snapshots and recovery (`control/controller.go`, `agent/compact.go`, `agent/save.go`) — modelled in the main

*State.* The executor's session and its rewrite version, the version last saved,
the session path, the snapshot mutex, the start index of the turn.
*Operations.* The autosave and the save at the end of a turn, compaction and
summary, cancel (with the edited prompt), rewind, new session, branch, fork,
switch, resume; adoption, recovery branch and forced save after a conflict.
*Interactions.* Runs on the session store; rotations and turns exclude each
other through the turn gate. *Hard.* Every one of these reads the session, lets
go of its lock, and acts on what it has read. *Correct when.* Nothing that has
been said or saved is lost; a save goes to the file its session belongs to.

### Turn gate (`control/controller.go`) — in part

`runGuarded`, rotation, Cancel, steering. Modelled in `Approvals` as far as prompts
and in `Snapshots` as far as saves depend on it; the queue of inputs and
steering are not.

### Session lease keeper (`control/session_lease_keeper.go`) — not modelled yet

Holds the lease of the current session, acquires the next before it releases
the last. *Correct when.* The controller never writes a session it holds no
lease of; where the HTTP server departs from that is in section 6.

### Recovery branch collection (`agent/recovery_gc.go`) — not modelled yet

Removes recovery branches whose content is elsewhere. *Correct when.* No content
is removed that exists nowhere else.

### Agent loop and sub-agents (`agent/agent.go`, `task.go`, `parallel_tasks.go`) — not modelled yet

The tool loop follows model output; what can be modelled is the batching of
read-only tools and the limits and cancellation of parallel sub-tasks.

### Goal loop (`control/goal.go`) — not modelled yet

A state machine that re-enters turns until a goal is reported done.

### Event broadcaster and HTTP server (`serve/`) — not modelled yet

Bounded fan-out of events to subscribers, with replay; handlers over the
controller. *Correct when.* A slow subscriber neither blocks a turn nor sees
events out of order.

### ACP service (`acp/service.go`) — modelled in the main

*State.* The registry of open sessions; per session a mutex, the controller, the
running turn, a maintenance under way, one queued configuration, the transcript
path and its lease; on disk the transcripts, their sidecars and the redirect from
the id to a recovery branch. *Operations.* prompt, cancel, set_config_option and
set_model, close, delete, load and resume, the handler of a recovery.
*Interactions.* Each request is a goroutine; the controller's saves call back into
the service; other runtimes hold leases in the same directory. *Hard.* A request
looks its session up and uses it later; a recovery moves a session to another
file while a close, a load or a deletion is at work on it. *Correct when.*
Whoever writes has the lease and the controller of the session; an id reopens where
it wrote last; what is deleted stays deleted; the last choice wins, and a queue drains.

### MCP plugin host (`plugin/`) — not modelled yet

Start, reconnect, and close of plugin processes and the catalogue of their tools.

### Checkpoints (`checkpoint/`) — not modelled yet

Snapshots before edits, and rewind.

### Permission policy (`permission/`) — not modelled yet

Rule precedence: a pure function, to be checked against a reference definition.

### Not planned

Hooks (sequential commands), guardian (a model's verdict), provider clients
(network; its retry schedule may become a small module), tools (file, shell and
search I/O), memory and configuration (text processing), command line, desktop
and web frontends (`src/vscode-extension`), the chat adapters, file and
language-server helpers: I/O, parsing or presentation, whose correctness does
not turn on the order of steps. Each has a row in `PROJECT.json`.

## 2. Plan

A module is written to be proved about as well as checked: parameters are
CONSTANTS with named assumptions, one action per critical section or system
call, invariants are conjunctions of named parts, no recursive operator.

Done: **Jobs**, **SessionLease**, **Approvals**; **SessionStore** with its abstract
specification **DurableTranscript** and the refinement between them; **Snapshots**,
which takes a save of one file as one step because SessionStore shows that it
is; the refinement of **Mailbox** by Jobs and of **SessionFile** by SessionLease and
AcpSession; **AcpSession**, which takes a lease as a lock because SessionLease
implements SessionFile (but for orphaned inodes), and a controller's save as one step with
three outcomes (saved, not saved, recovered), as Snapshots has it.

Left, in this order:

1. **LeaseKeeper**: the terminal's and the server's single session over
   `internal/control/session_lease_keeper.go`, with `serve`'s bind mutex; the
   divergences of section 6 under *HTTP server* are what its properties would
   have to except.
2. **RecoveryGC** on the branches `Snapshots` and `AcpSession` leave behind.
3. **JobArtifacts**: the files of a job under migration.
4. **Broadcaster**, **PluginHost**, **Checkpoint**, **GoalLoop**, **ParallelTasks**;
   **PermissionRules** as operators against a reference definition.

## 3. The models

In every model a step is what the code does without another goroutine being able to
see or change the state in between: one critical section, or one system call.
Where the code unlocks and locks again, that is two steps. *History* variables
(marked in the modules) record what has happened, for properties only. Two of
them, called `amiss`, name the flaws of section 6 as they strike; the properties
that would fail then are stated for behaviours without them, so that TLC and the
proofs show that nothing *else* breaks them.

### Jobs

| Model | Code |
|---|---|
| `pc`, `outcome`, `owner` | where the goroutine started by `StartForSession` is and its locals `status` and `parentSession` |
| `status`, `session` | `Job.status`, `Job.SessionID` |
| `table`, `completed`, `destroying`, `bound` | `m.jobs` and `m.order`, `m.completed`, `m.destroying`, the keys of `m.artifactDirs` |
| `cancelled`, `toCancel` | job contexts that are cancelled; jobs flipped to killed whose `cancel()` is called after the unlock |
| `monitor` | the goroutine of `monitorStalled` |
| `handle` | the `SessionTeardown` of a destroy under way |
| `closer`, `tempRoot` | progress of `Close` / `CloseAsync`, existence of the temporary root |
| `Start`, `Launch` | `StartForSession` up to and after the unlock |
| `RunReturns`, `Classify`, `RecordCompletion`, `Publish`, `Exit` | the goroutine: `run`, the choice of status, `recordCompletion`, the status under `j.mu`, `close(done)` |
| `MonitorTimer`, `RecordStalled`, `MonitorDone` | the stall monitor |
| `KillFlip`, `Cancel` | `KillForSession`; also the cancels of a destroy |
| `Drain`, `BindSession`, `AdoptUnscoped` | `DrainCompletedNoteForSession`, the two halves of `SetActiveSessionPath` |
| `BeginDestroySession`, `FinishDestroySession` | the same |
| `CloseCancels`, `CloseTargets`, `CloseTimesOut`, `RemoveTempRoot` | `Close` and `CloseAsync` |

*Environment assumed.* Each job is started once (ids are never reused). A
session is not bound while it is being destroyed: the callers serialise the two
under the controller's snapshot mutex and remove the session from their tables
first. Callers finish a destroy once every done channel of its handle is closed: in time
(`WaitTeardown`), or after a timeout from a goroutine that waits for the rest (`WaitAll`).
The instances have one destroying call at a time; the theorems any number, for different
or the same session (two of the same one are under *observed divergences*).
*Abstracted.* Output, artifact files and their migration (planned), ids, times
and the wording of notes.

### SessionLease

One session path. An inode is a model value; `path` says which inode each of the
two lock files is linked to, `fd` what each thread has open, `flock` who holds the
lock of each inode. `Open(t)` is `os.OpenFile(O_CREATE)`; the actions named
`...Flock` are the `flock` that follows, and `...Held` its failure. Each
operation of the code is a sequence of these: acquire (`Reserve`, open, flock,
`WriteInfo`), reclaim (open, flock, `ReclaimOwner`, `WriteInfo`), release
(`Release`, `ReleaseInfo`, `ReleaseUnlock`, `ReleaseOwner`), the startup sweep
(`Reconcile` … `SweepEnds`, with its probe `ProbeFlock` … and the retirement of both
files `RetireStart` …), save (`Save` …) and the removal guard (`Guard` …, unlinking with
`GuardUnlink`, giving up with `GuardRelease`). `Drop` is a lease whose last
reference is dropped, so that the runtime closes its file. `Crash(p)` is the end of a
process: the kernel closes its files, its memory is gone, the file system stays;
the process may come back as a new runtime.

*Assumed.* Opening with `O_CREATE` and unlinking succeed; writing the info file may
fail; the info file is written in one step. The Unix lock functions are modelled, not the Windows
ones. The sweep works on a directory listing that may be stale.

### Approvals

One controller. A *call* is one tool call (or plan, or question) that asks for an
approval; `Kind` says what it asks: `writer` and `asked` may be answered by a
posture, `trust` only by a grant or the user, `memory`, `plan` and `question` only by
the user. `pc` follows a call through the gate (`Issue`), the first check (`Check`),
`promptMu` (`LockPrompt`), the second (`Recheck`), the registration (`Register`), the
`select` on reply and context (`TakeReply`, `GiveUp`) and the grant (`Grant`).
`Approve` is the user; `SetMode`, `BuildGate`, `InstallGate`, `SendReplies` are the four
critical sections of `SetToolApprovalMode`; `Cancel`, `ClearAll`, `CancelContext`
the three of `Cancel`. `StartTurn`, `FinishTurn`, `BeginRotation`, `EndRotation` are the turn
gate, `ExecutePlan` and `PlanExecuted` the window of an approved plan.

*Abstracted.* The guardian (nil), the persisted rule (`onRemember`), deny rules
(they end before anyone is asked), the plan-mode command prefixes. `Approve` removes
the prompt and sends in one step: the send goes to a buffered channel of a prompt
nobody else can find any more. The write of the executor's gate, which the code
does without a lock, is one step. Background jobs and sub-agents run under a
gate that never asks, so every prompt comes from the turn; only read-only kinds
run beside each other, as `executeBatch` does.

### SessionStore

One session and the runtimes that have it open. The log is absent, clean, torn
(a record, then bytes that do not decode) or foreign (never written again), with
the text it replays to and how much of it an fsync has reached; the anchor is a
transcript or no file; the ledger is the sidecar's revision and content digest; the
index either records the log's size or not.

| Model | Code |
|---|---|
| `LoadMessages`, `LoadLedger` | `LoadSession`: the messages, then the sidecar, without the save lock |
| `BeginSave` | `save()` under the lock up to its first write: the repair of a torn tail, `checkSnapshotWrite`, `ownsPersistedState`, the stale-baseline test, the choice between append, replace and compaction |
| `WriteLog`, `WriteAnchor`, `Record`, `Acknowledge` | the writes in the order the code makes them, and the new baseline |
| `Tear`, `FailSave` | a write that fails, half way or before it has begun |
| `Crash`, `PowerCut` | the process dies; the machine loses what no fsync has reached |
| `TouchRead`, `TouchWrite` | `UpdateBranchMeta` and the other writers of sidecar fields, which read and write the whole sidecar without the save lock |

The three `Mode`s are `SaveSnapshot`, `SaveRewrite` and `Save`. `Unlocked` says whether
loads and sidecar writers race the saves. With `TRUE` the module is the code as it is;
with `FALSE` they wait, which is what the comments of the compare-and-swap
assume, and what the properties of the ledger need.

### Snapshots

Several controllers, one per runtime, on the files of one directory, without leases
(the recovery code is written for that case). A file is named by its root and by
what its forks held, as `recoverySessionPath` names it. A message is a set of what
it says; a digest carries the mark `Folded`.

| Model | Code |
|---|---|
| `disk`, `path`, `mem`, `base` | session files, `Controller.sessionPath`, the executor's messages, `Session.persisted` |
| `rewrites`, `saved` | `rewriteVersion`, `savedRewriteVersion` |
| `run`, `op`, `turn` | what holds the turn gate, where it is, `startMessages` |
| `snap` | the holder of `snapshotMu` and the step its save is at |
| `Autosave`, `EndTurn`, `SaveRotation` | the entries of `snapshot()`: the timer, `snapshotActivityIfChanged`, rotations |
| `Write`, `Redecide`, `Mark` | the save, the second attempt after a rewrite of its own, `markSessionRewriteVersionPersisted` |
| `NotNeeded`, `Adopt`, `Fork`, `ForceSave` | `recoverSnapshotConflict`: nothing to save, adoption of the disk's transcript, the recovery branch, the forced save at the depth cap |
| `FoldRead`, `FoldReplace`, `FoldDeclare`, `FoldAbort` | `compact.go`: read, `Replace`, `IncrementRewrite` |
| `CancelRead`, `CancelReplace`, `MarkEdited` | the strip of a cancelled turn, the mark on an edited prompt |
| `Claim`, `Rewind`, `EndRotation`, `NewSession`, `Branch`, `ForkSession`, `Boot`, `Open` | rotations and the loading of another session |
| `Crash` | the process dies; its memory is gone |

`amiss` becomes true where one of the flaws of section 6 strikes: a fold or a cancel that
replaces a session swapped under it, an adoption over a memory that has grown, a
recovery branch overwritten, a forced save over another writer, a switch that leaves
unsaved messages.

### AcpSession

One session id; each request is a goroutine whose `pc` is the step it takes next and
whose other fields are its local variables.

| Model | Code |
|---|---|
| `live`, `sess` | `service.sessions[id]`, the `acpSession` objects (`turn` for `running`, `cancel` and `done`; `maint` for `maintenanceDone`) |
| `path`, `closed` | the controllers: their session path, whether `Close` has been called |
| `lock`, `disk`, `metas`, `redirect`, `cleanup` | leases, transcripts, `.acp.json` sidecars, `ActiveTranscript`, cleanup markers |
| `Prompt` … `Finish` | `sessionPrompt`, `begin`, `RunTurn`, `persistAfterTurn`, `finish` |
| `Saved`, `NotSaved`, `Recover`, `Follow` … `Commit` | `Controller.Snapshot` and `sessionRecoveredHandler` it calls back |
| `SetConfig`, `Queue`, `Claim`, `Build`, `Swap`, `Retire`, `Unwind`, `Abandon` | `rebuildSession`, `finishMaintenance` |
| `Apply`, `Copy`, `Drop` | `applyPendingSessionConfig` |
| `Take`, `Abort`, `Waited`, `Shut`, `Release` | `sessionClose`, `abortAndWait`, `releaseSessionLease` |
| `Destroy`, `Erase`, `Twin`, `Linger`, `DeleteClosed` | `sessionDelete`, `deleteSessionFiles`, its delayed form |
| `Load`, `ResolveAgain`, `Acquire`, `Read`, `LoadMeta`, `Register` | `openExistingSession` |
| `OtherAcquires`, `OtherReleases`, `Reconcile`, `Crash` | other runtimes, `ReconcileCleanupPending`, the end of the process |

`amiss` collects the ways around the protocol the code leaves open, named in section 6:
*late*, *unfollowed*, *usurped*, *stale*, *dropped*, *stuck*, *raced*, *left*. A property
names the ones that break it, and TLC and the proofs show that no other way does.

## 4. The runs

Twelve runs; times are minutes at most, for two to four workers.

| Run | Instance | What it shows |
|---|---|---|
| `jobs_safety` | 2 jobs, 2 sessions, 1 destroyer; 1.5 M states | Statuses are final (`TerminalIsFinal`), an observed end has its note (`FinishedJobsAreNoted`), notes reach their own session (`NotesStayInTheirSession`) and none being destroyed (`DestroyedSessionsAreSilent`), a destroy forgets no live goroutine (`ForgottenJobsHaveUnwound`); the notes implement `Mailbox` (`CompletionsAreMailed`): posted once, drained once or dropped. |
| `jobs_live` | 1 job, 2 sessions, stall monitor, both forms of Close; 190 k states | A killed job ends (`KilledJobsExit`), Close removes the temporary root (`CloseCleansUp`). |
| `lease_owners` | 3 threads of 2 processes, 5 inodes: acquire, reclaim, save, guard, crash; 715 k states | The info file names the holder (`HolderIsNamed`), no owner entry is left behind (`EntriesAreUsed`), the entry of a holder stays (`HeldEntryStays`). |
| `lease_sweep` | 2 processes, every operation, drops and crashes; 39 k states | The locks implement `SessionFile` (`LocksGuard`): one lease, one saver, a remover alone, each entered when what excludes it is free. |
| `approvals_safety` | a writer, a call under an ask rule and a plan, 2 turns, 1 Cancel, 1 switcher, all postures; 4.4 M states | Each call is decided only by what its kind allows (`DecisionsAreEntitled`), one prompt at a time, of the call that holds `promptMu` (`PromptsBelongToTheHolder`), the plan window is an approved one (`WindowIsApproved`), whoever waits can be ended (`OthersAreAnswerable`), the gate is the posture's (`GateFollowsMode`). |
| `approvals_live` | an asked call, a question and a plan, 2 turns, 1 Cancel, with and without timeout; 175 k states | With a timeout every call ends though nobody answers (`CallsEnd`); a cancelled turn ends (`CancelledTurnsEnd`). |
| `store_safety` | 2 runtimes, 3 transcripts, 2 revisions, every mode, failing and torn writes, crashes, power cuts; 573 k states | The files implement one durable transcript (`PromiseKept`), only who has seen a transcript replaces it (`OverwritesAreOwned`), a rewind stays (`RewindsStayRewound`), the ledger describes the disk (`LedgerDescribesDisk`). |
| `store_resurrection` | 2 runtimes, loads without the lock | Violation: an unlocked load brings a rewound suffix back (`RewindsStayRewound`). |
| `snapshots_safety` | 2 controllers, 2 roots, 2 prompts, 2 answers, depth 1, 3 operations; 1.5 M states | Nothing said is lost (`NothingIsLost`), nothing saved is lost (`SavedMessagesStay`), a compaction is declared to the next save (`CompactionsAreDeclared`), a save keeps to its file (`SavesKeepTheirFile`), a turn that ends is on disk (`EndedTurnsAreSaved`). |
| `acp_safety` | 3 requests of any kind, 2 session objects, 4 controllers, 2 configurations, 2 branches, crash; 1.5 M states | A turn keeps its controller (`TurnsKeepTheirController`), writes are leased (`WritesAreLeased`), no lease is lost (`LeasesHaveOwners`), an id reopens where it wrote (`ReopensWhereItWrote`), a deletion lasts (`DeletedStaysDeleted`), the last choice wins (`LatestChoiceWins`); the session objects and requests of the id implement `SessionFile` (`OneWrites`). |
| `acp_live` | 3 requests (prompt, set, close), 1 session; 365 k states | A queue drains (`QueueDrains`); a close that waits returns (`ClosesEnd`). |
| `acp_wedge` | 2 set requests | Violation: a rebuild that fails leaves what was queued behind it (`QueueNeedsNoNewTurn`). |

`LocksGuard` maps `retired` to `stray`: the promise holds until some thread has locked an
inode its name had lost (section 6), which says that this is the *only* way the locks
fail; `OneWrites` maps three of the ways in `amiss` to it. In the same way `OthersAreAnswerable` excepts the calls whose prompt was dropped
by a Cancel that meant an earlier turn, and `NotesStayInTheirSession` the jobs
started without a session.

### Bounds

- *Jobs.* Two jobs and two sessions: every property relates one job to one session
  or two sessions to each other, adoption needs a job with and one without a
  session, and a destroy of one session beside a job of the other. Jobs are
  interchangeable, as are sessions (symmetry, in safety runs only). The stall
  monitor and Close multiply the states without touching the other notes, so they
  have the run with one job. Each job is started once: the bound on the number of starts.
- *SessionLease.* Each thread has at most one file of each name open, and a name is
  linked to at most one inode. Five inodes are enough: in `lease_sweep` no open ever waits for
  a free one, and in `lease_owners` none does before an orphaned inode has been locked, the
  states the properties speak of. Two processes with two threads in one of them have
  both kinds of rival, in one registry and across two. `Operation` selects what threads
  start in an instance; between them the two runs have every one.
- *Approvals.* One call per way of being decided, two turns (the second is what a late
  Cancel meets), one canceller, one switcher that switches any number of times. Two
  switchers break `GateFollowsMode` (section 6).
- *SessionStore.* Two runtimes race each other; the transcripts ⟨a⟩, ⟨a,b⟩ and ⟨b⟩ are an
  extension, a rewind and a divergence of one another, which is all a save tells apart;
  two recorded revisions let a baseline be one behind and a reuse be seen.
- *Snapshots.* `MaxOps` bounds the turns, folds, cancels, rewinds, switches and crashes of
  all controllers together. Three are a conflict (a turn in each runtime) and one thing
  that happens during it. With four the instance has 36.8 M states; it was run to the end
  once (before `ForkSession` was added) with no error. The state constraint stops at
  `amiss`, where no property claims anything. Controllers, roots, prompts and answers are symmetric.
- *AcpSession.* Two work on a session and a third comes between; two branches are a
  recovery of a recovery; two session objects are a close and the load after it. Four
  controllers are the session's and one per request, so `Build` never waits for a name.
  Run to the end once besides, with no error: four requests and one branch without
  cancel (6.9 M states), and four requests on three session objects with prompt, set,
  close and load (955 k states).

### Fairness

- `Jobs!Fairness`: goroutines of the manager go on; a `run` function returns once
  its context is cancelled, as the tools that start jobs promise; a monitor that is
  to record or whose job is over does so. A turn need not kill, drain or destroy,
  and a job that is not cancelled may run for ever.
- `Approvals!Fairness`: goroutines of calls, switches and cancels go on, a set timer
  fires, `promptMu` is handed to each waiter whenever it stays free (Go's mutexes
  do not starve), a turn whose calls are over returns. Nobody is obliged to
  answer a prompt or to press cancel.
- `AcpSession!Fairness`: the goroutine of a request that has been started goes on, and
  `RunTurn` returns once its context is cancelled (which `CancelledTurnsEnd` shows of
  a turn that waits for approvals). No request need be made, and a turn that nobody cancels may
  run for ever.
- `SessionLease`, `SessionStore` and `Snapshots` have no liveness property: their
  operations never wait for anything but a mutex.

## 5. The proofs

Each theorem is `Spec => []Inv` (or an action property, or a refinement) for any
constants that satisfy the module's assumptions. The pattern is the same everywhere:
`Init => IInv`, one step per action for `IInv /\ [Next]_vars => IInv'`, then temporal logic.

**Jobs.** `TypeCorrect`. `TerminalIsFinalHolds` needs to know that the goroutine
publishes over "running" only. `FinishedJobsAreNotedHolds` rests on
`PublishedAfterRecorded` (only the goroutine publishes done or failed, and from
`recorded` on its note exists) and on the lemma `NotesPersist`: a note, once there, is
queued, delivered or dropped for ever. `DestroyedSessionsAreSilentHolds` rests on
`WindowsHaveHandles`: a session in a destroy window is the one of some unfinished
handle and is not being bound or adopting, so `AdoptUnscoped` moves no note into it.
`ForgottenJobsHaveUnwoundHolds` rests on `HandlesCoverJobs`: a handle lists every job of
its session that was there at its begin and has not published its end, which is what
finishing the destroy waits for before it forgets them. `NotesStayInTheirSessionHolds`
rests on `NotesAreOwn`: a queued completion note carries the session captured at the start of its
job, if there was one, which only an adoption of notes *without* a session rewrites. `CompletionsAreMailedHolds`
is the refinement of `Mailbox`: a queue entry or a delivery belongs to a job that has
recorded its end (`NotesAreSingle`: at most one completion note of a job is queued, and only
when its goroutine has recorded it), which it does once, so each step of a goroutine, a drain, an adoption or a
destroy is one of `Post`, `Show`, `Drain` and `Drop`, or moves no note.

**SessionLease.** The inductive invariant is `LockInv`: types, where a thread can be
(`ControlOK`), that what it is about to lock is open (`OpenedFirst`), that the two files are
different inodes (`FilesApart`), that it holds the locks its place needs
(`LocksAreHeld`) and that a held file is the linked one (`HeldFilesAreLinked`, a theorem of
its own). The last is what makes the locks exclude: two holders of one file would hold the
same inode; it gives `LocksExcludeHolds`. `LocksGuardHolds`, the refinement of `SessionFile`,
adds what a state cannot say: a thread comes in only by a flock that succeeds
(`EntersByFlock`), so it enters alone, and exclusion before and after the step shows
that it found free what excludes it. `HeldEntryStaysHolds` follows because replacing an entry needs the lease lock.
`EntriesAreUsedHolds` has the hypothesis that no lease is dropped (a dropped lease leaves
its entry, which is what reclaim is for); `HolderIsNamedHolds` that no sweep runs, since a
sweep may remove the info of a live lease (section 6).

**Approvals.** `DecisionInv` strengthens `DecisionsAreEntitled` by `AnswersAreEntitled` (what a
posture has drained, and every reply on its way, is something its prompt may get) and
carries the types, since a reply's author becomes the decision. `PromptInv` says that
`promptMu` is held by exactly the call that is inside, that a prompt is the one of a call that
waits, and that whatever answers a prompt has taken it off first; with it
`PromptsBelongToTheHolderHolds`. `WindowInv` ties calls under way to the running turn and the
window to an execution, the execution to an approved plan. `AnswerInv` is
`OthersAreAnswerable` and that an idle switch has drained nothing. `GateInv` needs the
hypothesis that there is at most one switcher; without it the property fails (section 6).

**SessionStore.** `SaveInv` says who is inside the save lock and what its plan leaves true
after each write: the log's synced part is a prefix of it, an append is one, and from `record`
on a load returns what is being saved. With it `StoreKeepsPromise`: the initial state maps to the
initial state of `DurableTranscript`, and each action to one of its steps or a stutter (the
write that counts is `Land`, whichever file it is; a tear or a power cut is a loss of what was not
synced). `OwnInv` carries the decision of `checkSnapshotWrite` from the lock to that write, and
gives `OwnersOverwrite`. `QuietInv` needs `~Unlocked`: a revision stands for one transcript,
no baseline is ahead of the ledger, and a stale baseline is told by its revision; from it
`LedgerIsTrue` and `RewindsStay`, whose hypothesis `~Unlocked` is what `store_resurrection` shows
to be needed.

**Snapshots.** `Control` says where a controller can be (which steps a turn, a rotation and a
save leave to each other) and gives `SavesWriteTheirFile`. `Versions`: a digest the baseline
does not hold is ahead of every version a save has recorded or is about to, whichever
step the save is at; `CompactionsStayDeclared`. `Safe` relates memory, baseline, the copy
a save works from and the plan of a fold or a cancel: what any of them holds is in a file, in a
memory or discarded, and what a turn has said is behind the index it began at. It gives
`NothingSaidIsLost`, `SavedMessagesSurvive` and `EndedTurnsStay` for any number of
controllers, files, messages and operations and any recovery depth. `Versions` and `Safe` are stated up
to `amiss`.

**AcpSession.** The invariant has fifteen parts, proved in three modules. `AcpSessionProofs`: *Shape*
(what the local variables of a goroutine hold at each step; a load has its object for itself),
*Work* (a turn and a maintenance exclude each other, and the goroutine between their ends is the
one the session names), *Distinct* (no two sessions or rebuilds share a controller).
`AcpSessionClosingProofs`: *Closing* (a session being closed is out of the registry; what a close
does not wait for has ended; a controller at work is not closed), from which
`ControllersAreKept`; and, for the other modules, what each step does to leases and files, with
one lemma (`PlainSteps`, `PlainFiles`) for all the steps that leave them alone.
`AcpSessionLeaseProofs`: *Locks* (one holder per lease, also in the hands of a
recovery or a load), *Followed* (a session's controller is where its lease is, but between
`Assign` and `Commit`), *Choice* (a queue holds the last choice and somebody is on his way to apply it;
otherwise that choice is in force or being built), from which `WritesNeedLeases` and `ChoicesWin`.

Its second half is the life of an id (`LifeInv`, theorem `LifeInvariance`). Leases: *Tenure* (one goroutine
at most closes a session, which has its lease until `Release`, and that lease is the one of its transcript),
*Keys* (a lock of this process is the lease of a session, or of a recovery or a load about to assign
it), *Holding* (one session of the id has a lease, and it is the live one unless it is being closed or
opened; a recovery moves the session its save is for, and whoever closes that session waits for it).
With *Locks* and *Followed* they give `LeasesAreOwned`. Files: *Trailed* (while a save moves its session
the lease is ahead of the controller, at the branch), *Marked* (a load that works on a marked transcript
overlaps the deletion that is to remove it), *Order* (while a deletion
removes files, or some are marked, no session has a lease; the transcript a recovery moves to exists; the id resolves to
the transcript under the lease, but between `Assign` and `Redirect`, and a deletion has its path from a
resolution that still holds), *Neat* (sidecars belong to the file keyed by the id and the one it resolves to, or
are marked; after a deletion nobody has a lease and nothing unmarked is left), *Homed* (the id resolves to
the transcript written last). *Homed* is `IdsReopen`, *Neat* gives `DeletionsLast`. The
parts are needed together: *Homed* survives a save because *Order* has the id resolve to the
transcript under the lease; *Order* survives a load because *Holding* leaves no other session a lease; *Holding*
survives a recovery because whoever closes its session waits, which is *Closing*; and *Neat* survives a
deletion because *Order* says that nobody writes beside it. `OneWritesHolds`, the refinement of `SessionFile`, follows
from the same invariant: only `Read` gives a lease to a session object that had none (`OnlyReadsLease`; a
recovery moves a lease that is held), and whoever saves works on an object that has one (`SaversHold`).

The attempt changed the model three times. A deletion whose last removal
waits for a job is answered before it: `Twin` now sets `gone` for that one too. A load that resolves
the id, waits, and takes the lease of the transcript a recovery has just left was said to usurp at
`Acquire`; it does so at `Read`, where it opens the file (a lease taken for a load that then fails
harms nobody). And `ReopensWhereItWrote`, which was stated for a system at rest, turned out to hold
at every step, and is now stated so.

The bound `Kind` is arbitrary in the theorems, as are the numbers of requests, sessions,
controllers, branches and configurations.

**Only model-checked.** The liveness properties `KilledJobsExit`, `CloseCleansUp`, `CallsEnd`,
`CancelledTurnsEnd`, `QueueDrains` and `ClosesEnd`: fairness and ENABLED are beyond the prover.
Every safety property of a passing run has a theorem, and the type invariants of `Jobs`,
`SessionLease` and `AcpSession` are theorems only (`TypeCorrect`); `EntriesAreUsed`, `HolderIsNamed`, `GateFollowsMode`,
`LedgerDescribesDisk` and `RewindsStayRewound` have theirs under the hypotheses given above.

## 6. Observed divergences

Two have a violation run in section 4, with the comment they contradict quoted in
`PROJECT.json` ("findings"). The others were met while modelling; where a property
excepts one, the exception is named.

*Background jobs.*

- `jobs/jobs.go:688` shows a job as killed before its completion note is queued,
  whereas the comment at `:336` says an observer of the terminal status finds the
  note; it holds for done and failed, and when the done channel closes.
- `jobs/jobs.go:1279`: the destroy window of a session is a flag, so of two
  overlapping destroys the first to finish ends it for both. The callers in `serve`
  and the desktop do not overlap them.
- `jobs/jobs.go:338`: the note of a job that was adopted after its start carries the empty session
  captured before; a later adoption hands it to another session, whereas the comment at
  `:834` has each session drain its own (`NotesStayInTheirSession` excepts jobs started without one).
- `jobs/jobs.go:273`: `wg.Add` follows the unlock of the start, so Close may see no job,
  remove the temporary root and let the job write under it.
- `jobs/jobs.go:310` and `:900`: a migration of artifacts reads targets before it takes
  `j.mu`, and one that fails half way leaves some jobs pointing at files that have moved.

*Lease and locks.*

- `agent/session_lock_unix.go:74`: a file is opened and locked in two calls. An acquirer that
  has opened the file before the holder unlinks it locks an inode without a name,
  while the next one locks the new file: two leases at once (`LocksExclude` under `~retired`).
- `agent/save.go:1377`: the same flaw on the save lock, which the startup sweep retires by
  unlinking it while a saver may be waiting for that inode.
- `agent/save.go:1411`, `:1432`: the sweep decides on a stat and removes later, so it may remove the
  info file a new holder has just written, against the comment at `:1430` ("no owner to race
  with"); `HolderIsNamed` has no sweep in its instance and its theorem.
- `agent/session_lease.go:139`: a reclaim overwrites an owner entry another thread
  has just reserved; the reserver then fails on the lock and takes back only its own.

*Approvals.*

- `control/controller.go:1391`: Cancel clears the pending prompts after an unlock; if its turn
  has ended meanwhile, it drops the prompt of the next turn, whose call then waits for an
  answer nobody can give (`OthersAreAnswerable` excepts such calls).
- `control/controller.go:1529`: two concurrent switches of the posture may install the gates in
  the other order than the postures (`GateFollowsMode` has one switcher).
- `control/controller.go:4578`: between the last check of the posture and the
  registration of its prompt, a switch to yolo finds nothing to drain, and the
  prompt stays on the screen under yolo.
- `control/controller.go:4542`: the session grant is recorded after `promptMu` has been
  released; a queued call of the same scope may get a second prompt.
- `control/approval.go:291`: the auto posture's drain looks at the subject that is displayed,
  the gate decides over all subjects of a call.
- Session grants survive `NewSession` on the same controller.

*Session store.*

- `agent/save.go:1089`: a load reads the messages and then the revision, without the save lock; a
  rewind saved in between is undone by the loader's next append (`store_resurrection`). The
  writers of other sidecar fields read and write back the whole sidecar without the lock,
  and may put an older revision over a newer one; the same follows.
- A ledger without a digest (written by an older version, or lost) makes the
  compare-and-swap of `ownsPersistedState` blind; and a transcript that changed and changed
  back is taken for unchanged.
- `agent/branch.go:212`: the sidecar is renamed into place without an fsync. A power cut that
  leaves it unreadable makes every later save of that session fail before its first write.

*Snapshots* (where one of these can lose something, `amiss` becomes true):

1. `control/controller.go:522`: `markEditedForNewUser` replaces the messages without a new
   rewrite version, so the only writer of a session forks a recovery branch from itself.
2. `snapshot()` returns early for a session without content: a rewind to nothing is
   not saved, and the next save diverges from the disk.
3. `snapshotActivityIfChanged` compares lengths: when a compaction within the turn left fewer
   messages than at its start the save is skipped, whereas the comment at `controller.go:2769`
   has compactions saved.
4. `controller.go:3078` (and Resume, which has no gate) swaps the session under a running turn;
   `agent/agent.go:673` says this happens only while idle.
5. `controller.go:2336`: the Replace of a rewind is outside `snapshotMu`.
6. `agent/compact.go:276`: a save between Replace and IncrementRewrite takes the rewrite for a
   conflict.
7. The start index of a turn means nothing after a compaction within it.
8. `agent/save.go:618`: a recovery branch of the same name that has grown since is overwritten, and the
   forced save at the depth cap assumes it is the only writer of the branch.
9. When `onSessionRecovered` refuses, the baseline is the branch's and the path still the original's.
10. The forced save skips `markSessionRewriteVersionPersisted` (harmless: one more rewrite).
11. The in-flight marker is cleared before the deferred final save; Resume during a turn leaves it on
    the old file. (Not modelled.)

*ACP service* (in brackets, the names in `amiss`):

- [late] A close never marks the session object, so a prompt or a change that looked it up before
  the close begins on a closed controller, without the lease.
- [unfollowed] A save that recovers while its session is being closed finds no session in the
  registry: the handler returns nil, and the controller goes to a branch without a lease and without a
  redirect, whereas `acp/service.go:310-319` has the lease follow. If the id has been opened again, the
  *other* session is moved to the branch.
- [usurped] The lease of the transcript a recovery leaves is released before the redirect is written:
  a load that resolved the id before opens the old transcript (set when it reads the file while the id
  resolves to another or a session of the id has a lease), and its sidecar write removes the redirect. Two loads at once replace one another in the registry, and the lease of the first is lost.
- [stale], [dropped] An applier works from a copy of the queue: it may apply an older choice over a later
  one, and after a failure drop a later one that had been accepted.
- [stuck] A rebuild that fails with something queued behind it leaves it there, and every prompt is refused
  until the next change (`acp_wedge`).
- [raced] A deletion of an id that is being closed is answered before the closing turn saves it again; a load
  that reads while a deletion removes brings the files back. A deletion asks no lease of other
  runtimes.
- [left] A session recovered twice leaves the sidecar of its first branch behind when it is deleted: the id
  is listed again and cannot be deleted by it, against `service.go:1143-1146`. TLC found this in 27
  steps. A crash between the write of a branch and that of its redirect leaves an orphan file likewise.
- `switchSessionModel` and `switchSessionEffort` start from the configuration in force, not from the queued one: a
  model and then an effort chosen during one turn revert the model. (Configurations are opaque
  in the model.)

*HTTP server* (not modelled):

- `serve/serve.go:517`: a submitted `/new`, `/clear`, `/branch` or `/switch` changes the controller's path without
  `bindMu` and without a rebind of the lease (`control/controller.go:847-913`), against the comments at
  `serve.go:38-43` and `:165` and the test at `serve_lease_test.go:177-183`; so does a recovery during a turn.
- A rebind that is refused after `NewSession` or `Fork` leaves the controller on a path it has no lease of.
- `deleteSession` takes no `bindMu`; a prompt submitted between `switchModel`'s test for a running turn and its swap
  runs on a controller that is then closed.
- A destroy is finished before the session's files are removed, whereas the comment near
  `control/controller.go:3318` has the window last until they are gone.

## 7. Not modelled

Inside the modelled components:

- *Jobs*: output and artifact files, and their migration.
- *Lease*: torn info files, failing opens and unlinks, Windows locking.
- *Approvals*: the guardian, persisted rules, several frontends answering with different ids.
- *Session store*: the repairs `NormalizeSession` makes on load, the swap of a leading system prompt, a sidecar that
  cannot be read, the copy fallback on Windows, renames and cleanup of session files.
- *Snapshots*: in-flight-turn markers, `ClearSession`, failing writes (they are in `SessionStore`), the guardian's
  session, the prune of a cold resume; leases between the controllers.
- *ACP*: `session/list`, the replay of a history, `closeAll` at the end of the connection, MCP server
  specs, the wire format; what a configuration consists of.

Elsewhere: the components marked "not modelled yet" or "not planned" in section 1. The larger part of the
repository's lines are there: the desktop application, the terminal interface, chat adapters, provider clients
and tools are presentation, parsing and I/O, in which no order of steps of several actors is at stake that the
models above do not already have as environment.
