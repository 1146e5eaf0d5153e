# AutoPromptRunner in TLA+

AutoPromptRunner drives coding agents (Claude Code, Codex) against local
repositories. It does so in two ways that share one SQLite database:

* **runs**: a prompt is executed by an agent process, the result generates the
  next prompt, which a user approves or rejects, until `max_loops`, a failure
  or a cancellation ends the run;
* **prompt queues**: prepared prompts are pasted one at a time into the desktop
  app; the user marks each complete before the next.

Several processes work on that database at once: API request threads, CLI
invocations, worker processes. There are no long transactions. Every storage
function opens its own connection, and a function that reads and then writes
reads outside the transaction of its write. Git trees, the clipboard and the
focused window are shared besides, and are no part of any transaction. What the
services promise therefore rests on the order of single statements and commands,
and that is what these modules are about.

## Parts of the system

| part (under `src/src/autoprompt_runner/`) | state | operations | hard about it | correct when | here |
|---|---|---|---|---|---|
| prompt queue: `prompt_queue.py` | queue status; prompt status and position | create, delete, add, reorder, inject, complete, skip, pause, resume, cancel | reorder beside an active prompt; exceptions and crashes inside an injection; check-then-mark | one active prompt, one delivery per prompt, queue and prompts finish together, order kept | `PromptQueue`, `PromptQueueCalls` |
| app targets, injection, window detection: `app_targets.py`, `app_injection.py`, `window_detection.py` | target row with fingerprint; the clipboard, the focus | edit, verify, backup, copy, paste, submit, restore | one desktop for all; verified once, pasted later | pasted once, checked, clipboard kept for a manual paste | `Injection` |
| run service: `services/run_service.py` | `runs`, `steps` | create, execute, approve, reject, cancel, drive loop | cancellation and approval under a running loop; failures inside the locked section | bounded, gated, stoppable, gives its lock back | `RunService` |
| state machine, approvals, locks: `state.py`, `approvals.py`, `locks.py` | `runs.status`, `approvals`, `run_locks` | validate and write; decide; acquire, release, expire | the read is not in the write's transaction; the TTL | one approval per invocation, no lock leak | `RunService` |
| queue and worker: `queue.py`, `worker.py` | `run_queue`, `worker_heartbeats` | enqueue, claim, complete, fail, cancel; poll | claim is read-then-mark | a job runs once | `RunService`, `Reconcile` |
| cancellation, processes: `cancel.py`, `processes.py` | `run_cancellations`; registry of local agents | request, terminate, complete | only reaches agents of the same process | the loop stops soon, the record closes | `RunService`, `Reconcile` (not the registry) |
| reconciliation: `reconcile.py` | rows of the others | five passes: runs, jobs, locks, cancellations, workers | acts on what it listed before; staleness by age | what a crash left behind is cleared | `Reconcile` |
| recovery: `recovery.py` | `recovery_attempts` | propose, approve, reject, execute | executed twice; failed half way | one recovery per failure | `Recovery` |
| checkpoints, commits: `checkpoints.py`, `commits.py`, `git_utils.py` | `run_checkpoints`, `run_commits`; tree, index, history | capture, plan, roll back; review, propose, commit | git is not under the workspace lock | records true; reviewed secrets out | `GitWorkspace` |
| events: `events.py`, `api/routes/events.py`, `LiveLogPanel.tsx` | `run_events`; a connection; the panel | emit, stream, drain, poll | the status comes before its event | no gap; the end is told | `EventStream` |
| projects, export, import: `projects.py`, `export_import.py` | `projects`, default setting, all tables | create, delete, set default; export, import | torn reads and half imports; ids reused | copies hang together; the default was chosen | `Catalog` |
| worktrees: `worktrees.py` | `worktrees`; directories, branches | create, archive, remove | two stores, no transaction; git timeouts | row and directory agree; runs keep theirs | `Worktrees` |
| inputs: `resolve_run_inputs`, `settings.py`, `config.py`, `providers.py`, `safety.py` | files, environment | resolve, validate | precedence over five sources | accepted means creatable; the gate opens on request only | `RunInputs` |
| views: `chains.py`, `compare.py`, `search.py`, run logs; `templates.py` | none | build, compare, page, render, seed | several reads beside a running agent | complete once the run is over | `RunViews` |
| storage: `storage.py` | the database | one function per statement | torn read-and-write | | what the above use |
| CLI, API | none of their own | call the services | | | as callers |
| prompt generator, auth, rest of the frontend, scripts | none | text, checks, pages | | | no |

Components call each other directly. `RunService` calls locks, storage, safety,
the generator and a runner. A worker reconciles when its session begins and
calls `execute_queued_run`; recovery creates runs and queues or executes them;
the API and the CLI call everything, from a thread or a process of their own. The
only shared state is the database, the git repositories and the desktop, apart
from the in-process registry of agent processes and the in-process event bus.

## Modules

| module | what it is |
|---|---|
| `PromptQueue` | one queue, every operation of `prompt_queue.py` one atomic step: what a single client is promised |
| `PromptQueueCalls` | the same operations as sequences of storage calls by concurrent clients that may die; instantiates `PromptQueue` with a refinement mapping |
| `RunService` | runs, jobs, locks, approvals, cancellations; every handler a sequence of storage calls by workers, creators, approvers, cancellers |
| `Reconcile` | extends `RunService` with time, crashes, restarts, worker sessions and reconciliations |
| `Recovery` | recovery attempts and the runs made for them |
| `GitWorkspace` | one repository with runs, rollbacks, commits and its user |
| `EventStream` | the log of one run: writers, server, panel |
| `Injection` | one target and one desktop under several injections and editors |
| `Catalog` | projects and the default; an export and imports of it |
| `Worktrees` | worktree rows beside git's directories |
| `RunInputs`, `RunViews` | pure operators |
| `RunInputsChecks`, `RunViewsChecks` | their properties over small inputs, as `ASSUME`s that TLC evaluates with the runs `worktrees` and `event_stream` |
| `MC...` | constants and symmetry for TLC |
| `PromptQueueProofs` | proofs about `PromptQueue` and `PromptQueueCalls` |
| `RunServiceProofs` | proofs about `RunService` and `Reconcile` |
| `CatalogProofs` | proofs about `Catalog` and `RunInputs` |
| `RecoveryProofs`, `GitWorkspaceProofs`, `EventStreamProofs`, `InjectionProofs`, `WorktreesProofs` | proofs about the module each is named after |

Conventions: `call[p]` is what a caller is doing, its program counter and what it
has read; an action is one storage call, git command or desktop operation; an
`UPDATE` of a row that is gone has no effect. A mutant is an operator beside the
definition it mutates, marked "Mutant", that models a plausible bug.

### PromptQueue and PromptQueueCalls

`queue`, `started`, `status`, `position` are the columns of `prompt_queues` and
`queued_prompts` that decide anything; `target` is the status of the bound app
target. `delivered` is a history variable: how often a prompt was put on the
clipboard for the app. `NONE` and `DELETED` stand for a missing row. Prompt ids
are handed out in increasing order, because `ORDER BY position, id` breaks ties
with them. There is one action per operation; the trailing `_advance_queue` of
complete and skip is part of them. Injection has one action per way it can end:
`InjectSubmitted`, `InjectRefused` (an `InjectionError`, which the code undoes)
and `InjectAborted` (any other exception, or death, which nothing undoes).
`SUBMITTED`, and `FAILED` as the status of a queue or a prompt, exist as
constants in the code but `prompt_queue.py` never writes them; `TypeOK` says so.

In `PromptQueueCalls` the refinement mapping takes each operation at one of its
writes. Adding, finishing and cancelling happen at their first write, and what
they still have to write is added to the mapped state. Injecting happens at its
last, and what it wrote is taken back until then: only there is known which of
the three injection actions it was. A lone client implements `PromptQueue` under
this mapping. Two do not, and are checked against invariants instead.

### RunService and Reconcile

The variables are the tables: `status` and `gate` (`runs.status`,
`require_approval`), `jobs` and `job` (`run_queue`), `locks` (the ACTIVE rows of
`run_locks`), `approvals` and `cancellations`, `steps` (number of rows).
`invocations`, `stopped` (runs set STOPPED while no other status was still to be
written) and `late` (invocations begun after that) are history variables.

* `update_run_status` is `ReadStatus` and `WriteStatus`, because Python's
  `sqlite3` begins the transaction with the `UPDATE`. The same holds for
  `_decide_pending_approval` and for `claim_next_job`. `OnError` says where a
  refused transition leads: inside the `try ... finally` to the release of the
  lock, inside `cancel_run` to the failed cancellation, elsewhere out of the
  handler.
* Taking the lock is `ExpireOldLocks`, `ReadLock` and `InsertLock`, each a
  connection of its own. A lock may be expired by others as soon as that is possible at
  all: when a second agent was started under it, since the TTL is one agent
  timeout plus a grace period, or when no process is in the locked section. That
  assumes the steps between agents take less than the grace period of 300 s.
* The agent (`Launch`, `AgentReturns`) runs until it exits, times out or is
  terminated, so it may return at any time. Its exit code, and whether its
  changes are risky, are choices of `Outcomes`.
* The maintenance routes (release a lock, list locks, cancel a queued job) are
  actions of their own, enabled by `ByHand`.

`Reconcile` adds ages as sets of runs and jobs that are older than their timeout
plus grace (`GrowOld`, `JobGrowsOld`), heartbeats that are fresh or not, sessions
of workers, and reconcilers that list the stale rows of a pass and repair them
one by one. A run's age is counted from its creation, as the code does, so a
live run may be listed; a write refused because the row has changed meanwhile
ends the reconciliation, as the exception does.

### Recovery, GitWorkspace, EventStream

`Recovery` has the attempts as a sequence, their links, and per run only its
outcome: what executing a run does is `RunService`. An execution may be refused,
break off after the agent began (`ExecuteBreaks`, which leaves the attempt FAILED
and its run as it was), raise, or be killed; `cut` marks attempts whose execution
ended like that with its run under way, or was overwritten.

`GitWorkspace` has git as it is used: commits are trees with a parent, a tree
gives each file a content, an edit makes a new content, so "this content was there
for the review" is a question about numbers. `git status` shows a folder without a
tracked file as one line (`StatusLines`), and adding that line adds what is in the
folder. Any command may fail; killed by its timeout of 30 seconds it may have had
its effect, a reset a part of it; a reading command that fails returns nothing,
which the code takes for a clean tree, an empty index or no hash. Rollback is plan,
reset, mark; a commit is review of the run, of the files and of the lock, record,
add, staged check, commit, hash, mark. The user edits, stages and commits at any
time.

`EventStream` has the writers of one run's status, an executor and operators that
cancel or reconcile it. Each of them validates against the status it reads
(`Validates`), writes it whatever it is by then (`Write`) and emits the event
(`Emit`, which may fail). Then the server's loop (read a batch, yield it, read the
status, drain, end), and the panel, with polls under way as the set of statuses
they will answer with. `undone` is history: a final status that was written over.

### Injection, Catalog, Worktrees

`Injection` is `inject_current_prompt` from its first read to its last write with
the desktop in between; `clipboard` and `copied` (what was last copied by
anyone) are what a manual paste depends on. `own` says that nobody but the call
itself moved focus, target or clipboard since it began.

`Catalog` has a source database that a run keeps writing while an export reads it
table by table, and a target database that imports it, once or again, in any mode,
dying anywhere. Importers overlap: the route runs in a thread pool and the command
line in a process of its own, and nothing is locked. The runs that exist are read
once, when an import begins. Project ids are the largest plus one, as SQLite hands
out `INTEGER PRIMARY KEY`, so they are used again after a deletion.

`Worktrees` has rows, trees and branches; `torn` marks the paths where a kill, a
git timeout or a raced insert came between the two stores. git may fail for any
reason, leave the new branch without a directory, or be killed with the directory
half checked out or half deleted.

### RunInputs and RunViews

`RunInputs` is the way from files, environment, flags, project, profile and
request to the settings of a run: records in which a key that was not given is
absent, overlaid in the code's order. A project without `require_approval` is one
whose row is older than that column: it holds NULL, which reads as false
(`RequiresApproval`). `Verdict` is `resolve_run_inputs`,
`Creates` the backstop in `create_run_only`.

`RunViews` takes a run as the sequence of its writes and a view as an operator
on what each of its statements read, at non-decreasing moments: the prompt chain
(six statements), the logs (four), comparison, search pages, template rendering
and seeding.

## Runs

| run | instance | what it shows |
|---|---|---|
| `prompt_queue` | 4 prompts, added at 0, 2 or the end, moved to -1, 1, 2, 9 | one active prompt, one delivery, queue and prompts finish together, finished prompts stay, only PENDING prompts move, deletion is complete |
| `queue_calls_one_client` | 4 prompts, 1 client | the sequences of storage calls implement `PromptQueue`; a queue is worked off in order if prompts are moved to its end only |
| `queue_calls_two_clients` | 2 prompts, 2 clients, one injects, both may die | still one active prompt; no status claims or denies a delivery wrongly |
| `runs_one_worker` | 2 runs, one workspace, max_loops 2; a worker and an operator who creates, approves, rejects, cancels, either killed anywhere; launch errors; maintenance | types; locks belong to a call under way; a cancelled run stays so and begins at most one more invocation, unless another status was still to be written |
| `reconcile_crash` | 1 run without workspace, max_loops 2; worker, operator, administrator, one crash | one agent per run, at most max_loops invocations, an approval per further one, although reconciliations fail live runs |
| `reconcile_live` | 1 run, max_loops 1, cancellations, launch errors, one crash, fairness | what was left RUNNING, open or locked is cleared |
| `recovery` | 3 runs, 2 attempts, an executor that may die, a decider | links, EXECUTED, no double recovery but after an execution that was killed, broke off or was overwritten |
| `git_workspace` | a plain file, a secret-like one in a folder, 1 run, a rollback, a commit, 2 edits, 3 commits, 1 checkpoint, 1 record | COMMITTED means a commit; reviewed secrets that were listed stay out |
| `event_stream` | an executor and an operator, batches of 2, 2 outputs or pauses, 1 dropped connection, 2 switches, 1 poll at a time, fairness | no gap; told only when final and the end is told, unless the end is written over; `RunViews` over runs of 2 steps |
| `injection` | 2 queues, 1 editor that may die, 2 windows, 2 modes, with and without automation, 1 move | pasted once, checked, manual paste works, fingerprint current |
| `catalog` | 2 names, 2 ids, at most 2 runs and 1 step in all, 2 importers, 2 imports with `merge` or `skip_existing`, deaths | the default was chosen; copies hang together; no duplicate; refused only if torn |
| `worktrees` | 2 projects, 1 name, 2 branches, 2 creators, 1 remover, 2 runs, kills, git failures and timeouts | rows and trees agree; active runs keep their tree; `RunInputs` over 6 kinds of sources |

**Bounds.** Four prompts are one finished, one active, one ready and one pending,
with every order between them; the positions -1 and 9 are beyond both ends, 0 and 2
collide with positions handed out at the end. Two prompts suffice for two clients,
since every race is about two rows or about one row and the queue. Two runs compete
for one workspace and one job queue. `max_loops` 2 has a first, a last and a gated
invocation. A run of `reconcile_crash` has no workspace: locks are re-entrant for
their run, so with a single run they exclude nobody, and `reconcile_live` has the
locks. One crash at a time: a second one (checked once, in 3.5 minutes) shows
nothing more. Three runs in `recovery` are a source, its recovery and one more; a
recovery can itself be recovered. Batches of two make a log of a handful of events
overflow the final drain. Two injecting queues share the desktop, and one user's
move during a call is enough to race with any of its steps. One checkpoint and one
record are enough for a rollback and a commit to meet, with a third commit for
somebody else's; broken promises need no more. Polls on their way hold one status at
a time, which may be an older one than a new connection shows; that answers of
different statuses overtake each other is left to the theorem about `ToldWhenFinal`.
`replace_templates_only` treats runs as `merge` does. Two ids and two names reuse an
id after a deletion. One name that two projects want gives two paths and one row to
race for; two branches let a directory be made again after it was removed, and two
runs be under way in the old one, the new one or both. `MaxDelivered`, `MaxEdits`,
`MaxCommits`, `MaxRecords`, `MaxCheckpoints`, `MaxEvents`, `MaxSwitches`,
`MaxDrops`, `MaxPolls`, `MaxMoves`, `MaxImports`, `MaxRuns`, `MaxSteps`, `MaxId` and
`MaxCrashes` bound otherwise unbounded counters, in the guards. Deadlock is not
checked: queues, runs and imports come to an end, and what was killed may stay dead.

**Who runs beside whom.** `runs_one_worker` has one process of each kind and the
operator does one thing at a time, so two concurrent calls at most;
`queue_calls_two_clients` has one injecting client; `injection` one editor;
`recovery` one executor; `event_stream` an executor and one operator; `catalog` one
administrator and two importers; `worktrees` one remover;
`git_workspace` one rollback and one commit at a time.
With more some properties fail, and the next section says which and how.

**Fairness.** `ReconcileLiveSpec` asks weak fairness of time, of each worker's next
step or restart, and of calls that have begun: storage calls return, the agent has a
timeout after which the runner kills it, and the workers are one-shot (`worker run
--once`) and started again and again. A worker that polls forever reconciles only
when its session begins, so it would leave the rows as they are until it is
restarted. Nobody is obliged to begin a call or to type `system reconcile`.
`EventStream!LiveSpec` asks it of the server's loop and of the panel's timers and
answers; the run and the user owe nothing.

## Promises the code does not keep

Each property here says what a document or a comment of the repository says, and
the code breaks it. They are not among the runs above, which all pass; the
configuration named is the smallest instance that breaks the property, for the MC
module of the property's own module, and TLC answers with the trace:
`tlc -config RunServiceFinal.cfg MCRunService`.

| configuration | property | promise | what happens |
|---|---|---|---|
| `PromptQueueReady.cfg` | `PromptQueue!ReadyAfterCompletion` | `prompt_queue.py:13`: the user must mark a prompt complete before the next becomes READY_TO_INJECT | a PENDING prompt is moved in front of the waiting one and skipped; the skip readies a third |
| `PromptQueueTwoInjectors.cfg` | `PromptQueueCalls!OneActive` | `prompt_queue.py:12`: only one prompt per queue may be active | two injections check before either marks, and a prompt is moved to the front between their reads |
| `RunServiceTwoAgents.cfg` | `RunService!OneAgentPerWorkspace` | `locks.py:5`: one active lock per workspace | both read no lock, both insert one |
| `RunServiceFinal.cfg` | `RunService!TerminalIsFinal` | `state.py:5`: an invalid status change can never be written | STOPPED, validated against RUNNING, is written over FAILED |
| `RunServiceTwoApprovals.cfg` | `RunService!InvocationBound` | `PROJECT.md:128`: not more than `maxLoops` agent invocations | both saw the approval pending; the second's decision finds none, which approve ignores, and both drive the run |
| `RunServiceUnlocked.cfg` | `RunService!AgentHoldsLock` | `run_service.py:389`: runner execution happens under the workspace lock | an approval right after WAITING_APPROVAL is written reuses the lock the worker is about to release |
| `RunServiceLaunch.cfg` | `RunService!RunsSettle` | `PROJECT.md:116`: a launch error transitions to FAILED | the exception passes the `finally`, which releases the lock; the run stays RUNNING until a reconciliation |
| `RollbackForce.cfg` | `GitWorkspace!ForceGate` | `README.md:958`: rollback refuses when there were uncommitted changes, unless forced | a `git status` that fails reads as clean, and so the checkpoint says |
| `CommitHash.cfg` | `GitWorkspace!HashIsSet` | `models.py:281`: `commit_hash` is set once a commit succeeds | git is killed after it committed and the record says FAILED, or the hash cannot be read |
| `CommitSecrets.cfg` | `GitWorkspace!SecretsBlock` | `README.md:1020`: a commit is blocked when a secret-like file would be committed | the file is in a new folder, which is one line of `git status` and one argument of `git add` |
| `ImportOverlap.cfg` | `Catalog!SkipsWhatExists` | `README.md:1436`: `skip_existing` does not duplicate runs | two imports read which runs exist before either inserts |

Without launch errors and crashes `RunsSettle` and `LocksReleased` hold under
`RunService!LiveSpec`. More races and surprises the modules show or were built
around:

*Queues.* A prompt added, readied or reverted while
a queue is being cancelled stays live in it (`:354`). A prompt moved in front of
the waiting one hides it from complete-current (`:298`).

*Runs.* A rejection between `create_approval` and the write of WAITING_APPROVAL
leaves a run waiting without a pending approval (`run_service.py:794`). An
approval beside a cancellation executes the next prompt although the approval was
rejected (`:496`). A job cancelled between a worker's read and its mark is claimed
all the same (`storage.py:1427`). An auto-run of several invocations outlives its
lock's TTL (`locks.py:58`). `reconcile.py:10-11` says the
heartbeat tells a live worker from a crashed one, but `detect_stale_runs` counts
from `created_at` and looks at no heartbeat: a run that waited long for its
approval is failed under its agent.

*Recovery.* Two executions at once create two runs. So does executing a FAILED
attempt again whose run had begun: `_make_runner` may raise for a later iteration
(`run_service.py:613`), which makes the attempt FAILED (`recovery.py:249`) and leaves
its run RUNNING. A decision that arrives late overwrites EXECUTED.

*Git.* A checkpoint reads HEAD and status separately. Neither rollback nor commit
takes the workspace lock: edits, commits and runs between the plan of a rollback
and its reset are discarded whatever the checkpoint says. Content is added after it
was reviewed, and git commits the whole index. A failed commit leaves its files
staged. A rollback may cut off a commit whose record says COMMITTED. The hash of a
record may be somebody else's later commit.

*Events.* The stream may close before the terminal event is written, and
`stale_run_failed` is not among the events the panel listens to; polling covers
both. A canceller's `run_stopped` is told and the connection torn down although a
worker's RUNNING, validated before, is then written over STOPPED: the run goes on,
and its real end is not told. A poll of a run that is CREATED ends polling for good.
Overlapping polls may show an older status last, and a poll of a run shown before
tears down the new connection.

*Injection.* Focus may move between the check and the paste, and between paste
and submit. The docs ask for a confirmation always; with `confirm_before_inject`
off the code asks for none. `last_verification_status` survives edits. Two
editors can leave the fingerprint of the older fields, and an update under way
when its target is deleted writes to the next target with that id.

*Catalog.* A project that a worktree or an imported run refers to cannot be
deleted. An export filtered by `--project` has no runs, because the program
never links a run to a project. `replace_templates_only` deletes before it
inserts: a death in between loses the template. A half import tried again with
`skip_existing` never brings the missing steps, with `merge` it brings the runs
twice. Imported WAITING_APPROVAL runs can be approved. A deletion that dies
between row and setting gives the default to a project created later.

*Worktrees.* The branch outlives its worktree, so creating the same pair again is
refused. Two removals with a creation in between can take the new directory. An
archive by an id read before may archive another row. A CREATED run is not
counted as active. A run of a provider that needs no workspace is accepted in a
missing directory. An orphaned directory blocks its path; a row without directory
can neither be used nor removed.

*Inputs.* `defaults.require_approval` and a profile's `default_timeout` (but for
the runner) are read and not used. Hard limits are taken at import, not from
`--config`. A profile named "mock" of another type gets no repository as its
fallback workspace. The built-in `max_loops` is 1 in `projects.py`, 5 in
`settings.py`. Asking for the settings of a run again without its project can
drop its approval gate.

*Views.* A chain or log read as DONE or FAILED is complete; one read as STOPPED
may still get its last step. A chain may count an approval it does not show, and
logs may show the previous step's output under the next step's number. Offset
paging misses rows when a limit above the maximum is clamped under the client's
stride, or rows fall out of the filter. Rendering replaces placeholders one after
the other, also inside values, which `templates.py:76` calls literal. Profiles
that a forced seeding resets are counted as skipped.

## Proofs

The proofs hold for every number of prompts, runs, rows and processes, all
positions, modes and bounds, and every choice of the switches, and assume only
what the `ASSUME`s of the modules state. Where a property is about few callers,
its theorem says so in its hypotheses (`OneWorker`, `OneInjector`, `OneAdmin`,
...). Those are not there for the prover: with more callers the property is
false, and "Promises the code does not keep" says by which interleaving. What
the hypotheses leave open (how many other processes, who is killed and where)
the theorem covers. Every invariant and every action property of the runs has a
theorem; how the arguments go:

**PromptQueue** (`PromptQueueProofs`). `TypeOK`, `OneActive`, `FinishedTogether`,
`DeliveredOnce` and `NoOrphans` are proved together as one inductive
invariant, `IInv`, because they need each other: a new row can only join
`DeliveredOnce` when a prompt without a row was never delivered, which is
`NoOrphans`. `OneActive` needs that injection looks at all prompts and not only
at the current one; `FinishedTogether` needs that finishing the last live prompt
is exactly when `_advance_queue` closes the queue. `OrderStable` rests on a lemma
about `Renumbered`: the new positions follow the old order among all prompts but
the moved one, because the rank of a prompt among the others is monotone.

**PromptQueueCalls** (`PromptQueueProofs`). Any clients, any deaths: `CallsInv` says
per program counter what a call has read that cannot have become false. It rests on
`Kept`, what each write leaves true for the calls beside it: a deleted queue stays
deleted, a prompt goes only with its queue and is PENDING again never, deliveries
are not taken back. That is enough for the types and `HistoryIsTrue`. With one
injector `ActiveInv` adds that between its check and its mark no prompt is active,
and after the mark no other is: nobody else makes a prompt active. A lone client
that is not killed is back at the atomic queue: `LoneInv` says that what it has read
still holds, and with it every storage call is a step of `PromptQueue` or a stutter
(`LoneClientSeesAtomicOperations`). On the mapped statuses `Orderly` (what is ahead
of a prompt is finished, or the prompt is PENDING) is inductive if prompts are
appended and moved to the end only, which gives `WorkedOffInOrder`. The queue has to
be looked at through the mapping here: between the writes of one operation the rows
are not orderly.

**RunService** (`RunServiceProofs`, first part). `TypeOK` and `NoLockLeak` for
any processes. `NoLockLeak` alone is not inductive: that a call at a given
program counter belongs to a certain handler (`CallOK`, a part of `TypeOK`) is
needed to see that a step out of the locked section always passes `Release`: a
refused `update_run_status` at `"resume"` or `"settle"` leads to the release, and
no other write of the status happens while the lock is held. A lock is removed
for all its run's rows at once, so the first release removes those of every call.

*After a cancellation* (second part). `CancelledSoon` for any number of runs and
two processes: `StopInv` says that a run in `stopped` is STOPPED and no status of it
is about to be written, that whoever is about to start its agent is the only one
past the check, and that after an agent was started late nobody is. The writer of
STOPPED is the only process beside the driver, so no third one can hold an older
status; what the driver itself had validated before is the exception that the
property names and by which `TerminalIsFinal` fails.

*Who drives a run* (third part). `DriveOK` is an argument about a token. A run
that may still be driven has exactly one: its row nobody has started, its job in
the queue, its one driver, or its one pending approval. A driver's program
counter says how far its loop index, the number of step rows and the number of
invocations may be apart (one, while the agent works), and how many approvals
have been granted. With one worker, and one operator who creates, decides and
cancels, the token is never doubled: `OneAgentPerRun`, `InvocationBound` and
`ApprovalGate`, for any number of runs and loops. `ReconcileInvariance` carries
this over to `Reconcile`, with sessions, crashes, restarts and any number of
reconciliations: `DriveOK` uses of a run's status only whether it has one, and
what a reconciliation is about to write (`RecOK`) is a status over a run that
has one. A status overwritten under a live driver thus gives nobody a second
token.

**Recovery.** `LinkInv`, for any callers: links and origins point at attempts
and runs that exist, and what an attempt recovers was made for an earlier attempt
if for any (`LinksLeadForward`). `HandInv`, for one executor: an attempt that is not
EXECUTED and not in `cut` has no run under way but the one its execution has just
handed over. `ExecutedIsHandedOver` and `NoDoubleRecovery` follow.

**GitWorkspace.** `GitInv` says of each record that its commit, if git made one, is
in the history of its hash or was cut off, and added no secret-like content that
was listed by its review (`RecordOK`), of each client what it still knows
(`ClientOK`), and that no two clients commit one record (`OwnRecords`). Histories are
the least hereditary sets of commits, so that no recursion is needed to reason
about a reset. `Kept` is what every git command, whole, failed or killed, and every
edit leaves true: commits are never changed, and work that leaves the history of
HEAD is in `cut`. With `Kept` each action's proof is about its own client,
checkpoint or record only.

**EventStream.** `StreamInv`, for any operators: the panel has seen exactly the
events up to the last one the server sent (`NoGap`), and as long as no final status
was written over by an active one, no terminal event is in the log or owed before
the status is final (`FinalFirst`), which `ToldWhenFinal` needs.

**Injection.** `PasteInv`, for any queues, editors and deaths: the step an injection
is at says how often its prompt was pasted (`PastedSoFar`); a call nobody has
disturbed still passes the checks it made and finds the clipboard as it left it
(`OnItsOwn`); a prompt still to be copied is neither on the clipboard nor in a
backup of it (`NowhereYet`); and what a call saved to restore is not its own prompt
(`BackupIsOthers`). The last one is for `ClipboardIsGivenBack`, which no run states.
`PastesAreChecked` is an action property. `PrintInv`, for one editor: an update that
read back the row it wrote holds the fingerprint of that row.

**Catalog.** `CopyInv`, for any callers of the project routes and any imports: what
the id maps of each import under way say is true of both databases, and while one is
alone, every copied run was there when it began or is its own (`KnownOK`), hence
`SkipMakesNoDuplicate`. Rows of a run are only added, so a copy once made stays a
copy, and an import that is refused was given an export with a reference to a row
that is not in it. `DefaultInv`, for one administrator: a caller that looked a
project up still finds it, so the default is the chosen project. With two, an id
that is used again after a deletion gives the default to a project nobody chose.

**Worktrees.** `CallInv` (types, and what a removal has counted) holds for any
callers and gives `RunsKeepTheirTree`. `TreeInv`, for one remover: a removal owns
the id and path of one row (`Owned`); a creation between git and the table is
alone at its path, has its directory there, and a row of that path is about to
be dropped (`Recording`); a directory found where a removal took one away is a
new creation's (`Removed`). `RowsHaveTrees` and `TreesHaveRows` follow, up to the
paths of calls that were killed there.

**RunInputs** (`CatalogProofs`, because a project decides what its runs get). For
any tables, settings, requests and limits: what `resolve_run_inputs` accepts
`create_run_only` creates (`AcceptedRunsCanBeCreated`), also for a recovery
(`RecoveriesCanBeCreated`); a project shields its runs from the configuration but
for the limits (`ProjectsShieldTheirRuns`); only a request or a project, by FALSE or
by the NULL of an old row, switches the approval gate off
(`GateOpensByRequestOnly`); valid settings are never refused over limits made of
them (`ValidSettingsAreAccepted`); and asking for the settings a run was given, with
its project, gives the same run (`NothingIsResolvedTwice`). They are statements
about operators, by the cases in which a key is given.

**Model-checked only.** Liveness, which is out of the prover's reach: `EndIsTold`
of the event stream, and `StaleRunsSettle`, `StaleJobsSettle`,
`CancellationsClose` and `StaleLocksFreed` of `reconcile_live`. All of `RunViews`:
what it computes by folding over a sequence would be induction over data.
The refinement of `PromptQueue` by several clients or by one that may die is
not claimed at all; it does not hold.

## Plan

The modules above and the safety proofs are done. What is left:

1. The types of `Reconcile`'s own variables (`ReconcileTypeOK`), which no theorem
   above needs beyond `RecOK`.
2. `InOrder` for `PromptQueue!Spec` itself, where it needs only `Orderly`.
3. Shorter proofs where a lemma about program counters is repeated from module
   to module.

## Not modelled

The prompt generator (text only), the token check and schema validation of the
API, the rest of the frontend, which fetches and shows, and the scripts keep no
state that a protocol depends on. The registry of agent processes
(`processes.py:77`) has one known race: the terminated mark, set after the
runner has cleared it, stays and would make the run's next invocation look
cancelled. Which text a safety pattern matches, how a platform names its active
window, and the wording of messages and previews are abstracted to their outcomes.
