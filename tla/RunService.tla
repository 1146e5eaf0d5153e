------------------------------- MODULE RunService -------------------------------
(***************************************************************************)
(* The life of a run (services/run_service.py): created and queued or      *)
(* executed at once, claimed by a worker (worker.py), driven through agent *)
(* invocations under a workspace lock (locks.py), paused for approval,     *)
(* approved, rejected or cancelled.  Every handler is a sequence of storage*)
(* calls, each its own SQLite transaction; worker processes, API request   *)
(* threads and CLI processes interleave between them.                      *)
(*                                                                         *)
(* update_run_status and _decide_pending_approval read with an autocommit  *)
(* SELECT and write with a later UPDATE, so each is two steps here.        *)
(***************************************************************************)
EXTENDS Integers, Sequences, FiniteSets

CONSTANTS
    NumRuns,        \* bound: runs ever created
    MaxLoops,       \* max_loops, the same for every run
    Workers,        \* worker processes
    Creators,       \* callers that create runs
    Approvers,      \* callers that approve or reject
    Cancellers,     \* callers that cancel
    MayDie,         \* processes that may be killed
    LaunchFails,    \* _make_runner may raise
    ByHand,         \* the maintenance routes (release a lock, cancel a job) are used
    Workspace,      \* the workspace each run was created with
    NoWorkspace

Runs == 1..NumRuns
Procs == Workers \cup Creators \cup Approvers \cup Cancellers

ASSUME RunsAssumption ==
    /\ NumRuns \in Nat \ {0}
    /\ MaxLoops \in Nat \ {0}
    /\ {LaunchFails, ByHand} \subseteq BOOLEAN

RunStatus == {"CREATED", "RUNNING", "WAITING_APPROVAL", "DONE", "FAILED", "STOPPED"}
Terminal == {"DONE", "FAILED", "STOPPED"}
JobStatus == {"NONE", "QUEUED", "RUNNING", "DONE", "FAILED", "CANCELLED"}
ApprovalStatus == {"PENDING", "APPROVED", "REJECTED"}
CancellationStatus == {"REQUESTED", "COMPLETED", "FAILED"}

(* state.py, _ALLOWED_TRANSITIONS. *)
Allowed(from) ==
    CASE from = "CREATED" -> {"RUNNING", "FAILED", "STOPPED"}
      [] from = "RUNNING" -> {"WAITING_APPROVAL"} \cup Terminal
      [] from = "WAITING_APPROVAL" -> {"RUNNING"} \cup Terminal
      [] OTHER -> {}

VARIABLES
    status,         \* runs.status ("NONE": no row yet)
    gate,           \* runs.require_approval
    jobs,           \* runs in the order they were enqueued
    job,            \* run_queue.status of the run's job
    locks,          \* ACTIVE run_locks rows; ran counts agent runs since creation, up to 2
    lockId,         \* the last run_locks id given out
    approvals,      \* the statuses of the run's approvals, by id
    cancellations,  \* the statuses of the run's cancellation rows, by id
    steps,          \* number of steps recorded
    invocations,    \* number of agent invocations
    stopped,        \* history: runs set STOPPED with no other status write under way
    late,           \* history: invocations begun after that
    call            \* what each process is doing, with what it has read

runVars == <<status, gate, stopped>>
jobVars == <<jobs, job>>
lockVars == <<locks, lockId>>
agentVars == <<steps, invocations, late>>
vars == <<status, gate, jobs, job, locks, lockId, approvals, cancellations,
          steps, invocations, stopped, late, call>>

Idle == [op |-> "none", pc |-> "idle", run |-> 1, at |-> "none", to |-> "NONE",
         idx |-> 0, row |-> 0, seen |-> "NONE", raised |-> FALSE]

Init ==
    /\ status = [r \in Runs |-> "NONE"]
    /\ gate = [r \in Runs |-> FALSE]
    /\ jobs = <<>>
    /\ job = [r \in Runs |-> "NONE"]
    /\ locks = {}
    /\ lockId = 0
    /\ approvals = [r \in Runs |-> <<>>]
    /\ cancellations = [r \in Runs |-> <<>>]
    /\ steps = [r \in Runs |-> 0]
    /\ invocations = [r \in Runs |-> 0]
    /\ stopped = {}
    /\ late = [r \in Runs |-> 0]
    /\ call = [p \in Procs |-> Idle]

At(p, pc) == call[p].pc = pc
Run(p) == call[p].run
Become(p, c) == call' = [call EXCEPT ![p] = c]
Goto(p, pc) == Become(p, [call[p] EXCEPT !.pc = pc])

(* The call returns or raises; a worker then settles its queue job. *)
Leave(p, raised) ==
    Become(p, IF call[p].op = "work"
              THEN [call[p] EXCEPT !.pc = "job", !.raised = raised] ELSE Idle)

(* Call update_run_status(to); "at" says where in the handler. *)
Setting(p, at, to) == [call[p] EXCEPT !.pc = "statusRead", !.at = at, !.to = to]

Executing(p) == call[p].op \in {"sync", "work"}

--------------------------------------------------------------------------------
(* create_run_only, followed by queue.enqueue or by execute_run_step *)
CreateRun(p) ==
    /\ p \in Creators /\ At(p, "idle")
    /\ \E r \in Runs, approval \in BOOLEAN, queued \in BOOLEAN :
        /\ status[r] = "NONE"
        /\ \A k \in 1..(r - 1) : status[k] # "NONE"
        /\ status' = [status EXCEPT ![r] = "CREATED"]
        /\ gate' = [gate EXCEPT ![r] = approval]
        /\ Become(p, [Idle EXCEPT !.op = "sync", !.run = r,
                                  !.pc = IF queued THEN "enqueue" ELSE "execute"])
    /\ UNCHANGED <<stopped, jobVars, lockVars, approvals, cancellations, agentVars>>

(* Mutant: a queued run is executed at once as well. *)
EnqueueAndExecute(p) ==
    /\ At(p, "enqueue")
    /\ jobs' = Append(jobs, Run(p))
    /\ job' = [job EXCEPT ![Run(p)] = "QUEUED"]
    /\ Goto(p, "execute")
    /\ UNCHANGED <<runVars, lockVars, approvals, cancellations, agentVars>>

(* A run is enqueued by its creator only, so it has no active job yet. *)
Enqueue(p) ==
    /\ At(p, "enqueue")
    /\ jobs' = Append(jobs, Run(p))
    /\ job' = [job EXCEPT ![Run(p)] = "QUEUED"]
    /\ Become(p, Idle)
    /\ UNCHANGED <<runVars, lockVars, approvals, cancellations, agentVars>>

(* get_next_queued_job: every job has the default priority; the oldest first. *)
NextJob(r) ==
    /\ job[r] = "QUEUED"
    /\ \E i \in 1..Len(jobs) : /\ jobs[i] = r
                               /\ \A k \in 1..(i - 1) : job[jobs[k]] # "QUEUED"

ReadNextJob(p) ==
    /\ p \in Workers /\ At(p, "idle")
    /\ \E r \in Runs :
        /\ NextJob(r)
        /\ Become(p, [Idle EXCEPT !.op = "work", !.run = r, !.pc = "claim"])
    /\ UNCHANGED <<runVars, jobVars, lockVars, approvals, cancellations, agentVars>>

(* UPDATE run_queue ... WHERE id: whatever the job's status is by now. *)
MarkJobRunning(p) ==
    /\ At(p, "claim")
    /\ job' = [job EXCEPT ![Run(p)] = "RUNNING"]
    /\ Goto(p, "checkRun")
    /\ UNCHANGED <<runVars, jobs, lockVars, approvals, cancellations, agentVars>>

SkipStoppedRun(p) ==
    /\ At(p, "checkRun")
    /\ IF status[Run(p)] \in Terminal THEN Leave(p, TRUE) ELSE Goto(p, "execute")
    /\ UNCHANGED <<runVars, jobVars, lockVars, approvals, cancellations, agentVars>>

FinishJob(p) ==
    /\ At(p, "job")
    /\ job' = [job EXCEPT ![Run(p)] = IF call[p].raised THEN "FAILED" ELSE "DONE"]
    /\ Become(p, Idle)
    /\ UNCHANGED <<runVars, jobs, lockVars, approvals, cancellations, agentVars>>

(* POST /queue/{run_id}/cancel: cancels a QUEUED job and leaves the run alone. *)
CancelQueuedJob(r) ==
    /\ ByHand
    /\ job[r] = "QUEUED"
    /\ job' = [job EXCEPT ![r] = "CANCELLED"]
    /\ UNCHANGED <<runVars, jobs, lockVars, approvals, cancellations, agentVars, call>>

--------------------------------------------------------------------------------
(* update_run_status: SELECT and validate, then UPDATE.  After says where  *)
(* the handler goes on, OnError where its ValueError takes it.             *)
(* Mutant: the lock is released when the call fails, not when it succeeds. *)
AfterUnreleased(at) ==
    CASE at = "start" -> "lock"
      [] at = "resume" -> "loop"
      [] at \in {"reject", "cancel"} -> "release"
      [] OTHER -> "raise"

After(at) ==
    CASE at = "start" -> "lock"
      [] at = "resume" -> "loop"
      [] at = "refuse" -> "raise"
      [] OTHER -> "release"

OnError(at) ==
    CASE at \in {"resume", "settle"} -> "release"
      [] at = "cancel" -> "fail"
      [] OTHER -> "raise"

ReadStatus(p) ==
    /\ At(p, "statusRead")
    /\ IF call[p].to \in Allowed(status[Run(p)])
       THEN Goto(p, "statusWrite")
       ELSE Become(p, [call[p] EXCEPT !.pc = OnError(call[p].at), !.raised = TRUE])
    /\ UNCHANGED <<runVars, jobVars, lockVars, approvals, cancellations, agentVars>>

(* History only: no status that was validated before is still to be written. *)
Uncontested(p) == \A q \in Procs \ {p} : At(q, "statusWrite") => Run(q) # Run(p)

WriteStatus(p) ==
    /\ At(p, "statusWrite")
    /\ status' = [status EXCEPT ![Run(p)] = call[p].to]
    /\ stopped' = IF call[p].to = "STOPPED" /\ Uncontested(p)
                  THEN stopped \cup {Run(p)} ELSE stopped
    /\ Goto(p, After(call[p].at))
    /\ UNCHANGED <<gate, jobVars, lockVars, approvals, cancellations, agentVars>>

Raise(p) ==
    /\ At(p, "raise")
    /\ Leave(p, TRUE)
    /\ UNCHANGED <<runVars, jobVars, lockVars, approvals, cancellations, agentVars>>

--------------------------------------------------------------------------------
(* execute_run_step: refused for a run that is not CREATED or RUNNING or whose *)
(* provider profile is not runnable now; else the run is set RUNNING.          *)
Execute(p) ==
    /\ At(p, "execute")
    /\ IF status[Run(p)] \notin {"CREATED", "RUNNING"}
       THEN Leave(p, TRUE)
       ELSE \/ Become(p, Setting(p, "refuse", "FAILED"))
            \/ Become(p, Setting(p, "start", "RUNNING"))
    /\ UNCHANGED <<runVars, jobVars, lockVars, approvals, cancellations, agentVars>>

(* Mutant: SafetyBlockedError without setting the run FAILED. *)
BlockAndRaise(p) ==
    /\ At(p, "lock") /\ Executing(p)
    /\ Goto(p, "raise")
    /\ UNCHANGED <<runVars, jobVars, lockVars, approvals, cancellations, agentVars>>

(* The safety scan finds a blocked command in the prompt. *)
BlockPrompt(p) ==
    /\ At(p, "lock") /\ Executing(p)
    /\ Become(p, Setting(p, "refuse", "FAILED"))
    /\ UNCHANGED <<runVars, jobVars, lockVars, approvals, cancellations, agentVars>>

(* From the lock to its release: the try block of execute and approve. *)
Section == {"decideRead", "decideWrite", "count", "loop", "launch", "agent",
            "checkStop", "record", "createApproval", "release"}
Inside(c) ==
    /\ c.op \in {"sync", "work", "approve"}
    /\ \/ c.pc \in Section
       \/ c.pc \in {"statusRead", "statusWrite"} /\ c.at \in {"resume", "settle"}
InSection(p, r) == Inside(call[p]) /\ Run(p) = r

(* expires_at is the agent's timeout plus a grace period after the lock's  *)
(* creation: it can pass once a second agent was started, or when nobody   *)
(* is left to release the lock.                                            *)
MayBeOld(l) == l.ran = 2 \/ \A p \in Procs : ~InSection(p, l.run)

Enter(p) == [call[p] EXCEPT !.pc = IF Executing(p) THEN "count" ELSE "decideRead"]

(* acquire_lock: nothing to lock without a workspace. *)
NoLockNeeded(p) ==
    /\ At(p, "lock")
    /\ Workspace[Run(p)] = NoWorkspace
    /\ Become(p, Enter(p))
    /\ UNCHANGED <<runVars, jobVars, lockVars, approvals, cancellations, agentVars>>

(* acquire_lock expires the old locks, whoever holds them, *)
ExpireOldLocks(p) ==
    /\ At(p, "lock")
    /\ Workspace[Run(p)] # NoWorkspace
    /\ \E old \in SUBSET {l \in locks : MayBeOld(l)} : locks' = locks \ old
    /\ Goto(p, "readLock")
    /\ UNCHANGED <<runVars, jobVars, lockId, approvals, cancellations, agentVars>>

(* then reads the workspace's latest lock.  A conflict fails a run that is *)
(* executed; an approval stays PENDING.                                    *)
ReadLock(p) ==
    /\ At(p, "readLock")
    /\ LET here == {l \in locks : Workspace[l.run] = Workspace[Run(p)]}
           holder == {l.run : l \in {l \in here : \A k \in here : k.id <= l.id}}
       IN Become(p, CASE holder = {} -> [call[p] EXCEPT !.pc = "insertLock"]
                      [] holder = {Run(p)} -> Enter(p)
                      [] Executing(p) -> Setting(p, "refuse", "FAILED")
                      [] OTHER -> Idle)
    /\ UNCHANGED <<runVars, jobVars, lockVars, approvals, cancellations, agentVars>>

(* The beginning of acquire_lock. *)
AcquireLock(p) ==
    IF Workspace[Run(p)] = NoWorkspace THEN NoLockNeeded(p) ELSE ExpireOldLocks(p)

(* create_run_lock: no check, no unique index. *)
InsertLock(p) ==
    /\ At(p, "insertLock")
    /\ lockId' = lockId + 1
    /\ locks' = locks \cup {[id |-> lockId', run |-> Run(p), ran |-> 0]}
    /\ Become(p, Enter(p))
    /\ UNCHANGED <<runVars, jobVars, approvals, cancellations, agentVars>>

LocksWithout(r) == {l \in locks : l.run # r}

(* _release_workspace_lock: every ACTIVE row of the run, whoever made it. *)
Release(p) ==
    /\ At(p, "release")
    /\ locks' = LocksWithout(Run(p))
    /\ IF call[p].op = "cancel" THEN Goto(p, "complete") ELSE Leave(p, call[p].raised)
    /\ UNCHANGED <<runVars, jobVars, lockId, approvals, cancellations, agentVars>>

(* POST /locks/{run_id}/release *)
ReleaseByHand(r) ==
    /\ ByHand
    /\ \E l \in locks : l.run = r
    /\ locks' = LocksWithout(r)
    /\ UNCHANGED <<runVars, jobVars, lockId, approvals, cancellations, agentVars, call>>

(* GET /locks: expires what is old before listing. *)
ListLocks ==
    /\ ByHand
    /\ \E old \in SUBSET {l \in locks : MayBeOld(l)} :
        old # {} /\ locks' = locks \ old
    /\ UNCHANGED <<runVars, jobVars, lockId, approvals, cancellations, agentVars, call>>

(* Mutant: an approved run starts counting again. *)
CountFromZero(p) ==
    /\ At(p, "count")
    /\ Become(p, IF Executing(p) THEN [call[p] EXCEPT !.pc = "loop"]
                                 ELSE Setting(p, "resume", "RUNNING"))
    /\ UNCHANGED <<runVars, jobVars, lockVars, approvals, cancellations, agentVars>>

(* loop_index = len(get_steps_for_run(...)) *)
CountSteps(p) ==
    /\ At(p, "count")
    /\ Become(p, IF Executing(p)
                 THEN [call[p] EXCEPT !.idx = steps[Run(p)], !.pc = "loop"]
                 ELSE [Setting(p, "resume", "RUNNING") EXCEPT !.idx = steps[Run(p)]])
    /\ UNCHANGED <<runVars, jobVars, lockVars, approvals, cancellations, agentVars>>

--------------------------------------------------------------------------------
(* _drive: one invocation of the agent per turn of the loop. *)
(* Mutant: the wrong status is taken for cancelled. *)
StoppedAsFailed(r) == status[r] = "FAILED"

Stopped(r) == status[r] = "STOPPED"

CheckBeforeStep(p) ==
    /\ At(p, "loop")
    /\ Goto(p, IF Stopped(Run(p)) THEN "release" ELSE "launch")
    /\ UNCHANGED <<runVars, jobVars, lockVars, approvals, cancellations, agentVars>>

(* Mutant: _make_runner is called outside the try block. *)
LaunchErrorUnprotected(p) ==
    /\ LaunchFails
    /\ At(p, "launch")
    /\ Goto(p, "raise")
    /\ UNCHANGED <<runVars, jobVars, lockVars, approvals, cancellations, agentVars>>

LaunchError(p) ==
    /\ LaunchFails
    /\ At(p, "launch")
    /\ Become(p, [call[p] EXCEPT !.pc = "release", !.raised = TRUE])
    /\ UNCHANGED <<runVars, jobVars, lockVars, approvals, cancellations, agentVars>>

Launch(p) ==
    /\ At(p, "launch")
    /\ invocations' = [invocations EXCEPT ![Run(p)] = @ + 1]
    /\ late' = [late EXCEPT ![Run(p)] = IF Run(p) \in stopped THEN @ + 1 ELSE @]
    /\ locks' = {[l EXCEPT !.ran = IF l.run = Run(p) /\ @ < 2 THEN @ + 1 ELSE @] : l \in locks}
    /\ Goto(p, "agent")
    /\ UNCHANGED <<runVars, jobVars, lockId, approvals, cancellations, steps>>

(* The agent exits, times out, or is terminated by a cancellation made in  *)
(* this process; the runner returns a result whichever it was.             *)
AgentReturns(p) ==
    /\ At(p, "agent")
    /\ Goto(p, "checkStop")
    /\ UNCHANGED <<runVars, jobVars, lockVars, approvals, cancellations, agentVars>>

(* Mutant: > for >=. *)
OutcomesPastBound(p) ==
    {"FAILED"} \cup (IF call[p].idx + 1 > MaxLoops THEN {"DONE"}
                     ELSE IF gate[Run(p)] THEN {"WAITING_APPROVAL"}
                     ELSE {"WAITING_APPROVAL", "RUNNING"})
(* Mutant: only a risky change is gated. *)
OutcomesUngated(p) ==
    {"FAILED"} \cup (IF call[p].idx + 1 >= MaxLoops THEN {"DONE"}
                     ELSE {"WAITING_APPROVAL", "RUNNING"})

(* What the step's outcome makes of the run ("RUNNING": go on).  The agent's  *)
(* exit code and whether its changes are risky come from outside.             *)
Outcomes(p) ==
    {"FAILED"} \cup (IF call[p].idx + 1 >= MaxLoops THEN {"DONE"}
                     ELSE IF gate[Run(p)] THEN {"WAITING_APPROVAL"}
                     ELSE {"WAITING_APPROVAL", "RUNNING"})

CheckAfterStep(p) ==
    /\ At(p, "checkStop")
    /\ \E to \in IF Stopped(Run(p)) THEN {"STOPPED"} ELSE Outcomes(p) :
          Become(p, [call[p] EXCEPT !.pc = "record", !.to = to])
    /\ UNCHANGED <<runVars, jobVars, lockVars, approvals, cancellations, agentVars>>

RecordStep(p) ==
    /\ At(p, "record")
    /\ steps' = [steps EXCEPT ![Run(p)] = @ + 1]
    /\ Become(p, CASE call[p].to = "STOPPED" -> [call[p] EXCEPT !.pc = "release"]
                   [] call[p].to = "RUNNING" -> [call[p] EXCEPT !.pc = "loop", !.idx = @ + 1]
                   [] call[p].to = "WAITING_APPROVAL" -> [call[p] EXCEPT !.pc = "createApproval"]
                   [] OTHER -> Setting(p, "settle", call[p].to))
    /\ UNCHANGED <<runVars, jobVars, lockVars, approvals, cancellations, invocations, late>>

CreateApproval(p) ==
    /\ At(p, "createApproval")
    /\ approvals' = [approvals EXCEPT ![Run(p)] = Append(@, "PENDING")]
    /\ Become(p, Setting(p, "settle", "WAITING_APPROVAL"))
    /\ UNCHANGED <<runVars, jobVars, lockVars, cancellations, agentVars>>

--------------------------------------------------------------------------------
(* approve_and_continue, reject, and cancel_run from its reading on *)
PendingApprovals(r) == {i \in DOMAIN approvals[r] : approvals[r][i] = "PENDING"}
LatestPending(r) == {i \in PendingApprovals(r) : \A k \in PendingApprovals(r) : k <= i}

StartApprove(p, r) ==
    /\ p \in Approvers /\ At(p, "idle")
    /\ status[r] \in RunStatus \ Terminal
    /\ Become(p, [Idle EXCEPT !.op = "approve", !.run = r, !.pc = "pending"])
    /\ UNCHANGED <<runVars, jobVars, lockVars, approvals, cancellations, agentVars>>

(* reject does not look at the run's status. *)
StartReject(p, r) ==
    /\ p \in Approvers /\ At(p, "idle")
    /\ status[r] \in RunStatus
    /\ Become(p, [Idle EXCEPT !.op = "reject", !.run = r, !.pc = "pending"])
    /\ UNCHANGED <<runVars, jobVars, lockVars, approvals, cancellations, agentVars>>

(* Mutant: approve goes on without a pending approval. *)
ReadPendingUnchecked(p) ==
    /\ At(p, "pending")
    /\ Become(p, IF call[p].op = "approve" THEN [call[p] EXCEPT !.pc = "lock"]
                 ELSE IF PendingApprovals(Run(p)) # {} THEN [call[p] EXCEPT !.pc = "decideRead"]
                 ELSE IF call[p].op = "cancel" THEN Setting(p, "cancel", "STOPPED")
                 ELSE Idle)
    /\ UNCHANGED <<runVars, jobVars, lockVars, approvals, cancellations, agentVars>>

ReadPending(p) ==
    /\ At(p, "pending")
    /\ Become(p, IF PendingApprovals(Run(p)) # {}
                 THEN [call[p] EXCEPT !.pc = IF call[p].op = "approve" THEN "lock"
                                                                       ELSE "decideRead"]
                 ELSE IF call[p].op = "cancel" THEN Setting(p, "cancel", "STOPPED")
                 ELSE Idle)
    /\ UNCHANGED <<runVars, jobVars, lockVars, approvals, cancellations, agentVars>>

(* _decide_pending_approval: SELECT the latest pending one, then UPDATE it by id. *)
(* None is no error: the caller ignores the result and goes on.                   *)
Decided(p) ==
    IF call[p].op = "approve" THEN [call[p] EXCEPT !.pc = "count", !.idx = 0]
                              ELSE [Setting(p, call[p].op, "STOPPED") EXCEPT !.idx = 0]

DecideRead(p) ==
    /\ At(p, "decideRead")
    /\ IF PendingApprovals(Run(p)) = {}
       THEN Become(p, Decided(p))
       ELSE \E i \in LatestPending(Run(p)) :
              Become(p, [call[p] EXCEPT !.pc = "decideWrite", !.idx = i])
    /\ UNCHANGED <<runVars, jobVars, lockVars, approvals, cancellations, agentVars>>

DecideWrite(p) ==
    /\ At(p, "decideWrite")
    /\ approvals' = [approvals EXCEPT ![Run(p)][call[p].idx] =
                        IF call[p].op = "approve" THEN "APPROVED" ELSE "REJECTED"]
    /\ Become(p, Decided(p))
    /\ UNCHANGED <<runVars, jobVars, lockVars, cancellations, agentVars>>

--------------------------------------------------------------------------------
(* cancel_run.  terminate_process reaches only an agent of this process; it *)
(* makes AgentReturns happen, which may happen at any time.                 *)
StartCancel(p, r) ==
    /\ p \in Cancellers /\ At(p, "idle")
    /\ status[r] \in RunStatus \ Terminal
    /\ Become(p, [Idle EXCEPT !.op = "cancel", !.run = r, !.seen = status[r], !.pc = "request"])
    /\ UNCHANGED <<runVars, jobVars, lockVars, approvals, cancellations, agentVars>>

RequestCancellation(p) ==
    /\ At(p, "request")
    /\ cancellations' = [cancellations EXCEPT ![Run(p)] = Append(@, "REQUESTED")]
    /\ Become(p, [call[p] EXCEPT !.row = Len(cancellations'[Run(p)]), !.pc = "readJob"])
    /\ UNCHANGED <<runVars, jobVars, lockVars, approvals, agentVars>>

(* A run that was seen WAITING_APPROVAL has its pending approval rejected. *)
JobDone(p) ==
    IF call[p].seen = "WAITING_APPROVAL" THEN [call[p] EXCEPT !.pc = "pending"]
                                         ELSE Setting(p, "cancel", "STOPPED")

ReadJob(p) ==
    /\ At(p, "readJob")
    /\ Become(p, IF job[Run(p)] = "QUEUED" THEN [call[p] EXCEPT !.pc = "cancelJob"] ELSE JobDone(p))
    /\ UNCHANGED <<runVars, jobVars, lockVars, approvals, cancellations, agentVars>>

(* Mutant: the run's status is written to the job. *)
StopJob(p) ==
    /\ At(p, "cancelJob")
    /\ job' = [job EXCEPT ![Run(p)] = IF @ = "QUEUED" THEN "STOPPED" ELSE @]
    /\ Become(p, JobDone(p))
    /\ UNCHANGED <<runVars, jobs, lockVars, approvals, cancellations, agentVars>>

(* UPDATE ... WHERE run_id AND status = QUEUED: no effect on a claimed job. *)
CancelJob(p) ==
    /\ At(p, "cancelJob")
    /\ job' = [job EXCEPT ![Run(p)] = IF @ = "QUEUED" THEN "CANCELLED" ELSE @]
    /\ Become(p, JobDone(p))
    /\ UNCHANGED <<runVars, jobs, lockVars, approvals, cancellations, agentVars>>

CloseCancellation(p) ==
    /\ call[p].pc \in {"complete", "fail"}
    /\ cancellations' = [cancellations EXCEPT ![Run(p)][call[p].row] =
                            IF At(p, "complete") THEN "COMPLETED" ELSE "FAILED"]
    /\ Become(p, Idle)
    /\ UNCHANGED <<runVars, jobVars, lockVars, approvals, agentVars>>

--------------------------------------------------------------------------------
(* The process is killed: what it wrote stays, nothing more is written. *)
Die(p) ==
    /\ p \in MayDie
    /\ call[p].pc \notin {"idle", "dead"}
    /\ Become(p, [Idle EXCEPT !.pc = "dead", !.run = Run(p)])
    /\ UNCHANGED <<runVars, jobVars, lockVars, approvals, cancellations, agentVars>>

(* The next step of a call under way. *)
Continue(p) ==
    \/ Enqueue(p) \/ MarkJobRunning(p) \/ SkipStoppedRun(p) \/ FinishJob(p)
    \/ ReadStatus(p) \/ WriteStatus(p) \/ Raise(p)
    \/ Execute(p) \/ BlockPrompt(p) \/ AcquireLock(p)
    \/ ReadLock(p) \/ InsertLock(p) \/ Release(p) \/ CountSteps(p)
    \/ CheckBeforeStep(p) \/ LaunchError(p) \/ Launch(p) \/ AgentReturns(p)
    \/ CheckAfterStep(p) \/ RecordStep(p) \/ CreateApproval(p)
    \/ ReadPending(p) \/ DecideRead(p) \/ DecideWrite(p)
    \/ RequestCancellation(p) \/ ReadJob(p) \/ CancelJob(p) \/ CloseCancellation(p)

Start(p) ==
    \/ CreateRun(p) \/ ReadNextJob(p)
    \/ \E r \in Runs : StartApprove(p, r) \/ StartReject(p, r) \/ StartCancel(p, r)

Next ==
    \/ \E p \in Procs : Start(p) \/ Continue(p) \/ Die(p)
    \/ \E r \in Runs : CancelQueuedJob(r) \/ ReleaseByHand(r)
    \/ ListLocks

Spec == Init /\ [][Next]_vars

(* A call under way goes on: processes run, and every agent invocation has *)
(* a timeout.  Nobody is obliged to begin a call.                          *)
LiveSpec == Spec /\ \A p \in Procs : WF_vars(Continue(p))

--------------------------------------------------------------------------------
(* Types. *)
PCs == Section \cup {"idle", "dead", "enqueue", "execute", "claim", "checkRun", "job",
       "statusRead", "statusWrite", "raise", "lock", "readLock", "insertLock", "pending",
       "request", "readJob", "cancelJob", "complete", "fail"}

Calls == [op : {"none", "sync", "work", "approve", "reject", "cancel"}, pc : PCs,
          run : Runs,
          at : {"none", "start", "resume", "settle", "refuse", "reject", "cancel"},
          to : RunStatus \cup {"NONE"}, idx : Nat, row : Nat,
          seen : RunStatus \cup {"NONE"}, raised : BOOLEAN]

(* What the point a call is at says about the handler it is in. *)
CallOK(c) ==
    /\ c.pc \in {"claim", "checkRun"} => c.op = "work"
    /\ c.pc = "execute" => c.op \in {"sync", "work"}
    /\ c.pc \in {"lock", "readLock", "insertLock"} => c.op \in {"sync", "work", "approve"}
    /\ c.pc \in {"pending", "decideRead", "decideWrite"} => c.op \in {"approve", "reject", "cancel"}
    /\ c.pc \in {"request", "readJob", "cancelJob"} => c.op = "cancel"
    /\ c.pc = "record" => c.to # "NONE"
    /\ c.pc \in {"statusRead", "statusWrite"} =>
          c.at # "none" /\ (c.at = "start" => c.op \in {"sync", "work"})

(* Every variable holds a value of its kind, and every call is where its   *)
(* handler can be.                                                         *)
TypeOK ==
    /\ status \in [Runs -> RunStatus \cup {"NONE"}]
    /\ gate \in [Runs -> BOOLEAN]
    /\ jobs \in Seq(Runs)
    /\ job \in [Runs -> JobStatus]
    /\ locks \subseteq [id : Nat, run : Runs, ran : 0..2]
    /\ lockId \in Nat
    /\ approvals \in [Runs -> Seq(ApprovalStatus)]
    /\ cancellations \in [Runs -> Seq(CancellationStatus)]
    /\ steps \in [Runs -> Nat]
    /\ invocations \in [Runs -> Nat]
    /\ stopped \subseteq Runs
    /\ late \in [Runs -> Nat]
    /\ call \in [Procs -> Calls]
    /\ \A p \in Procs : CallOK(call[p])

(* A workspace lock never outlives the call that took it, whatever way the *)
(* call ends (done, failed, raised, cancelled under way): an ACTIVE lock's *)
(* run is inside execute_run_step or approve_and_continue, or the process  *)
(* was killed there and the lock awaits its expiry.                        *)
NoLockLeak ==
    \A l \in locks : \E p \in Procs :
        InSection(p, l.run) \/ (At(p, "dead") /\ Run(p) = l.run)

(* At most one agent at a time works on a run. *)
OneAgentPerRun ==
    \A p, q \in Procs :
        At(p, "agent") /\ At(q, "agent") /\ Run(p) = Run(q) => p = q

(* max_loops bounds the invocations of a run over all its pauses: the loop *)
(* index is recounted from the recorded steps each time it is resumed.     *)
InvocationBound == \A r \in Runs : invocations[r] <= MaxLoops

(* With require_approval, each invocation after the first has an approval *)
(* of its own, decided before it begins.                                  *)
Approved(r) == {i \in DOMAIN approvals[r] : approvals[r][i] = "APPROVED"}
ApprovalGate ==
    \A r \in Runs : gate[r] => invocations[r] <= 1 + Cardinality(Approved(r))

(* A run that was cancelled or rejected stays STOPPED and begins at most the *)
(* one invocation whose check had passed before; none follows it.  Excepted  *)
(* is a run whose STOPPED was written while another status, validated before *)
(* it, was still to be written: that one may overwrite it (TerminalIsFinal). *)
CancelledSoon == \A r \in stopped : status[r] = "STOPPED" /\ late[r] <= 1

(* The rest is promised by the docs and holds only in narrower instances than *)
(* the code runs in.                                                        *)

(* One agent at a time works in a workspace (locks.py: "one active lock per *)
(* workspace").                                                             *)
OneAgentPerWorkspace ==
    \A p, q \in Procs :
        At(p, "agent") /\ At(q, "agent") /\ Workspace[Run(p)] = Workspace[Run(q)] => p = q

(* An agent runs only while its run holds the workspace (run_service.py:389: *)
(* "Acquire the workspace lock before any runner execution").               *)
AgentHoldsLock ==
    \A p \in Procs : At(p, "agent") /\ Workspace[Run(p)] # NoWorkspace =>
        \E l \in locks : l.run = Run(p)

(* A run leaves no terminal status (state.py: "an invalid status change can *)
(* never be written to the database").                                      *)
TerminalIsFinal ==
    [][\A r \in Runs : status[r] \in Terminal => status'[r] = status[r]]_vars

(* A RUNNING run does not stay RUNNING: with its process alive it becomes *)
(* terminal or pauses for approval.                                       *)
RunsSettle == \A r \in Runs : status[r] = "RUNNING" ~> status[r] # "RUNNING"

(* A workspace lock is always given back. *)
LocksReleased == \A r \in Runs : (\E l \in locks : l.run = r) ~> (\A l \in locks : l.run # r)
================================================================================
