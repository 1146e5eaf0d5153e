---------------------------- MODULE RunServiceProofs ----------------------------
(***************************************************************************)
(* Proofs about RunService and Reconcile, in three parts.                  *)
(* Types and locks: any number of runs and processes, whatever they do     *)
(* side by side and wherever they are killed.                              *)
(* After a cancellation: any number of runs, two processes.                *)
(* Who drives a run: any number of runs, one worker and one operator, with *)
(* the crashes, restarts and reconciliations of Reconcile beside them.     *)
(***************************************************************************)
EXTENDS Reconcile, FiniteSetTheorems, SequenceTheorems, TLAPS

IInv == TypeOK /\ NoLockLeak

(* A call may go from c to d: d is a call, and it leaves the section only  *)
(* by dying there.                                                         *)
Fine(c, d) ==
    /\ d \in Calls
    /\ CallOK(d)
    /\ Inside(c) => d.run = c.run /\ (Inside(d) \/ d.pc = "dead")

(* What a step of p does to the calls when it is fine. *)
CallsFine(p) ==
    /\ call' \in [Procs -> Calls]
    /\ \A q \in Procs : CallOK(call'[q])
    /\ \A q \in Procs : q # p => call'[q] = call[q]
    /\ Fine(call[p], call'[p])

(* A process that goes from its record to a fine one takes a fine step. *)
LEMMA BecomeFine ==
    ASSUME TypeOK, NEW p \in Procs, NEW d, Fine(call[p], d), Become(p, d)
    PROVE  CallsFine(p)
BY DEF TypeOK, Fine, CallsFine, Become

(* A call's record is typed and where its handler can be. *)
LEMMA CallTyped ==
    ASSUME TypeOK, NEW p \in Procs
    PROVE  call[p] \in Calls /\ CallOK(call[p])
BY DEF TypeOK

(* A call that goes on with or without an exception stays a call. *)
LEMMA RaisedTyped ==
    ASSUME NEW c \in Calls, NEW pc \in PCs, NEW raised \in BOOLEAN
    PROVE  [c EXCEPT !.pc = pc, !.raised = raised] \in Calls
BY DEF Calls

(* Going on to a point every handler passes is fine, if a call inside the  *)
(* section stays there.                                                    *)
LEMMA MoveFine ==
    ASSUME NEW c \in Calls, NEW d \in Calls, d.op = c.op, d.run = c.run,
           d.pc \in {"job", "raise", "fail", "release", "loop"},
           Inside(c) => d.pc \in {"release", "loop"}
    PROVE  Fine(c, d)
<1>1. CallOK(d)
  BY DEF CallOK
<1>2. Inside(c) => Inside(d)
  BY DEF Inside, Section
<1>. QED  BY <1>1, <1>2 DEF Fine

(* Where a call can go from outside the section. *)
LEMMA IdleFine ==
    ASSUME NEW c, ~Inside(c)
    PROVE  Fine(c, Idle)
BY RunsAssumption DEF Fine, Idle, Calls, CallOK, PCs, Section, RunStatus, Runs

(* Returning or raising is fine outside the section. *)
LEMMA LeaveFine ==
    ASSUME TypeOK, NEW p \in Procs, NEW raised \in BOOLEAN, ~Inside(call[p]), Leave(p, raised)
    PROVE  CallsFine(p)
<1>1. CASE call[p].op = "work"
  <2>0. [call[p] EXCEPT !.pc = "job", !.raised = raised] \in Calls
    BY CallTyped, RaisedTyped DEF PCs
  <2>1. Fine(call[p], [call[p] EXCEPT !.pc = "job", !.raised = raised])
    <3> DEFINE d == [call[p] EXCEPT !.pc = "job", !.raised = raised]
    <3>1. call[p] \in Calls /\ d \in Calls
      BY <2>0, CallTyped
    <3>2. d.op = call[p].op /\ d.run = call[p].run /\ d.pc = "job"
      BY <3>1 DEF Calls
    <3>. QED  BY <3>1, <3>2, MoveFine
  <2>. QED  BY <1>1, <2>1, BecomeFine DEF Leave
<1>2. CASE call[p].op # "work"
  BY <1>2, IdleFine, BecomeFine DEF Leave
<1>. QED  BY <1>1, <1>2

(* Where a status update begins. *)
LEMMA SettingFine ==
    ASSUME TypeOK, NEW p \in Procs,
           NEW at \in {"start", "resume", "settle", "refuse", "reject", "cancel"},
           NEW to \in RunStatus,
           at = "start" => Executing(p),
           Inside(call[p]) => at \in {"resume", "settle"}
    PROVE  Fine(call[p], Setting(p, at, to))
<1>1. call[p] \in Calls /\ CallOK(call[p])
  BY CallTyped
<1>2. /\ Setting(p, at, to) \in Calls
      /\ Setting(p, at, to).pc = "statusRead" /\ Setting(p, at, to).at = at
      /\ Setting(p, at, to).op = call[p].op /\ Setting(p, at, to).run = call[p].run
  BY <1>1 DEF Setting, Calls, PCs
<1>3. CallOK(Setting(p, at, to))
  BY <1>2 DEF CallOK, Executing
<1>4. Inside(call[p]) => Inside(Setting(p, at, to))
  BY <1>2 DEF Inside
<1>. QED  BY <1>2, <1>3, <1>4 DEF Fine

(* An update refused within the section goes to its release. *)
LEMMA ReadStatusFine ==
    ASSUME TypeOK, NEW p \in Procs, ReadStatus(p)
    PROVE  CallsFine(p)
<1>0. call[p] \in Calls /\ CallOK(call[p])
  BY CallTyped
<1>1. CASE call[p].to \in Allowed(status[Run(p)])
  <2>1. Fine(call[p], [call[p] EXCEPT !.pc = "statusWrite"])
    BY <1>0 DEF ReadStatus, At, Fine, Calls, CallOK, PCs, Inside, Section
  <2>. QED  BY <1>1, <2>1, BecomeFine DEF ReadStatus, Goto
<1>2. CASE call[p].to \notin Allowed(status[Run(p)])
  <2>1. OnError(call[p].at) \in {"release", "fail", "raise"}
        /\ (call[p].at \in {"resume", "settle"} => OnError(call[p].at) = "release")
    BY DEF OnError
  <2>3. [call[p] EXCEPT !.pc = OnError(call[p].at), !.raised = TRUE] \in Calls
    BY <1>0, <2>1, RaisedTyped DEF PCs, Section
  <2>4. Inside(call[p]) => call[p].at \in {"resume", "settle"}
    BY DEF ReadStatus, At, Inside, Section
  <2>2. Fine(call[p], [call[p] EXCEPT !.pc = OnError(call[p].at), !.raised = TRUE])
    BY <1>0, <2>1, <2>3, <2>4, MoveFine DEF Calls
  <2>. QED  BY <1>2, <2>2, BecomeFine DEF ReadStatus
<1>. QED  BY <1>1, <1>2
(* The worker goes on to look at the run. *)
LEMMA MarkJobRunningFine ==
    ASSUME TypeOK, NEW p \in Procs, MarkJobRunning(p)
    PROVE  CallsFine(p)
<1>1. Fine(call[p], [call[p] EXCEPT !.pc = "checkRun"])
  BY CallTyped DEF MarkJobRunning, At, Fine, Calls, CallOK, PCs, Inside, Section
<1>. QED  BY <1>1, BecomeFine DEF MarkJobRunning, Goto

(* The creator returns. *)
LEMMA EnqueueFine ==
    ASSUME TypeOK, NEW p \in Procs, Enqueue(p)
    PROVE  CallsFine(p)
<1>1. ~Inside(call[p])
  BY DEF Enqueue, At, Inside, Section
<1>. QED  BY <1>1, IdleFine, BecomeFine DEF Enqueue

(* The worker returns to its poll. *)
LEMMA FinishJobFine ==
    ASSUME TypeOK, NEW p \in Procs, FinishJob(p)
    PROVE  CallsFine(p)
<1>1. ~Inside(call[p])
  BY DEF FinishJob, At, Inside, Section
<1>. QED  BY <1>1, IdleFine, BecomeFine DEF FinishJob

(* The canceller returns. *)
LEMMA CloseCancellationFine ==
    ASSUME TypeOK, NEW p \in Procs, CloseCancellation(p)
    PROVE  CallsFine(p)
<1>1. ~Inside(call[p])
  BY DEF CloseCancellation, At, Inside, Section
<1>. QED  BY <1>1, IdleFine, BecomeFine DEF CloseCancellation

(* The driver stays in the section when its agent ends. *)
LEMMA AgentReturnsFine ==
    ASSUME TypeOK, NEW p \in Procs, AgentReturns(p)
    PROVE  CallsFine(p)
<1>1. Fine(call[p], [call[p] EXCEPT !.pc = "checkStop"])
  BY CallTyped DEF AgentReturns, At, Fine, Calls, CallOK, PCs, Inside, Section
<1>. QED  BY <1>1, BecomeFine DEF AgentReturns, Goto

(* The driver stays in the section when it starts an agent. *)
LEMMA LaunchFine ==
    ASSUME TypeOK, NEW p \in Procs, Launch(p)
    PROVE  CallsFine(p)
<1>1. Fine(call[p], [call[p] EXCEPT !.pc = "agent"])
  BY CallTyped DEF Launch, At, Fine, Calls, CallOK, PCs, Inside, Section
<1>. QED  BY <1>1, BecomeFine DEF Launch, Goto

(* Killed in the section, the process counts as the one that died there. *)
LEMMA DieFine ==
    ASSUME TypeOK, NEW p \in Procs, Die(p)
    PROVE  CallsFine(p)
<1>. DEFINE d == [Idle EXCEPT !.pc = "dead", !.run = Run(p)]
<1>1. call[p] \in Calls /\ Run(p) \in Runs
  BY CallTyped DEF Run, Calls
<1>2. d \in Calls /\ d.pc = "dead" /\ d.run = Run(p)
  BY <1>1 DEF Idle, Calls, PCs
<1>3. Fine(call[p], d)
  BY <1>1, <1>2 DEF Fine, CallOK, Run
<1>. QED  BY <1>3, BecomeFine DEF Die

(* _make_runner's exception passes through the finally clause. *)
LEMMA LaunchErrorFine ==
    ASSUME TypeOK, NEW p \in Procs, LaunchError(p)
    PROVE  CallsFine(p)
<1>1. [call[p] EXCEPT !.pc = "release", !.raised = TRUE] \in Calls
  BY CallTyped, RaisedTyped DEF PCs, Section
<1>2. Fine(call[p], [call[p] EXCEPT !.pc = "release", !.raised = TRUE])
  <2> DEFINE d == [call[p] EXCEPT !.pc = "release", !.raised = TRUE]
  <2>1. call[p] \in Calls /\ d \in Calls
    BY <1>1, CallTyped
  <2>2. d.op = call[p].op /\ d.run = call[p].run /\ d.pc = "release"
    BY <2>1 DEF Calls
  <2>. QED  BY <2>1, <2>2, MoveFine
<1>. QED  BY <1>2, BecomeFine DEF LaunchError

(* A worker is not in a section before it executes. *)
LEMMA SkipStoppedRunFine ==
    ASSUME TypeOK, NEW p \in Procs, SkipStoppedRun(p)
    PROVE  CallsFine(p)
<1>1. ~Inside(call[p])
  BY DEF SkipStoppedRun, At, Inside, Section
<1>2. Fine(call[p], [call[p] EXCEPT !.pc = "execute"])
  BY CallTyped DEF SkipStoppedRun, At, Fine, Calls, CallOK, PCs, Inside, Section
<1>. QED  BY <1>1, <1>2, LeaveFine, BecomeFine DEF SkipStoppedRun, Goto

(* An exception that ends a call is raised outside the section. *)
LEMMA RaiseFine ==
    ASSUME TypeOK, NEW p \in Procs, Raise(p)
    PROVE  CallsFine(p)
<1>1. ~Inside(call[p])
  BY DEF Raise, At, Inside, Section
<1>. QED  BY <1>1, LeaveFine DEF Raise

(* Only the updates of the section lead back into it. *)
LEMMA WriteStatusFine ==
    ASSUME TypeOK, NEW p \in Procs, WriteStatus(p)
    PROVE  CallsFine(p)
<1>0. call[p] \in Calls /\ CallOK(call[p])
  BY CallTyped
<1>1. /\ After(call[p].at) \in {"lock", "loop", "raise", "release"}
      /\ After(call[p].at) = "lock" => call[p].at = "start"
      /\ call[p].at \in {"resume", "settle"} => After(call[p].at) \in {"loop", "release"}
  BY DEF After
<1>2. Fine(call[p], [call[p] EXCEPT !.pc = After(call[p].at)])
  BY <1>0, <1>1 DEF WriteStatus, At, Fine, Calls, CallOK, PCs, Inside, Section
<1>. QED  BY <1>2, BecomeFine DEF WriteStatus, Goto

(* execute_run_step refuses or sets the status before its section. *)
LEMMA ExecuteFine ==
    ASSUME TypeOK, NEW p \in Procs, Execute(p)
    PROVE  CallsFine(p)
<1>1. ~Inside(call[p]) /\ Executing(p)
  BY CallTyped DEF Execute, At, Inside, Section, CallOK, Executing
<1>2. Fine(call[p], Setting(p, "refuse", "FAILED")) /\ Fine(call[p], Setting(p, "start", "RUNNING"))
  BY <1>1, SettingFine DEF RunStatus
<1>. QED  BY <1>1, <1>2, LeaveFine, BecomeFine DEF Execute

(* A blocked prompt is refused before the section. *)
LEMMA BlockPromptFine ==
    ASSUME TypeOK, NEW p \in Procs, BlockPrompt(p)
    PROVE  CallsFine(p)
<1>1. ~Inside(call[p])
  BY DEF BlockPrompt, At, Inside, Section
<1>2. Fine(call[p], Setting(p, "refuse", "FAILED"))
  BY <1>1, SettingFine DEF RunStatus
<1>. QED  BY <1>2, BecomeFine DEF BlockPrompt

(* Entering the section; holds at the lock, its reading and its insertion. *)
LEMMA EnterFine ==
    ASSUME TypeOK, NEW p \in Procs, call[p].pc \in {"lock", "readLock", "insertLock"}
    PROVE  Fine(call[p], Enter(p)) /\ Inside(Enter(p)) /\ Enter(p).run = Run(p)
<1>0. call[p] \in Calls /\ CallOK(call[p])
  BY CallTyped
<1>1. CASE Executing(p)
  BY <1>0, <1>1 DEF Executing, Enter, Run, At, Fine, Calls, CallOK, PCs, Inside, Section
<1>2. CASE ~Executing(p)
  BY <1>0, <1>2 DEF Executing, Enter, Run, At, Fine, Calls, CallOK, PCs, Inside, Section
<1>. QED  BY <1>1, <1>2

(* Without a workspace the section begins without a lock. *)
LEMMA NoLockNeededFine ==
    ASSUME TypeOK, NEW p \in Procs, NoLockNeeded(p)
    PROVE  CallsFine(p)
BY EnterFine, BecomeFine DEF NoLockNeeded, At

(* The lock's creator is in the section. *)
LEMMA InsertLockFine ==
    ASSUME TypeOK, NEW p \in Procs, InsertLock(p)
    PROVE  CallsFine(p)
BY EnterFine, BecomeFine DEF InsertLock, At

(* acquire_lock goes on to its SELECT. *)
LEMMA ExpireOldLocksFine ==
    ASSUME TypeOK, NEW p \in Procs, ExpireOldLocks(p)
    PROVE  CallsFine(p)
<1>0. call[p] \in Calls /\ CallOK(call[p]) /\ ~Inside(call[p])
  BY CallTyped DEF ExpireOldLocks, At, Inside, Section
<1>1. Fine(call[p], [call[p] EXCEPT !.pc = "readLock"])
  BY <1>0 DEF ExpireOldLocks, At, Fine, Calls, CallOK, PCs, Inside, Section
<1>. QED  BY <1>1, BecomeFine DEF ExpireOldLocks, Goto

(* acquire_lock returns, raises or goes on to its INSERT. *)
LEMMA ReadLockFine ==
    ASSUME TypeOK, NEW p \in Procs, ReadLock(p)
    PROVE  CallsFine(p)
<1>0. call[p] \in Calls /\ CallOK(call[p]) /\ ~Inside(call[p])
  BY CallTyped DEF ReadLock, At, Inside, Section
<1>1. Fine(call[p], [call[p] EXCEPT !.pc = "insertLock"])
  BY <1>0 DEF ReadLock, At, Fine, Calls, CallOK, PCs, Inside, Section
<1>2. Fine(call[p], Enter(p))
  BY EnterFine DEF ReadLock, At
<1>3. Fine(call[p], Setting(p, "refuse", "FAILED"))
  BY <1>0, SettingFine DEF RunStatus
<1>4. Fine(call[p], Idle)
  BY <1>0, IdleFine
<1>5. PICK d : Become(p, d) /\ d \in {[call[p] EXCEPT !.pc = "insertLock"], Enter(p),
                                      Setting(p, "refuse", "FAILED"), Idle}
  BY DEF ReadLock
<1>. QED  BY <1>1, <1>2, <1>3, <1>4, <1>5, BecomeFine

(* Counting leads to the loop or to RUNNING, in the section. *)
LEMMA CountStepsFine ==
    ASSUME TypeOK, NEW p \in Procs, CountSteps(p)
    PROVE  CallsFine(p)
<1> DEFINE n == steps[Run(p)]
<1>0. call[p] \in Calls /\ CallOK(call[p]) /\ n \in Nat
  BY CallTyped DEF TypeOK, Run, Calls
<1>1. CASE Executing(p)
  <2>0. [call[p] EXCEPT !.idx = n, !.pc = "loop"] \in Calls
    BY <1>0 DEF Calls, PCs, Section
  <2>1. Fine(call[p], [call[p] EXCEPT !.idx = n, !.pc = "loop"])
    BY <1>0, <2>0, MoveFine DEF Calls
  <2>. QED  BY <1>1, <2>1, BecomeFine DEF CountSteps
<1>2. CASE ~Executing(p)
  <2>1. Fine(call[p], Setting(p, "resume", "RUNNING"))
    BY SettingFine DEF RunStatus
  <2>2. Fine(call[p], [Setting(p, "resume", "RUNNING") EXCEPT !.idx = n])
    BY <2>1, <1>0 DEF Fine, Calls, CallOK, Inside
  <2>. QED  BY <1>2, <2>2, BecomeFine DEF CountSteps
<1>. QED  BY <1>1, <1>2

(* A stopped run leads to the release. *)
LEMMA CheckBeforeStepFine ==
    ASSUME TypeOK, NEW p \in Procs, CheckBeforeStep(p)
    PROVE  CallsFine(p)
<1>1. \A pc \in {"release", "launch"} : Fine(call[p], [call[p] EXCEPT !.pc = pc])
  BY CallTyped DEF CheckBeforeStep, At, Fine, Calls, CallOK, PCs, Inside, Section
<1>2. \E pc \in {"release", "launch"} : Become(p, [call[p] EXCEPT !.pc = pc])
  BY DEF CheckBeforeStep, Goto
<1>. QED  BY <1>1, <1>2, BecomeFine

(* Every outcome is recorded within the section. *)
LEMMA CheckAfterStepFine ==
    ASSUME TypeOK, NEW p \in Procs, CheckAfterStep(p)
    PROVE  CallsFine(p)
<1>1. PICK to \in RunStatus : Become(p, [call[p] EXCEPT !.pc = "record", !.to = to])
  BY DEF CheckAfterStep, Outcomes, RunStatus
<1>2. call[p] \in Calls /\ CallOK(call[p]) /\ call[p].pc = "checkStop"
  BY CallTyped DEF CheckAfterStep, At
<1>3. [call[p] EXCEPT !.pc = "record", !.to = to] \in Calls
  BY <1>2 DEF Calls, PCs, Section
<1>4. CallOK([call[p] EXCEPT !.pc = "record", !.to = to])
  BY <1>2 DEF Calls, CallOK, RunStatus
<1>5. Inside(call[p]) => Inside([call[p] EXCEPT !.pc = "record", !.to = to])
  BY <1>2 DEF Calls, Inside, Section
<1>6. Fine(call[p], [call[p] EXCEPT !.pc = "record", !.to = to])
  BY <1>2, <1>3, <1>4, <1>5 DEF Fine, Calls
<1>. QED  BY <1>1, <1>6, BecomeFine

(* A recorded step leads on, to an approval, to a status or to the release. *)
LEMMA RecordStepFine ==
    ASSUME TypeOK, NEW p \in Procs, RecordStep(p)
    PROVE  CallsFine(p)
<1> DEFINE n == call[p].idx + 1
<1>0. /\ call[p] \in Calls /\ CallOK(call[p]) /\ call[p].pc = "record"
      /\ call[p].to \in RunStatus /\ n \in Nat
  BY CallTyped DEF RecordStep, At, Calls, CallOK
<1>1. CASE call[p].to = "STOPPED"
  <2>1. Fine(call[p], [call[p] EXCEPT !.pc = "release"])
    BY <1>0 DEF Fine, Calls, CallOK, PCs, Inside, Section
  <2>. QED  BY <1>1, <2>1, BecomeFine DEF RecordStep
<1>2. CASE call[p].to = "RUNNING"
  <2>1. Fine(call[p], [call[p] EXCEPT !.pc = "loop", !.idx = n])
    BY <1>0 DEF Fine, Calls, CallOK, PCs, Inside, Section
  <2>2. Become(p, [call[p] EXCEPT !.pc = "loop", !.idx = n])
    BY <1>2 DEF RecordStep
  <2>. QED  BY <2>1, <2>2, BecomeFine
<1>3. CASE call[p].to = "WAITING_APPROVAL"
  <2>1. Fine(call[p], [call[p] EXCEPT !.pc = "createApproval"])
    BY <1>0 DEF Fine, Calls, CallOK, PCs, Inside, Section
  <2>. QED  BY <1>3, <2>1, BecomeFine DEF RecordStep
<1>4. CASE call[p].to \notin {"STOPPED", "RUNNING", "WAITING_APPROVAL"}
  <2>1. Fine(call[p], Setting(p, "settle", call[p].to))
    BY <1>0, SettingFine
  <2>. QED  BY <1>4, <2>1, BecomeFine DEF RecordStep
<1>. QED  BY <1>1, <1>2, <1>3, <1>4

(* The approval's run is set WAITING_APPROVAL within the section. *)
LEMMA CreateApprovalFine ==
    ASSUME TypeOK, NEW p \in Procs, CreateApproval(p)
    PROVE  CallsFine(p)
<1>1. Fine(call[p], Setting(p, "settle", "WAITING_APPROVAL"))
  BY SettingFine DEF RunStatus
<1>. QED  BY <1>1, BecomeFine DEF CreateApproval

(* The pending approval is looked up before the section. *)
LEMMA ReadPendingFine ==
    ASSUME TypeOK, NEW p \in Procs, ReadPending(p)
    PROVE  CallsFine(p)
<1>0. call[p] \in Calls /\ CallOK(call[p]) /\ call[p].pc = "pending" /\ ~Inside(call[p])
  BY CallTyped DEF ReadPending, At, Inside, Section
<1>1. call[p].op = "approve" => Fine(call[p], [call[p] EXCEPT !.pc = "lock"])
  BY <1>0 DEF At, Fine, Calls, CallOK, PCs, Inside, Section
<1>2. call[p].op # "approve" => Fine(call[p], [call[p] EXCEPT !.pc = "decideRead"])
  BY <1>0 DEF At, Fine, Calls, CallOK, PCs, Inside, Section
<1>3. Fine(call[p], Setting(p, "cancel", "STOPPED")) /\ Fine(call[p], Idle)
  BY <1>0, SettingFine, IdleFine DEF RunStatus
<1>4. \/ call[p].op = "approve" /\ Become(p, [call[p] EXCEPT !.pc = "lock"])
      \/ call[p].op # "approve" /\ Become(p, [call[p] EXCEPT !.pc = "decideRead"])
      \/ Become(p, Setting(p, "cancel", "STOPPED"))
      \/ Become(p, Idle)
  BY DEF ReadPending
<1>. QED  BY <1>1, <1>2, <1>3, <1>4, BecomeFine

(* approve decides within the section, reject and cancel outside of one. *)
LEMMA DecidedFine ==
    ASSUME TypeOK, NEW p \in Procs, call[p].pc \in {"decideRead", "decideWrite"}
    PROVE  Fine(call[p], Decided(p))
<1>0. call[p] \in Calls /\ CallOK(call[p])
  BY CallTyped
<1>1. CASE call[p].op = "approve"
  BY <1>0, <1>1 DEF Decided, At, Fine, Calls, CallOK, PCs, Inside, Section
<1>2. CASE call[p].op # "approve"
  <2>1. ~Inside(call[p]) /\ call[p].op \in {"reject", "cancel"}
    BY <1>0, <1>2 DEF CallOK, Inside
  <2>2. Fine(call[p], Setting(p, call[p].op, "STOPPED"))
    BY <2>1, SettingFine DEF RunStatus
  <2>. QED  BY <1>2, <2>1, <2>2 DEF Decided, Fine, Calls, CallOK
<1>. QED  BY <1>1, <1>2

(* The same, when no approval is pending or one is found. *)
LEMMA DecideReadFine ==
    ASSUME TypeOK, NEW p \in Procs, DecideRead(p)
    PROVE  CallsFine(p)
<1>0. call[p] \in Calls /\ CallOK(call[p])
  BY CallTyped
<1>1. CASE PendingApprovals(Run(p)) = {}
  BY <1>1, DecidedFine, BecomeFine DEF DecideRead, At
<1>2. CASE PendingApprovals(Run(p)) # {}
  <2>1. PICK i \in LatestPending(Run(p)) :
          Become(p, [call[p] EXCEPT !.pc = "decideWrite", !.idx = i])
    BY <1>2 DEF DecideRead
  <2>2. i \in Nat
    BY <1>0 DEF LatestPending, PendingApprovals, TypeOK, Run, Calls
  <2>3. Fine(call[p], [call[p] EXCEPT !.pc = "decideWrite", !.idx = i])
    BY <1>0, <2>2 DEF DecideRead, At, Fine, Calls, CallOK, PCs, Inside, Section
  <2>. QED  BY <2>1, <2>3, BecomeFine
<1>. QED  BY <1>1, <1>2

(* The same, when the approval is decided. *)
LEMMA DecideWriteFine ==
    ASSUME TypeOK, NEW p \in Procs, DecideWrite(p)
    PROVE  CallsFine(p)
BY DecidedFine, BecomeFine DEF DecideWrite, At

(* cancel_run has no section. *)
LEMMA JobDoneFine ==
    ASSUME TypeOK, NEW p \in Procs, call[p].pc \in {"readJob", "cancelJob"}
    PROVE  Fine(call[p], JobDone(p))
<1>0. call[p] \in Calls /\ CallOK(call[p]) /\ ~Inside(call[p])
  BY CallTyped DEF Inside, Section
<1>1. Fine(call[p], [call[p] EXCEPT !.pc = "pending"])
  BY <1>0 DEF At, Fine, Calls, CallOK, PCs, Inside, Section
<1>2. Fine(call[p], Setting(p, "cancel", "STOPPED"))
  BY <1>0, SettingFine DEF RunStatus
<1>. QED  BY <1>1, <1>2 DEF JobDone

(* The same, reading the job. *)
LEMMA ReadJobFine ==
    ASSUME TypeOK, NEW p \in Procs, ReadJob(p)
    PROVE  CallsFine(p)
<1>1. Fine(call[p], [call[p] EXCEPT !.pc = "cancelJob"])
  BY CallTyped DEF ReadJob, At, Fine, Calls, CallOK, PCs, Inside, Section
<1>2. Fine(call[p], JobDone(p))
  BY JobDoneFine DEF ReadJob, At
<1>. QED  BY <1>1, <1>2, BecomeFine DEF ReadJob

(* The same, cancelling the job. *)
LEMMA CancelJobFine ==
    ASSUME TypeOK, NEW p \in Procs, CancelJob(p)
    PROVE  CallsFine(p)
BY JobDoneFine, BecomeFine DEF CancelJob, At

(* The cancellation's row number is one of its run's. *)
LEMMA RequestCancellationFine ==
    ASSUME TypeOK, NEW p \in Procs, RequestCancellation(p)
    PROVE  CallsFine(p)
<1> DEFINE n == Len(cancellations'[Run(p)])
<1>0. call[p] \in Calls /\ CallOK(call[p])
  BY CallTyped
<1>1. n \in Nat
  <2>1. Run(p) \in Runs /\ cancellations[Run(p)] \in Seq(CancellationStatus)
    BY <1>0 DEF Run, Calls, TypeOK
  <2>2. cancellations'[Run(p)] = Append(cancellations[Run(p)], "REQUESTED")
    BY <2>1 DEF RequestCancellation, TypeOK
  <2>. QED  BY <2>1, <2>2 DEF CancellationStatus
<1>2. Fine(call[p], [call[p] EXCEPT !.row = n, !.pc = "readJob"])
  BY <1>0, <1>1 DEF RequestCancellation, At, Fine, Calls, CallOK, PCs, Inside, Section
<1>. QED  BY <1>2, BecomeFine DEF RequestCancellation

(* A new call begins outside the section. *)
LEMMA StartFine ==
    ASSUME TypeOK, NEW p \in Procs, Start(p)
    PROVE  CallsFine(p)
<1>0. call[p].pc = "idle" /\ ~Inside(call[p])
  BY DEF Start, CreateRun, ReadNextJob, StartApprove, StartReject, StartCancel, At, Inside, Section
<1>1. CASE CreateRun(p)
  <2>1. PICK r \in Runs, pc \in {"enqueue", "execute"} :
          Become(p, [Idle EXCEPT !.op = "sync", !.run = r, !.pc = pc])
    BY <1>1 DEF CreateRun
  <2>2. Fine(call[p], [Idle EXCEPT !.op = "sync", !.run = r, !.pc = pc])
    BY <1>0 DEF Idle, RunStatus, At, Fine, Calls, CallOK, PCs, Inside, Section
  <2>. QED  BY <2>1, <2>2, BecomeFine
<1>2. CASE ReadNextJob(p)
  <2>1. PICK r \in Runs : Become(p, [Idle EXCEPT !.op = "work", !.run = r, !.pc = "claim"])
    BY <1>2 DEF ReadNextJob
  <2>2. Fine(call[p], [Idle EXCEPT !.op = "work", !.run = r, !.pc = "claim"])
    BY <1>0 DEF Idle, RunStatus, At, Fine, Calls, CallOK, PCs, Inside, Section
  <2>. QED  BY <2>1, <2>2, BecomeFine
<1>3. ASSUME NEW r \in Runs, StartApprove(p, r) \/ StartReject(p, r)
      PROVE  CallsFine(p)
  <2>1. PICK op \in {"approve", "reject"} :
          Become(p, [Idle EXCEPT !.op = op, !.run = r, !.pc = "pending"])
    BY <1>3 DEF StartApprove, StartReject
  <2>2. Fine(call[p], [Idle EXCEPT !.op = op, !.run = r, !.pc = "pending"])
    BY <1>0 DEF Idle, RunStatus, At, Fine, Calls, CallOK, PCs, Inside, Section
  <2>. QED  BY <2>1, <2>2, BecomeFine
<1>4. ASSUME NEW r \in Runs, StartCancel(p, r)
      PROVE  CallsFine(p)
  <2>1. status[r] \in RunStatus
    BY <1>4 DEF StartCancel
  <2>2. Fine(call[p], [Idle EXCEPT !.op = "cancel", !.run = r, !.seen = status[r],
                                   !.pc = "request"])
    BY <1>0, <2>1 DEF Idle, At, Fine, Calls, CallOK, PCs, Inside, Section
  <2>. QED  BY <1>4, <2>2, BecomeFine DEF StartCancel
<1>. QED  BY <1>1, <1>2, <1>3, <1>4 DEF Start

(* The end of a section: the lock of the run goes, whoever holds it. *)
LEMMA ReleaseTyped ==
    ASSUME TypeOK, NEW p \in Procs, Release(p)
    PROVE  /\ call' \in [Procs -> Calls]
           /\ \A q \in Procs : CallOK(call'[q])
           /\ \A q \in Procs : q # p => call'[q] = call[q]
<1>0. call[p] \in Calls /\ CallOK(call[p])
  BY CallTyped
<1>1. CASE call[p].op = "cancel"
  <2>1. [call[p] EXCEPT !.pc = "complete"] \in Calls /\ CallOK([call[p] EXCEPT !.pc = "complete"])
    BY <1>0 DEF Calls, CallOK, PCs
  <2>. QED  BY <1>1, <2>1 DEF Release, Goto, Become, TypeOK
<1>2. CASE call[p].op = "work"
  <2>1. /\ [call[p] EXCEPT !.pc = "job", !.raised = call[p].raised] \in Calls
        /\ CallOK([call[p] EXCEPT !.pc = "job", !.raised = call[p].raised])
    BY <1>0 DEF Calls, CallOK, PCs
  <2>. QED  BY <1>2, <2>1 DEF Release, Leave, Become, TypeOK
<1>3. CASE call[p].op \notin {"cancel", "work"}
  <2>1. Idle \in Calls /\ CallOK(Idle)
    BY RunsAssumption DEF Idle, Calls, CallOK, PCs, RunStatus, Runs
  <2>. QED  BY <1>3, <2>1 DEF Release, Leave, Become, TypeOK
<1>. QED  BY <1>1, <1>2, <1>3

(* Every step of a call but the release is fine. *)
LEMMA ContinueFine ==
    ASSUME TypeOK, NEW p \in Procs, Continue(p), ~Release(p)
    PROVE  CallsFine(p)
BY EnqueueFine, MarkJobRunningFine, SkipStoppedRunFine, FinishJobFine, ReadStatusFine,
   WriteStatusFine, RaiseFine, ExecuteFine, BlockPromptFine, NoLockNeededFine,
   ExpireOldLocksFine, ReadLockFine, InsertLockFine, CountStepsFine, CheckBeforeStepFine, LaunchErrorFine,
   LaunchFine, AgentReturnsFine, CheckAfterStepFine, RecordStepFine, CreateApprovalFine,
   ReadPendingFine, DecideReadFine, DecideWriteFine, RequestCancellationFine, ReadJobFine,
   CancelJobFine, CloseCancellationFine
   DEF Continue, AcquireLock

--------------------------------------------------------------------------------
(* The rows, one table at a time. *)
RowsTyped ==
    /\ status' \in [Runs -> RunStatus \cup {"NONE"}]
    /\ gate' \in [Runs -> BOOLEAN]
    /\ jobs' \in Seq(Runs)
    /\ job' \in [Runs -> JobStatus]
    /\ locks' \subseteq [id : Nat, run : Runs, ran : 0..2]
    /\ lockId' \in Nat
    /\ approvals' \in [Runs -> Seq(ApprovalStatus)]
    /\ cancellations' \in [Runs -> Seq(CancellationStatus)]
    /\ steps' \in [Runs -> Nat]
    /\ invocations' \in [Runs -> Nat]
    /\ stopped' \subseteq Runs
    /\ late' \in [Runs -> Nat]

(* Rows that do not change keep their types. *)
LEMMA SameRows ==
    ASSUME TypeOK,
           UNCHANGED <<runVars, jobVars, lockVars, approvals, cancellations, agentVars>>
    PROVE  RowsTyped
BY DEF TypeOK, RowsTyped, runVars, jobVars, lockVars, agentVars

(* The runs table. *)
LEMMA RunRows ==
    ASSUME TypeOK, NEW p \in Procs, CreateRun(p) \/ WriteStatus(p)
    PROVE  RowsTyped
<1>1. call[p].to \in RunStatus \cup {"NONE"} /\ Run(p) \in Runs
  BY CallTyped DEF Calls, Run
<1>2. CASE CreateRun(p)
  BY <1>2 DEF TypeOK, RowsTyped, CreateRun, RunStatus, jobVars, lockVars, agentVars
<1>3. CASE WriteStatus(p)
  BY <1>1, <1>3 DEF TypeOK, RowsTyped, WriteStatus, jobVars, lockVars, agentVars
<1>. QED  BY <1>2, <1>3

(* The run_queue table. *)
LEMMA JobRows ==
    ASSUME TypeOK, NEW p \in Procs,
           Enqueue(p) \/ MarkJobRunning(p) \/ FinishJob(p) \/ CancelJob(p)
    PROVE  RowsTyped
<1>1. Run(p) \in Runs
  BY CallTyped DEF Calls, Run
<1>2. job' \in [Runs -> JobStatus]
  BY <1>1 DEF TypeOK, Enqueue, MarkJobRunning, FinishJob, CancelJob, JobStatus
<1>3. jobs' = Append(jobs, Run(p)) \/ jobs' = jobs
  BY DEF Enqueue, MarkJobRunning, FinishJob, CancelJob
<1>4. jobs' \in Seq(Runs)
  <2>1. jobs \in Seq(Runs)
    BY DEF TypeOK
  <2>2. Append(jobs, Run(p)) \in Seq(Runs)
    BY <1>1, <2>1, AppendProperties
  <2>. QED  BY <1>3, <2>1, <2>2
<1>. QED  BY <1>2, <1>4 DEF TypeOK, RowsTyped, Enqueue, MarkJobRunning, FinishJob, CancelJob,
                          runVars, lockVars, agentVars

(* The run_locks table. *)
LEMMA LockRows ==
    ASSUME TypeOK, NEW p \in Procs,
           ExpireOldLocks(p) \/ InsertLock(p) \/ Release(p)
    PROVE  RowsTyped
<1>1. Run(p) \in Runs
  BY CallTyped DEF Calls, Run
<1>2. CASE ExpireOldLocks(p)
  BY <1>2 DEF TypeOK, RowsTyped, ExpireOldLocks, runVars, jobVars, agentVars
<1>3. CASE InsertLock(p)
  BY <1>1, <1>3 DEF TypeOK, RowsTyped, InsertLock, runVars, jobVars, agentVars
<1>4. CASE Release(p)
  BY <1>4 DEF TypeOK, RowsTyped, Release, LocksWithout, runVars, jobVars, agentVars
<1>. QED  BY <1>2, <1>3, <1>4

(* Steps, invocations and the agent time of the locks. *)
LEMMA AgentRows ==
    ASSUME TypeOK, NEW p \in Procs, Launch(p) \/ RecordStep(p)
    PROVE  RowsTyped
<1>1. Run(p) \in Runs
  BY CallTyped DEF Calls, Run
<1>2. CASE Launch(p)
  <2>1. ASSUME NEW l \in locks'
        PROVE  l \in [id : Nat, run : Runs, ran : 0..2]
    <3>1. PICK k \in locks : l = [k EXCEPT !.ran = IF k.run = Run(p) /\ @ < 2 THEN @ + 1 ELSE @]
      BY <1>2 DEF Launch
    <3>2. k \in [id : Nat, run : Runs, ran : 0..2]
      BY DEF TypeOK
    <3>3. (IF k.run = Run(p) /\ k.ran < 2 THEN k.ran + 1 ELSE k.ran) \in 0..2
      BY <3>2
    <3>. QED  BY <3>1, <3>2, <3>3
  <2>2. /\ invocations' \in [Runs -> Nat]
        /\ late' \in [Runs -> Nat]
    BY <1>1, <1>2 DEF TypeOK, Launch
  <2>. QED  BY <1>2, <2>1, <2>2 DEF TypeOK, RowsTyped, Launch, runVars, jobVars
<1>3. CASE RecordStep(p)
  <2>1. steps' \in [Runs -> Nat]
    BY <1>1, <1>3 DEF TypeOK, RecordStep
  <2>. QED  BY <1>3, <2>1 DEF TypeOK, RowsTyped, RecordStep, runVars, jobVars, lockVars
<1>. QED  BY <1>2, <1>3

(* Replacing an element keeps a sequence's type. *)
LEMMA SeqExcept ==
    ASSUME NEW S, NEW s \in Seq(S), NEW i, NEW v \in S
    PROVE  [s EXCEPT ![i] = v] \in Seq(S)
<1> DEFINE t == [s EXCEPT ![i] = v]
<1>1. s \in [1..Len(s) -> S] /\ Len(s) \in Nat
  OBVIOUS
<1>2. t \in [1..Len(s) -> S]
  BY <1>1
<1>. QED  BY <1>1, <1>2

(* The approvals table. *)
LEMMA ApprovalRows ==
    ASSUME TypeOK, NEW p \in Procs, CreateApproval(p) \/ DecideWrite(p)
    PROVE  RowsTyped
<1>1. Run(p) \in Runs
  BY CallTyped DEF Calls, Run
<1>2. CASE CreateApproval(p)
  BY <1>1, <1>2 DEF TypeOK, RowsTyped, CreateApproval, ApprovalStatus, runVars, jobVars,
                    lockVars, agentVars
<1>3. CASE DecideWrite(p)
  <2> DEFINE v == IF call[p].op = "approve" THEN "APPROVED" ELSE "REJECTED"
  <2>1. approvals' = [approvals EXCEPT ![Run(p)] = [@ EXCEPT ![call[p].idx] = v]]
    BY <1>3 DEF DecideWrite
  <2>2. [approvals[Run(p)] EXCEPT ![call[p].idx] = v] \in Seq(ApprovalStatus)
    BY <1>1, SeqExcept DEF TypeOK, ApprovalStatus
  <2>3. approvals' \in [Runs -> Seq(ApprovalStatus)]
    BY <2>1, <2>2 DEF TypeOK
  <2>. QED  BY <1>3, <2>3 DEF TypeOK, RowsTyped, DecideWrite, runVars, jobVars, lockVars,
                             agentVars
<1>. QED  BY <1>2, <1>3

(* The run_cancellations table. *)
LEMMA CancellationRows ==
    ASSUME TypeOK, NEW p \in Procs, RequestCancellation(p) \/ CloseCancellation(p)
    PROVE  RowsTyped
<1>1. Run(p) \in Runs
  BY CallTyped DEF Calls, Run
<1>2. CASE RequestCancellation(p)
  <2>1. cancellations' \in [Runs -> Seq(CancellationStatus)]
    BY <1>1, <1>2 DEF TypeOK, RequestCancellation, CancellationStatus
  <2>. QED  BY <1>2, <2>1 DEF TypeOK, RowsTyped, RequestCancellation, runVars, jobVars,
                             lockVars, agentVars
<1>3. CASE CloseCancellation(p)
  <2> DEFINE v == IF At(p, "complete") THEN "COMPLETED" ELSE "FAILED"
  <2>1. cancellations' = [cancellations EXCEPT ![Run(p)] = [@ EXCEPT ![call[p].row] = v]]
    BY <1>3 DEF CloseCancellation
  <2>2. [cancellations[Run(p)] EXCEPT ![call[p].row] = v] \in Seq(CancellationStatus)
    BY <1>1, SeqExcept DEF TypeOK, CancellationStatus
  <2>3. cancellations' \in [Runs -> Seq(CancellationStatus)]
    BY <2>1, <2>2 DEF TypeOK
  <2>. QED  BY <1>3, <2>3 DEF TypeOK, RowsTyped, CloseCancellation, runVars, jobVars, lockVars,
                             agentVars
<1>. QED  BY <1>2, <1>3

(* A step of a process keeps the types of the rows. *)
LEMMA ProcessRows ==
    ASSUME TypeOK, NEW p \in Procs, Start(p) \/ Continue(p) \/ Die(p)
    PROVE  RowsTyped
<1>1. CASE Start(p)
  BY <1>1, RunRows, SameRows DEF Start, ReadNextJob, StartApprove, StartReject, StartCancel
<1>2. CASE Continue(p)
  BY <1>2, RunRows, JobRows, LockRows, AgentRows, ApprovalRows, CancellationRows, SameRows
     DEF Continue, AcquireLock, SkipStoppedRun, ReadStatus, Raise, Execute, BlockPrompt, NoLockNeeded,
         ReadLock, CountSteps, CheckBeforeStep, LaunchError, AgentReturns, CheckAfterStep, ReadPending,
         DecideRead, ReadJob
<1>3. CASE Die(p)
  BY <1>3, SameRows DEF Die
<1>. QED  BY <1>1, <1>2, <1>3

(* So do the maintenance routes. *)
LEMMA MaintenanceRows ==
    ASSUME TypeOK, ListLocks \/ \E r \in Runs : CancelQueuedJob(r) \/ ReleaseByHand(r)
    PROVE  RowsTyped
BY DEF TypeOK, RowsTyped, ListLocks, CancelQueuedJob, ReleaseByHand, LocksWithout, JobStatus,
       runVars, jobVars, agentVars, lockVars

--------------------------------------------------------------------------------
(* A lock is held when NoLockLeak says so of it. *)
Kept(r) == \E p \in Procs : InSection(p, r) \/ (At(p, "dead") /\ Run(p) = r)

(* A step that is fine keeps every held lock held: nobody acts when dead, *)
(* and nobody leaves the section alive.                                   *)
LEMMA FineKeeps ==
    ASSUME TypeOK, NEW p \in Procs, CallsFine(p), call[p].pc # "dead", NEW r, Kept(r)
    PROVE  Kept(r)'
<1>1. PICK q \in Procs : InSection(q, r) \/ (At(q, "dead") /\ Run(q) = r)
  BY DEF Kept
<1>2. CASE q # p
  BY <1>1, <1>2 DEF CallsFine, Kept, InSection, At, Run
<1>3. CASE q = p
  BY <1>1, <1>3 DEF CallsFine, Fine, Kept, InSection, At, Run
<1>. QED  BY <1>2, <1>3

(* Nobody acts when dead. *)
LEMMA Alive ==
    ASSUME NEW p \in Procs, Start(p) \/ Continue(p) \/ Die(p)
    PROVE  call[p].pc # "dead"
BY DEF Start, Continue, AcquireLock, Die, At, CreateRun, ReadNextJob, StartApprove, StartReject, StartCancel,
       Enqueue, MarkJobRunning, SkipStoppedRun, FinishJob, ReadStatus, WriteStatus, Raise,
       Execute, BlockPrompt, NoLockNeeded, ExpireOldLocks, ReadLock, InsertLock, Release, CountSteps,
       CheckBeforeStep, LaunchError, Launch, AgentReturns, CheckAfterStep, RecordStep,
       CreateApproval, ReadPending, DecideRead, DecideWrite, RequestCancellation, ReadJob,
       CancelJob, CloseCancellation

(* The runs that have a lock after a step had one before, except for the   *)
(* run a process has just entered the section of.                          *)
LEMMA LockOrigin ==
    ASSUME TypeOK, NEW p \in Procs, Start(p) \/ Continue(p) \/ Die(p), NEW l \in locks'
    PROVE  (\E k \in locks : k.run = l.run) \/ (InsertLock(p) /\ l.run = Run(p))
<1>1. CASE UNCHANGED locks
  BY <1>1
<1>2. CASE ExpireOldLocks(p) \/ Release(p)
  BY <1>2 DEF ExpireOldLocks, Release, LocksWithout
<1>3. CASE InsertLock(p)
  BY <1>3 DEF InsertLock
<1>4. CASE Launch(p)
  <2>1. PICK k \in locks : l = [k EXCEPT !.ran = IF k.run = Run(p) /\ @ < 2 THEN @ + 1 ELSE @]
    BY <1>4 DEF Launch
  <2>. QED  BY <2>1 DEF TypeOK
<1>. QED
  BY <1>1, <1>2, <1>3, <1>4
     DEF Start, Continue, AcquireLock, Die, lockVars, CreateRun, ReadNextJob, StartApprove, StartReject,
         StartCancel, Enqueue, MarkJobRunning, SkipStoppedRun, FinishJob, ReadStatus,
         WriteStatus, Raise, Execute, BlockPrompt, NoLockNeeded, ReadLock, CountSteps, CheckBeforeStep,
         LaunchError, AgentReturns, CheckAfterStep, RecordStep, CreateApproval, ReadPending,
         DecideRead, DecideWrite, RequestCancellation, ReadJob, CancelJob, CloseCancellation

(* A process's step keeps the types. *)
LEMMA ProcessKeepsTypes ==
    ASSUME TypeOK, NEW p \in Procs, Start(p) \/ Continue(p) \/ Die(p)
    PROVE  TypeOK' /\ \A q \in Procs : q # p => call'[q] = call[q]
<1>1. RowsTyped
  BY ProcessRows
<1>2. CASE Release(p)
  BY <1>1, <1>2, ReleaseTyped DEF RowsTyped, TypeOK
<1>3. CASE ~Release(p)
  <2>1. CallsFine(p)
    BY <1>3, StartFine, ContinueFine, DieFine
  <2>. QED  BY <1>1, <2>1 DEF CallsFine, RowsTyped, TypeOK
<1>. QED  BY <1>2, <1>3

(* A process's step preserves the invariant. *)
LEMMA ProcessKeepsIInv ==
    ASSUME IInv, NEW p \in Procs, Start(p) \/ Continue(p) \/ Die(p)
    PROVE  IInv'
<1>0. TypeOK /\ TypeOK' /\ \A l \in locks : Kept(l.run)
  BY ProcessKeepsTypes DEF IInv, NoLockLeak, Kept
<1>1. CASE Release(p)
  <2>2. ASSUME NEW l \in locks'
        PROVE  Kept(l.run)'
    <3>1. l \in locks /\ l.run # Run(p)
      BY <1>1 DEF Release, LocksWithout
    <3>2. PICK q \in Procs : InSection(q, l.run) \/ (At(q, "dead") /\ Run(q) = l.run)
      BY <1>0, <3>1 DEF Kept
    <3>3. q # p
      BY <3>1, <3>2 DEF InSection
    <3>. QED  BY <1>0, <1>1, <3>2, <3>3, ReleaseTyped DEF Kept, InSection, At, Run
  <2>. QED  BY <1>0, <2>2 DEF IInv, NoLockLeak, Kept
<1>2. CASE ~Release(p)
  <2>1. CallsFine(p)
    BY <1>0, <1>2, StartFine, ContinueFine, DieFine
  <2>3. ASSUME NEW l \in locks'
        PROVE  Kept(l.run)'
    <3>1. CASE \E k \in locks : k.run = l.run
      BY <1>0, <2>1, <3>1, FineKeeps, Alive
    <3>2. CASE InsertLock(p) /\ l.run = Run(p)
      <4>1. call'[p] = Enter(p)
        BY <1>0, <3>2 DEF InsertLock, Become, TypeOK
      <4>2. Inside(Enter(p)) /\ Enter(p).run = Run(p)
        BY <1>0, <3>2, EnterFine DEF InsertLock, At
      <4>. QED  BY <3>2, <4>1, <4>2 DEF Kept, InSection, Run
    <3>. QED  BY <1>0, <3>1, <3>2, LockOrigin
  <2>. QED  BY <1>0, <2>3 DEF IInv, NoLockLeak, Kept
<1>. QED  BY <1>1, <1>2

(* The maintenance routes only take locks away. *)
LEMMA MaintenanceKeepsIInv ==
    ASSUME IInv, ListLocks \/ \E r \in Runs : CancelQueuedJob(r) \/ ReleaseByHand(r)
    PROVE  IInv'
<1>1. call' = call /\ locks' \subseteq locks
  BY DEF ListLocks, CancelQueuedJob, ReleaseByHand, LocksWithout, lockVars
<1>2. TypeOK'
  BY <1>1, MaintenanceRows DEF IInv, RowsTyped, TypeOK
<1>3. NoLockLeak'
  BY <1>1 DEF IInv, NoLockLeak, InSection, At, Run
<1>. QED  BY <1>2, <1>3 DEF IInv

(* The invariant holds of the empty database. *)
LEMMA InitIInv == Init => IInv
BY RunsAssumption DEF Init, IInv, TypeOK, NoLockLeak, Idle, Calls, CallOK, PCs, RunStatus,
                      JobStatus, ApprovalStatus, CancellationStatus, Runs

(* The invariant is about the variables alone. *)
LEMMA StutterIInv ==
    ASSUME IInv, UNCHANGED vars
    PROVE  IInv'
BY DEF IInv, TypeOK, NoLockLeak, InSection, At, Run, vars

--------------------------------------------------------------------------------
(* IInv is an invariant of RunService. *)
THEOREM Invariance == Spec => []IInv
<1>1. IInv /\ [Next]_vars => IInv'
  BY ProcessKeepsIInv, MaintenanceKeepsIInv, StutterIInv DEF Next
<1>. QED  BY InitIInv, <1>1, PTL DEF Spec

(* Every row keeps its type, and every call is where its handler can be *)
(* (storage.py, run_service.py).                                        *)
THEOREM TypeCorrect == Spec => []TypeOK
<1>1. IInv => TypeOK
  BY DEF IInv
<1>. QED  BY Invariance, <1>1, PTL

(* Any number of workers, approvers and cancellers side by side: an ACTIVE *)
(* lock always has a process that will release it, or one that was killed  *)
(* before it could (run_service.py:415-417 and its likes).                 *)
THEOREM LocksAreReleasable == Spec => []NoLockLeak
<1>1. IInv => NoLockLeak
  BY DEF IInv
<1>. QED  BY Invariance, <1>1, PTL

--------------------------------------------------------------------------------
(* After a cancellation. *)

(* Two processes at most, as one worker and one operator. *)
Op(p) == call[p].op

AtMostTwo == \A p, q, s \in Procs : p = q \/ q = s \/ p = s

(* p is about to start an agent of run r or to write its status. *)
Committed(p, r) == Run(p) = r /\ call[p].pc \in {"launch", "statusWrite"}

Launching(p, r) == Run(p) = r /\ At(p, "launch")
Writing(p, r) == Run(p) = r /\ At(p, "statusWrite")

(* A stopped run stays STOPPED: nobody writes it a status any more.  An agent *)
(* started after the stop is the last: nobody is left who had looked before.  *)
LateOK(r) ==
    /\ late[r] \in {0, 1}
    /\ late[r] = 1 => r \in stopped /\ \A p \in Procs : ~Launching(p, r)
    /\ r \in stopped =>
          /\ status[r] = "STOPPED" /\ \A p \in Procs : ~Writing(p, r)
          /\ \A p, q \in Procs : Launching(p, r) /\ Launching(q, r) => p = q

StopInv == TypeOK /\ \A r \in Runs : LateOK(r)

(* What a call becomes is what its record says next. *)
LEMMA Becomes ==
    ASSUME TypeOK, NEW p \in Procs, NEW d, Become(p, d)
    PROVE  call'[p] = d
BY DEF TypeOK, Become

(* A status update begins by reading. *)
LEMMA SettingReads ==
    ASSUME TypeOK, NEW p \in Procs, NEW at, NEW to
    PROVE  /\ Setting(p, at, to).pc = "statusRead"
           /\ Setting(p, at, to).at = at
           /\ Setting(p, at, to).to = to
           /\ Setting(p, at, to).op = Op(p)
           /\ Setting(p, at, to).run = Run(p)
BY CallTyped DEF Setting, Calls, Run, Op

(* A call that ends is idle or settles its job. *)
LEMMA LeavesTo ==
    ASSUME TypeOK, NEW p \in Procs, NEW raised, Leave(p, raised)
    PROVE  \/ Op(p) # "work" /\ call'[p] = Idle
           \/ /\ Op(p) = "work" /\ call'[p].pc = "job"
              /\ call'[p].op = "work" /\ call'[p].run = Run(p)
BY CallTyped, Becomes DEF Leave, Calls, Run, Op

(* Only the checks of the status lead to the launch or to its update. *)
LEMMA ChecksFirst ==
    ASSUME TypeOK, NEW p \in Procs, Start(p) \/ Continue(p) \/ Die(p),
           call'[p].pc \in {"launch", "statusWrite"}
    PROVE  /\ ReadStatus(p) \/ CheckBeforeStep(p)
           /\ call'[p].run = Run(p) /\ status[Run(p)] # "STOPPED"
<1>0. call[p] \in Calls /\ CallOK(call[p]) /\ \A d : Become(p, d) => call'[p] = d
  BY CallTyped, Becomes
<1>1. \A at, to : Setting(p, at, to).pc = "statusRead"
  BY SettingReads
<1>2. Idle.pc = "idle"
  BY DEF Idle
<1>3. \A raised : Leave(p, raised) => call'[p].pc \in {"idle", "job"}
  BY <1>2, LeavesTo
<1>4. \A pc : Goto(p, pc) => call'[p].pc = pc /\ call'[p].run = Run(p)
  BY <1>0 DEF Goto, Calls, Run
<1>5. Enter(p).pc \in {"count", "decideRead"}
  BY <1>0 DEF Enter, Calls
<1>6. ~Start(p)
  BY <1>0 DEF Start, CreateRun, ReadNextJob, StartApprove, StartReject, StartCancel, Idle
<1>7. ~Die(p)
  BY <1>0 DEF Die, Idle
<1>8. ~(Enqueue(p) \/ FinishJob(p) \/ CloseCancellation(p))
  BY <1>0, <1>2 DEF Enqueue, FinishJob, CloseCancellation
<1>9. ~(MarkJobRunning(p) \/ AgentReturns(p) \/ Launch(p))
  BY <1>4 DEF MarkJobRunning, AgentReturns, Launch
<1>10. ~(SkipStoppedRun(p) \/ Raise(p) \/ Execute(p) \/ BlockPrompt(p))
  <2>1. ~SkipStoppedRun(p)
    <3>1. SkipStoppedRun(p) => Leave(p, TRUE) \/ Goto(p, "execute")
      BY DEF SkipStoppedRun
    <3>2. ASSUME Leave(p, TRUE) PROVE FALSE
      BY <1>3, <3>2
    <3>3. ASSUME Goto(p, "execute") PROVE FALSE
      BY <1>4, <3>3
    <3>. QED  BY <3>3, <3>2, <3>1
  <2>2. ~Raise(p)
    BY <1>3 DEF Raise
  <2>3. ~Execute(p)
    BY <1>0, <1>1, <1>3 DEF Execute
  <2>4. ~BlockPrompt(p)
    BY <1>0, <1>1 DEF BlockPrompt
  <2>. QED  BY <2>1, <2>2, <2>3, <2>4
<1>11. ~WriteStatus(p)
  BY <1>4 DEF WriteStatus, After
<1>12. ~(NoLockNeeded(p) \/ InsertLock(p))
  BY <1>0, <1>5 DEF NoLockNeeded, InsertLock
<1>13. ~ReadLock(p) /\ ~ExpireOldLocks(p)
  <2>1. [call[p] EXCEPT !.pc = "insertLock"].pc = "insertLock"
    BY <1>0 DEF Calls
  <2>2. ~ReadLock(p)
    BY <1>0, <1>1, <1>2, <1>5, <2>1 DEF ReadLock
  <2>3. ~ExpireOldLocks(p)
    BY <1>4 DEF ExpireOldLocks
  <2>. QED  BY <2>2, <2>3
<1>14. ~Release(p)
  BY <1>3, <1>4 DEF Release
<1>15. ~CountSteps(p)
  <2>1. [call[p] EXCEPT !.idx = steps[Run(p)], !.pc = "loop"].pc = "loop"
    BY <1>0 DEF Calls
  <2>2. [Setting(p, "resume", "RUNNING") EXCEPT !.idx = steps[Run(p)]].pc = "statusRead"
    BY <1>0 DEF Calls, Setting
  <2>. QED  BY <1>0, <2>1, <2>2 DEF CountSteps
<1>16. ~LaunchError(p)
  BY <1>0 DEF LaunchError, Calls
<1>17. ~CheckAfterStep(p)
  BY <1>0 DEF CheckAfterStep, Calls
<1>18. ~RecordStep(p)
  <2> DEFINE n == call[p].idx + 1
  <2>1. /\ [call[p] EXCEPT !.pc = "release"].pc = "release"
        /\ [call[p] EXCEPT !.pc = "createApproval"].pc = "createApproval"
        /\ [call[p] EXCEPT !.pc = "loop", !.idx = n].pc = "loop"
    BY <1>0 DEF Calls
  <2>2. ASSUME RecordStep(p)
        PROVE  \E d \in {[call[p] EXCEPT !.pc = "release"], [call[p] EXCEPT !.pc = "createApproval"],
                         [call[p] EXCEPT !.pc = "loop", !.idx = n],
                         Setting(p, "settle", call[p].to)} : Become(p, d)
    BY <2>2 DEF RecordStep
  <2>3. \A to : Become(p, Setting(p, "settle", to)) => call'[p].pc = "statusRead"
    BY <1>0, <1>1
  <2>. QED  BY <1>0, <1>1, <2>1, <2>2, <2>3
<1>19. ~CreateApproval(p)
  BY <1>0, <1>1 DEF CreateApproval
<1>20. ~ReadPending(p)
  <2>1. /\ [call[p] EXCEPT !.pc = "lock"].pc = "lock"
        /\ [call[p] EXCEPT !.pc = "decideRead"].pc = "decideRead"
    BY <1>0 DEF Calls
  <2>2. ASSUME ReadPending(p)
        PROVE  \E d \in {[call[p] EXCEPT !.pc = "lock"], [call[p] EXCEPT !.pc = "decideRead"],
                         Setting(p, "cancel", "STOPPED"), Idle} : Become(p, d)
    BY <2>2 DEF ReadPending
  <2>3. \A to : Become(p, Setting(p, "cancel", to)) => call'[p].pc = "statusRead"
    BY <1>0, <1>1
  <2>. QED  BY <1>0, <1>2, <2>1, <2>2, <2>3
<1>21. ~(DecideRead(p) \/ DecideWrite(p))
  <2>1. Decided(p).pc \in {"count", "statusRead"}
    BY <1>0 DEF Decided, Setting, Calls
  <2>2. \A i : [call[p] EXCEPT !.pc = "decideWrite", !.idx = i].pc = "decideWrite"
    BY <1>0 DEF Calls
  <2>. QED  BY <1>0, <2>1, <2>2 DEF DecideRead, DecideWrite
<1>22. ~(ReadJob(p) \/ CancelJob(p))
  <2>1. JobDone(p).pc \in {"pending", "statusRead"}
    BY <1>0 DEF JobDone, Setting, Calls
  <2>2. [call[p] EXCEPT !.pc = "cancelJob"].pc = "cancelJob"
    BY <1>0 DEF Calls
  <2>. QED  BY <1>0, <2>1, <2>2 DEF ReadJob, CancelJob
<1>23. ~RequestCancellation(p)
  BY <1>0 DEF RequestCancellation, Calls
<1>24. ReadStatus(p) \/ CheckBeforeStep(p)
  BY <1>6, <1>7, <1>8, <1>9, <1>10, <1>11, <1>12, <1>13, <1>14, <1>15, <1>16, <1>17, <1>18,
     <1>19, <1>20, <1>21, <1>22, <1>23 DEF Continue, AcquireLock
<1>25. CASE ReadStatus(p)
  <2>1. CASE call[p].to \in Allowed(status[Run(p)])
    BY <1>4, <1>25, <2>1 DEF ReadStatus, Allowed
  <2>2. CASE call[p].to \notin Allowed(status[Run(p)])
    <3>1. call'[p].pc = OnError(call[p].at)
      BY <1>0, <1>25, <2>2 DEF ReadStatus, Calls
    <3>. QED  BY <3>1 DEF OnError
  <2>. QED  BY <1>24, <2>1, <2>2
<1>26. CASE CheckBeforeStep(p)
  BY <1>4, <1>24, <1>26 DEF CheckBeforeStep, Stopped
<1>. QED  BY <1>24, <1>25, <1>26

(* Who else was committed stays so, and p is committed only after a look at *)
(* a status that was not STOPPED.                                           *)
LEMMA CommittedBefore ==
    ASSUME TypeOK, NEW p \in Procs, Start(p) \/ Continue(p) \/ Die(p),
           NEW q \in Procs, NEW r, Committed(q, r)'
    PROVE  \/ q # p /\ Committed(q, r) /\ call'[q] = call[q]
           \/ q = p /\ status[r] # "STOPPED" /\ (ReadStatus(p) \/ CheckBeforeStep(p))
BY ProcessKeepsTypes, ChecksFirst DEF Committed, Run

(* Nobody new launches or writes where the run is stopped. *)
LEMMA NobodyNew ==
    ASSUME TypeOK, NEW p \in Procs, Start(p) \/ Continue(p) \/ Die(p),
           NEW r \in stopped, LateOK(r), NEW q \in Procs
    PROVE  /\ Launching(q, r)' => q # p /\ Launching(q, r)
           /\ ~Writing(q, r)'
<1>1. Committed(q, r)' => q # p /\ Committed(q, r) /\ call'[q] = call[q]
  BY CommittedBefore DEF LateOK
<1>. QED  BY <1>1 DEF LateOK, Launching, Writing, Committed, At, Run

(* Where neither the status nor the count changes. *)
LEMMA QuietKeepsLate ==
    ASSUME TypeOK, NEW p \in Procs, Start(p) \/ Continue(p) \/ Die(p),
           NEW r \in Runs, LateOK(r), status'[r] = status[r], late'[r] = late[r],
           r \in stopped' <=> r \in stopped
    PROVE  LateOK(r)'
<1>1. CASE r \in stopped
  BY <1>1, NobodyNew DEF LateOK
<1>2. CASE r \notin stopped
  BY <1>2 DEF LateOK
<1>. QED  BY <1>1, <1>2

(* A process's step preserves it: the launch counts itself only where the *)
(* run was stopped behind its back, and the writer of STOPPED was the     *)
(* only other process.                                                    *)
LEMMA ProcessKeepsStop ==
    ASSUME AtMostTwo, StopInv, NEW p \in Procs, Start(p) \/ Continue(p) \/ Die(p)
    PROVE  StopInv'
<1>0. TypeOK /\ TypeOK' /\ call[p] \in Calls /\ Run(p) \in Runs
      /\ \A q \in Procs : q # p => call'[q] = call[q]
  BY ProcessKeepsTypes, CallTyped DEF StopInv, Run, Calls
<1>. SUFFICES ASSUME NEW r \in Runs
              PROVE  LateOK(r)'
  BY <1>0 DEF StopInv
<1>. LateOK(r)
  BY DEF StopInv
<1>1. CASE WriteStatus(p)
  <2>1. /\ late' = late /\ (r # Run(p) => status'[r] = status[r])
        /\ r # Run(p) => (r \in stopped' <=> r \in stopped)
    BY <1>0, <1>1 DEF WriteStatus, agentVars, TypeOK
  <2>2. CASE r # Run(p)
    BY <1>0, <1>1, <2>1, <2>2, QuietKeepsLate DEF Continue
  <2>3. CASE r = Run(p)
    <3>1. Writing(p, r) /\ r \notin stopped /\ late[r] = 0
      BY <1>1, <2>3 DEF WriteStatus, Writing, LateOK
    <3>2. call'[p].pc = After(call[p].at)
      BY <1>0, <1>1, Becomes DEF WriteStatus, Goto, Calls
    <3>3. ~Writing(p, r)' /\ ~Launching(p, r)'
      BY <3>2 DEF Writing, Launching, At, After
    <3>4. CASE r \in stopped'
      <4>1. /\ status'[r] = "STOPPED" /\ Uncontested(p)
        BY <1>0, <1>1, <2>3, <3>1, <3>4 DEF WriteStatus, TypeOK
      <4>2. \A q \in Procs : ~Writing(q, r)'
        BY <1>0, <2>3, <3>3, <4>1 DEF Uncontested, Writing, At, Run
      <4>3. \A q, k \in Procs : Launching(q, r)' /\ Launching(k, r)' => q = k
        BY <3>3 DEF AtMostTwo
      <4>. QED  BY <2>1, <3>1, <3>4, <4>1, <4>2, <4>3 DEF LateOK
    <3>5. CASE r \notin stopped'
      BY <2>1, <3>1, <3>5 DEF LateOK
    <3>. QED  BY <3>4, <3>5
  <2>. QED  BY <2>2, <2>3
<1>2. CASE Launch(p)
  <2>1. status' = status /\ stopped' = stopped /\ (r # Run(p) => late'[r] = late[r])
    BY <1>0, <1>2 DEF Launch, runVars, TypeOK
  <2>2. CASE r # Run(p)
    BY <1>0, <1>2, <2>1, <2>2, QuietKeepsLate DEF Continue
  <2>3. CASE r = Run(p)
    <3>1. Launching(p, r) /\ late[r] = 0
      BY <1>0, <1>2, <2>3 DEF Launch, Launching, LateOK
    <3>2. late'[r] = IF r \in stopped THEN 1 ELSE 0
      BY <1>0, <1>2, <2>3, <3>1 DEF Launch, TypeOK
    <3>3. CASE r \in stopped
      <4>1. \A q \in Procs : ~Launching(q, r)' /\ ~Writing(q, r)'
        BY <1>0, <1>2, <3>1, <3>3, NobodyNew DEF Continue, LateOK
      <4>. QED  BY <2>1, <3>2, <3>3, <4>1 DEF LateOK
    <3>4. CASE r \notin stopped
      BY <2>1, <3>2, <3>4 DEF LateOK
    <3>. QED  BY <3>3, <3>4
  <2>. QED  BY <2>2, <2>3
<1>3. CASE CreateRun(p)
  <2>1. PICK s \in Runs : status[s] = "NONE" /\ status' = [status EXCEPT ![s] = "CREATED"]
    BY <1>3 DEF CreateRun
  <2>2. late' = late /\ stopped' = stopped
    BY <1>3 DEF CreateRun, agentVars
  <2>3. CASE r # s
    BY <1>0, <1>3, <2>1, <2>2, <2>3, QuietKeepsLate DEF Start, TypeOK
  <2>4. CASE r = s
    BY <1>0, <2>1, <2>2, <2>4 DEF LateOK, TypeOK
  <2>. QED  BY <2>3, <2>4
<1>4. CASE ~WriteStatus(p) /\ ~Launch(p) /\ ~CreateRun(p)
  <2>1. status' = status /\ late' = late /\ stopped' = stopped
    BY <1>4 DEF Start, Continue, AcquireLock, Die, runVars, agentVars, ReadNextJob, StartApprove,
         StartReject, StartCancel, Enqueue, MarkJobRunning, SkipStoppedRun, FinishJob, ReadStatus,
         Raise, Execute, BlockPrompt, NoLockNeeded, ExpireOldLocks, ReadLock, InsertLock, Release, CountSteps,
         CheckBeforeStep, LaunchError, AgentReturns, CheckAfterStep, RecordStep,
         CreateApproval, ReadPending, DecideRead, DecideWrite, RequestCancellation, ReadJob,
         CancelJob, CloseCancellation
  <2>. QED  BY <1>0, <2>1, QuietKeepsLate
<1>. QED  BY <1>1, <1>2, <1>3, <1>4

(* One worker and one operator, killed anywhere: a run that was stopped    *)
(* with no other status write under way stays STOPPED and begins at most   *)
(* the invocation whose check had passed before (run_service.py:692).      *)
THEOREM CancellationStops ==
    ASSUME AtMostTwo
    PROVE  Spec => []CancelledSoon
<1>1. Init => StopInv
  BY InitIInv DEF IInv, StopInv, Init, LateOK
<1>2. StopInv /\ [Next]_vars => StopInv'
  <2>. SUFFICES ASSUME StopInv, [Next]_vars
                PROVE  StopInv'
    OBVIOUS
  <2>1. CASE \E p \in Procs : Start(p) \/ Continue(p) \/ Die(p)
    BY <2>1, ProcessKeepsStop
  <2>2. CASE ListLocks \/ \E r \in Runs : CancelQueuedJob(r) \/ ReleaseByHand(r)
    <3>1. RowsTyped /\ call' = call /\ UNCHANGED <<status, stopped, late>>
      BY <2>2, MaintenanceRows
         DEF StopInv, ListLocks, CancelQueuedJob, ReleaseByHand, runVars, agentVars
    <3>. QED  BY <3>1 DEF StopInv, TypeOK, RowsTyped, LateOK, Launching, Writing, At, Run
  <2>3. CASE UNCHANGED vars
    BY <2>3 DEF StopInv, TypeOK, LateOK, Launching, Writing, At, Run, vars
  <2>. QED  BY <2>1, <2>2, <2>3 DEF Next
<1>3. StopInv => CancelledSoon
  <2>. SUFFICES ASSUME StopInv, NEW r \in stopped
                PROVE  status[r] = "STOPPED" /\ late[r] <= 1
    BY DEF CancelledSoon
  <2>1. LateOK(r)
    BY DEF StopInv, TypeOK
  <2>. QED  BY <2>1 DEF LateOK
<1>. QED  BY <1>1, <1>2, <1>3, PTL DEF Spec

--------------------------------------------------------------------------------
(* Who drives a run. *)
Operators == Creators \cup Approvers \cup Cancellers
OneWorker == \A p, q \in Workers : p = q
OneOperator == \A p, q \in Operators : p = q

Updating(p, at) == call[p].pc \in {"statusRead", "statusWrite"} /\ call[p].at = at

(* An execution before its first look at the steps. *)
Starting(p) ==
    /\ Executing(p)
    /\ \/ call[p].pc \in {"enqueue", "claim", "checkRun", "execute", "lock", "readLock", "insertLock", "count"}
       \/ Updating(p, "start")

(* An approval that was decided. *)
Resuming(p) == Op(p) = "approve" /\ (At(p, "count") \/ Updating(p, "resume"))

(* The loop before and after an agent's invocation. *)
Turning(p) == call[p].pc \in {"loop", "launch"}
Working(p) == call[p].pc \in {"agent", "checkStop", "record"}

Driving(p) == Starting(p) \/ Resuming(p) \/ Turning(p) \/ Working(p) \/ At(p, "createApproval")

(* An approval that is not decided yet. *)
Deciding(p) ==
    Op(p) = "approve" /\ call[p].pc \in {"lock", "readLock", "insertLock", "decideRead", "decideWrite"}

Queued == {jobs[i] : i \in 1..Len(jobs)}
Unbegun(r) == approvals[r] = <<>> /\ steps[r] = 0 /\ invocations[r] = 0
Resumable(r) == steps[r] = invocations[r] /\ steps[r] < MaxLoops
Granted(r) == Cardinality(Approved(r))

(* Each handler belongs to the processes that begin it. *)
RoleOK(p) ==
    /\ Op(p) = "work" => p \in Workers /\ Run(p) \in Queued
    /\ Op(p) \in {"sync", "approve", "reject", "cancel"} => p \in Operators
    /\ Op(p) # "none" => status[Run(p)] # "NONE"
    /\ Op(p) = "none" => call[p].pc \in {"idle", "dead"}
    /\ Updating(p, "resume") => Op(p) = "approve"
    /\ At(p, "enqueue") => Op(p) = "sync"
    /\ Driving(p) \/ At(p, "count") => Op(p) \in {"sync", "work", "approve"}
    /\ At(p, "statusWrite") => call[p].to # "NONE"

(* What a driver knows of its run. *)
DriverOK(p) ==
    /\ Starting(p) => Unbegun(Run(p))
    /\ Resuming(p) \/ Turning(p) \/ At(p, "createApproval") => Resumable(Run(p))
    /\ Turning(p) \/ Working(p) \/ Updating(p, "resume") => call[p].idx = steps[Run(p)]
    /\ Working(p) => invocations[Run(p)] = steps[Run(p)] + 1 /\ steps[Run(p)] < MaxLoops
    /\ At(p, "record") /\ call[p].to \in {"RUNNING", "WAITING_APPROVAL"} =>
          steps[Run(p)] + 1 < MaxLoops
    /\ Driving(p) => PendingApprovals(Run(p)) = {}
    /\ Driving(p) => (Executing(p) <=> approvals[Run(p)] = <<>>)
    /\ Driving(p) /\ Op(p) = "sync" => Run(p) \notin Queued
    /\ Op(p) = "work" /\ ~At(p, "claim") => job[Run(p)] # "QUEUED"
    /\ Deciding(p) => PendingApprovals(Run(p)) # {}
    /\ At(p, "decideWrite") => call[p].idx \in PendingApprovals(Run(p))
    /\ gate[Run(p)] => /\ Resuming(p) \/ Turning(p) => invocations[Run(p)] <= Granted(Run(p))
                       /\ At(p, "record") => call[p].to # "RUNNING"

(* What holds of a run whoever drives it. *)
RunOK(r) ==
    /\ status[r] = "NONE" => Unbegun(r) /\ r \notin Queued
    /\ job[r] = "QUEUED" => Unbegun(r) /\ r \in Queued
    /\ PendingApprovals(r) # {} => Resumable(r)
    /\ \A i, k \in PendingApprovals(r) : i = k
    /\ invocations[r] <= MaxLoops
    /\ gate[r] => invocations[r] <= 1 + Granted(r)

DriveOK ==
    /\ \A p \in Procs : RoleOK(p) /\ DriverOK(p)
    /\ \A r \in Runs : RunOK(r)
    /\ \A p, q \in Procs : Driving(p) /\ Driving(q) /\ Run(p) = Run(q) => p = q

--------------------------------------------------------------------------------
(* The rows of run r are for its drivers what they were; a job may leave *)
(* the queue.                                                            *)
Still(r) ==
    /\ status'[r] = "NONE" <=> status[r] = "NONE"
    /\ gate'[r] = gate[r]
    /\ r \in Queued' <=> r \in Queued
    /\ job'[r] = "QUEUED" => job[r] = "QUEUED"
    /\ approvals'[r] = approvals[r]
    /\ steps'[r] = steps[r]
    /\ invocations'[r] = invocations[r]

Others(p) == \A q \in Procs : q # p => call'[q] = call[q]

(* What operators on rows say of such a run is what it was. *)
LEMMA StillRows ==
    ASSUME NEW r, Still(r)
    PROVE  /\ Unbegun(r)' <=> Unbegun(r)
           /\ Resumable(r)' <=> Resumable(r)
           /\ PendingApprovals(r)' = PendingApprovals(r)
           /\ Granted(r)' = Granted(r)
BY DEF Still, Unbegun, Resumable, PendingApprovals, Granted, Approved

(* The run keeps what holds of it. *)
LEMMA StillRun ==
    ASSUME NEW r, Still(r), RunOK(r)
    PROVE  RunOK(r)'
BY StillRows DEF Still, RunOK

(* The same of the run a call is about. *)
LEMMA StillRunOf ==
    ASSUME NEW p, Still(Run(p)), Run(p)' = Run(p)
    PROVE  /\ Unbegun(Run(p))' <=> Unbegun(Run(p))
           /\ Resumable(Run(p))' <=> Resumable(Run(p))
           /\ PendingApprovals(Run(p))' = PendingApprovals(Run(p))
           /\ Granted(Run(p))' = Granted(Run(p))
BY DEF Still, Unbegun, Resumable, PendingApprovals, Granted, Approved

(* A call that does not move is where it was. *)
LEMMA SameStage ==
    ASSUME NEW q, call'[q] = call[q]
    PROVE  /\ Run(q)' = Run(q) /\ Op(q)' = Op(q)
           /\ Starting(q)' <=> Starting(q)
           /\ Resuming(q)' <=> Resuming(q)
           /\ Turning(q)' <=> Turning(q)
           /\ Working(q)' <=> Working(q)
           /\ Driving(q)' <=> Driving(q)
           /\ Deciding(q)' <=> Deciding(q)
           /\ Executing(q)' <=> Executing(q)
           /\ \A at : Updating(q, at)' <=> Updating(q, at)
           /\ \A pc : At(q, pc)' <=> At(q, pc)
BY DEF Run, Op, Starting, Resuming, Turning, Working, Driving, Deciding, Executing, Updating, At

(* Its driver keeps what it knows. *)
LEMMA StillDriver ==
    ASSUME NEW q, call'[q] = call[q], Still(Run(q)), RoleOK(q), DriverOK(q)
    PROVE  RoleOK(q)' /\ DriverOK(q)'
<1>1. RoleOK(q)'
  BY SameStage DEF Still, RoleOK, Updating, At
<1>2. DriverOK(q)'
  <2>1. /\ steps[Run(q)]' = steps[Run(q)] /\ invocations[Run(q)]' = invocations[Run(q)]
        /\ approvals[Run(q)]' = approvals[Run(q)] /\ gate[Run(q)]' = gate[Run(q)]
        /\ (Run(q) \in Queued)' <=> Run(q) \in Queued
        /\ job[Run(q)]' = "QUEUED" => job[Run(q)] = "QUEUED"
    BY SameStage DEF Still
  <2>2. /\ (At(q, "claim")' <=> At(q, "claim")) /\ (At(q, "record")' <=> At(q, "record"))
        /\ (At(q, "createApproval")' <=> At(q, "createApproval"))
        /\ (At(q, "decideWrite")' <=> At(q, "decideWrite"))
        /\ (Updating(q, "resume")' <=> Updating(q, "resume"))
    BY DEF At, Updating
  <2>. QED  BY <2>1, <2>2, SameStage, StillRunOf DEF DriverOK
<1>. QED  BY <1>1, <1>2

(* A step of p about run r. *)
LEMMA StepKeepsDrive ==
    ASSUME TypeOK, DriveOK, NEW p \in Procs, Others(p), NEW r \in Runs,
           \A s \in Runs \ {r} : Still(s),
           RunOK(r)', RoleOK(p)', DriverOK(p)',
           \A q \in Procs \ {p} : Run(q) = r => RoleOK(q)' /\ DriverOK(q)',
           \A q \in Procs \ {p} : Driving(q) /\ Driving(p)' => Run(q) # Run(p)'
    PROVE  DriveOK'
<1>1. \A q \in Procs : Run(q) \in Runs
  BY DEF TypeOK, Calls, Run
<1>2. ASSUME NEW q \in Procs
      PROVE  RoleOK(q)' /\ DriverOK(q)'
  <2>1. CASE q = p
    BY <2>1
  <2>2. CASE q # p /\ Run(q) = r
    BY <2>2
  <2>3. CASE q # p /\ Run(q) # r
    BY <1>1, <2>3, StillDriver DEF Others, DriveOK
  <2>. QED  BY <2>1, <2>2, <2>3
<1>3. ASSUME NEW s \in Runs
      PROVE  RunOK(s)'
  BY StillRun DEF DriveOK
<1>4. ASSUME NEW q \in Procs, NEW s \in Procs, Driving(q)', Driving(s)', Run(q)' = Run(s)'
      PROVE  q = s
  <2>1. \A k \in Procs \ {p} : Run(k)' = Run(k) /\ (Driving(k)' <=> Driving(k))
    BY SameStage DEF Others
  <2>. QED  BY <1>4, <2>1 DEF DriveOK
<1>. QED  BY <1>2, <1>3, <1>4 DEF DriveOK

(* A step that leaves the rows as they are and makes no new driver. *)
LEMMA QuietKeepsDrive ==
    ASSUME TypeOK, DriveOK, NEW p \in Procs, Others(p), \A r \in Runs : Still(r),
           RoleOK(p)', DriverOK(p)', Driving(p)' => Driving(p) /\ Run(p)' = Run(p)
    PROVE  DriveOK'
<1> DEFINE r == Run(p)
<1>1. r \in Runs /\ \A q \in Procs : Run(q) \in Runs
  BY DEF TypeOK, Calls, Run
<1>3. \A q \in Procs \ {p} : RoleOK(q)' /\ DriverOK(q)'
  BY <1>1, StillDriver DEF Others, DriveOK
<1>4. \A q \in Procs \ {p} : Driving(q) /\ Driving(p)' => Run(q) # Run(p)'
  BY DEF DriveOK
<1>5. PICK s \in Runs : s = r
  BY <1>1
<1>6. RunOK(s)'
  BY StillRun DEF DriveOK
<1>. QED  BY <1>3, <1>4, <1>6, StepKeepsDrive

(* A call that drives nothing and decides nothing: before its first look, *)
(* past its last write in the section, or ended.                          *)
Out(c) ==
    \/ c.pc \in {"idle", "dead", "job", "raise", "release", "fail", "complete", "pending",
                 "request", "readJob", "cancelJob"}
    \/ c.pc \in {"statusRead", "statusWrite"} /\ c.at \in {"refuse", "settle", "reject", "cancel"}
    \/ c.pc = "decideRead" /\ c.op # "approve"

(* A call c may become d when d is out. *)
Outward(p, c, d) ==
    /\ Out(d)
    /\ d.pc = "statusWrite" => d.to # "NONE"
    /\ \/ d.op = "none" /\ d.pc \in {"idle", "dead"}
       \/ /\ c.op # "none" /\ d.op = c.op /\ d.run = c.run
          /\ c.op = "work" => c.pc # "claim"
       \/ /\ d.op \in {"approve", "reject", "cancel"} /\ p \in Operators
          /\ status[d.run] # "NONE"

(* What a call that goes out knows. *)
LEMMA OutwardOK ==
    ASSUME TypeOK, NEW p \in Procs, RoleOK(p), DriverOK(p), Outward(p, call[p], call'[p]),
           call'[p].run \in Runs, Queued \subseteq Queued',
           \A r \in Runs : status'[r] = "NONE" => status[r] = "NONE",
           \A r \in Runs : call'[p].op = "work" /\ job'[r] = "QUEUED" => job[r] = "QUEUED"
    PROVE  RoleOK(p)' /\ DriverOK(p)' /\ ~Driving(p)'
<1>0. Op(p)' = call'[p].op /\ Run(p)' = call'[p].run
  BY DEF Op, Run
<1>1. /\ ~Driving(p)' /\ ~Deciding(p)' /\ ~Starting(p)' /\ ~Resuming(p)' /\ ~Turning(p)'
      /\ ~Working(p)' /\ ~Updating(p, "resume")' /\ ~At(p, "createApproval")'
      /\ ~At(p, "record")' /\ ~At(p, "decideWrite")' /\ ~At(p, "count")'
      /\ ~At(p, "enqueue")' /\ ~At(p, "claim")'
  <2> DEFINE d == call'[p]
  <2>1. d.pc \notin {"enqueue", "claim", "checkRun", "execute", "lock", "readLock", "insertLock", "count",
                    "loop", "launch", "agent", "checkStop", "record", "createApproval",
                    "decideWrite"}
    BY DEF Outward, Out
  <2>2. d.pc \in {"statusRead", "statusWrite"} => d.at \notin {"start", "resume"}
    BY DEF Outward, Out
  <2>3. d.op = "approve" => d.pc # "decideRead"
    BY DEF Outward, Out
  <2>4. /\ ~Turning(p)' /\ ~Working(p)' /\ ~At(p, "createApproval")'
        /\ ~At(p, "record")' /\ ~At(p, "decideWrite")' /\ ~At(p, "count")'
        /\ ~At(p, "enqueue")' /\ ~At(p, "claim")'
    BY <2>1 DEF Turning, Working, At
  <2>5. ~Updating(p, "start")' /\ ~Updating(p, "resume")'
    BY <2>2 DEF Updating
  <2>6. ~Starting(p)'
    BY <2>1, <2>5 DEF Starting
  <2>7. ~Resuming(p)' /\ ~Deciding(p)'
    BY <2>1, <2>3, <2>4, <2>5 DEF Resuming, Deciding, Op
  <2>. QED  BY <2>4, <2>5, <2>6, <2>7 DEF Driving
<1>2. RoleOK(p)'
  <2>1. Op(p)' = "work" => Op(p) = "work" /\ Run(p)' = Run(p)
    BY <1>0 DEF Outward, Op, Run
  <2>2. Op(p)' = "work" => p \in Workers /\ (Run(p) \in Queued)'
    BY <1>0, <2>1 DEF RoleOK
  <2>3. Op(p)' \in {"sync", "approve", "reject", "cancel"} => p \in Operators
    BY <1>0 DEF Outward, RoleOK, Op
  <2>4. Op(p)' # "none" => status'[Run(p)'] # "NONE"
    BY <1>0 DEF Outward, RoleOK, Op, Run
  <2>5. Op(p)' = "none" => call'[p].pc \in {"idle", "dead"}
    BY <1>0 DEF Outward, Op
  <2>6. At(p, "statusWrite")' => call'[p].to # "NONE"
    BY DEF Outward, At
  <2>. QED  BY <1>1, <2>2, <2>3, <2>4, <2>5, <2>6 DEF RoleOK
<1>3. DriverOK(p)'
  <2>1. Op(p)' = "work" => job'[Run(p)'] # "QUEUED"
    BY <1>0 DEF Outward, RoleOK, DriverOK, Op, Run, At
  <2>. QED  BY <1>1, <2>1 DEF DriverOK
<1>. QED  BY <1>1, <1>2, <1>3

(* A call that goes out. *)
LEMMA GoesOut ==
    ASSUME TypeOK, DriveOK, NEW p \in Procs, Others(p), call'[p].run \in Runs,
           \A r \in Runs : Still(r), Outward(p, call[p], call'[p])
    PROVE  DriveOK'
<1>1. Queued \subseteq Queued'
  <2>1. \A r \in Queued : r \in Runs
    BY DEF TypeOK, Queued
  <2>. QED  BY <2>1 DEF Still
<1>2. /\ \A r \in Runs : status'[r] = "NONE" => status[r] = "NONE"
      /\ \A r \in Runs : job'[r] = "QUEUED" => job[r] = "QUEUED"
  BY DEF Still
<1>. QED  BY <1>1, <1>2, OutwardOK, QuietKeepsDrive DEF DriveOK

(* An execution on its way to its first look at the steps. *)
LEMMA GoesOn ==
    ASSUME TypeOK, DriveOK, NEW p \in Procs, Others(p), \A r \in Runs : Still(r),
           Starting(p), Starting(p)', Op(p)' = Op(p), Run(p)' = Run(p),
           call'[p].pc \notin {"enqueue", "claim"},
           At(p, "statusWrite")' => call'[p].to # "NONE",
           At(p, "claim") => job'[Run(p)] # "QUEUED"
    PROVE  DriveOK'
<1>1. RoleOK(p) /\ DriverOK(p) /\ Run(p) \in Runs
  BY DEF DriveOK, TypeOK, Calls, Run
<1>2. Still(Run(p))
  BY <1>1
<1>3. Executing(p) /\ Executing(p)'
  BY DEF Starting
<1>4. /\ ~Deciding(p)' /\ ~Resuming(p)' /\ ~Updating(p, "resume")'
      /\ ~Turning(p)' /\ ~Working(p)' /\ ~At(p, "createApproval")' /\ ~At(p, "record")'
      /\ ~At(p, "decideWrite")' /\ ~At(p, "enqueue")' /\ ~At(p, "claim")'
  <2>1. Op(p)' \in {"sync", "work"}
    BY <1>3 DEF Executing, Op
  <2>2. /\ ~Updating(p, "resume")' /\ ~Turning(p)' /\ ~Working(p)' /\ ~At(p, "createApproval")'
        /\ ~At(p, "record")' /\ ~At(p, "decideWrite")' /\ ~At(p, "enqueue")' /\ ~At(p, "claim")'
    BY DEF Starting, Turning, Working, At, Updating
  <2>. QED  BY <2>1, <2>2 DEF Deciding, Resuming
<1>5. Driving(p) /\ Driving(p)'
  BY DEF Driving
<1>6. RoleOK(p)'
  <2>1. Op(p) \in {"sync", "work"}
    BY <1>3 DEF Executing, Op
  <2>2. (Run(p) \in Queued)' <=> Run(p) \in Queued
    BY <1>2 DEF Still
  <2>3. status'[Run(p)'] # "NONE"
    BY <1>1, <1>2, <2>1 DEF Still, RoleOK
  <2>. QED  BY <1>1, <1>4, <1>5, <2>1, <2>2, <2>3 DEF RoleOK
<1>7. DriverOK(p)'
  <2>1. Op(p)' = "work" => job'[Run(p)'] # "QUEUED"
    BY <1>1, <1>2 DEF DriverOK, Still
  <2>2. Unbegun(Run(p))' /\ PendingApprovals(Run(p))' = {} /\ approvals'[Run(p)'] = <<>>
    BY <1>1, <1>2, <1>3, <1>5, StillRunOf DEF DriverOK, Still
  <2>3. Op(p)' = "sync" => ~(Run(p) \in Queued)'
    BY <1>1, <1>2, <1>5 DEF DriverOK, Still
  <2>. QED  BY <1>3, <1>4, <1>5, <2>1, <2>2, <2>3 DEF DriverOK
<1>. QED  BY <1>5, <1>6, <1>7, QuietKeepsDrive

(* A call beside the one driver of its run. *)
LEMMA Bystander ==
    ASSUME NEW q, call'[q] = call[q], RoleOK(q), DriverOK(q), ~Driving(q),
           status'[Run(q)] = "NONE" => status[Run(q)] = "NONE",
           Queued \subseteq Queued',
           Op(q) = "work" /\ job'[Run(q)] = "QUEUED" => job[Run(q)] = "QUEUED",
           Deciding(q) => PendingApprovals(Run(q))' # {},
           At(q, "decideWrite") => call[q].idx \in PendingApprovals(Run(q))'
    PROVE  RoleOK(q)' /\ DriverOK(q)'
<1>1. RoleOK(q)'
  BY SameStage DEF RoleOK, Updating, At
<1>2. /\ ~Driving(q)' /\ ~Starting(q)' /\ ~Resuming(q)' /\ ~Turning(q)' /\ ~Working(q)'
      /\ ~At(q, "createApproval")' /\ ~At(q, "record")' /\ ~Updating(q, "resume")'
  <2>1. Updating(q, "resume") => Op(q) = "approve"
    BY DEF RoleOK
  <2>. QED  BY <2>1, SameStage DEF Driving, Starting, Resuming, Turning, Working, At, Updating, Op
<1>3. (At(q, "claim")' <=> At(q, "claim")) /\ (At(q, "decideWrite")' <=> At(q, "decideWrite"))
  BY DEF At
<1>. QED  BY <1>1, <1>2, <1>3, SameStage DEF DriverOK

(* Rows nobody writes are still. *)
LEMMA QuietRows ==
    ASSUME UNCHANGED <<runVars, jobs, approvals, agentVars>>,
           \A r \in Runs : job'[r] = "QUEUED" => job[r] = "QUEUED"
    PROVE  \A r \in Runs : Still(r)
BY DEF Still, runVars, agentVars, Queued

(* What p knows when it takes a step, and what is known of every step. *)
LEMMA Stepping ==
    ASSUME TypeOK, DriveOK, NEW p \in Procs, Start(p) \/ Continue(p) \/ Die(p)
    PROVE  /\ call[p] \in Calls /\ CallOK(call[p]) /\ RoleOK(p) /\ DriverOK(p)
           /\ RunOK(Run(p)) /\ Run(p) \in Runs
           /\ call[p].pc \notin {"idle", "dead"} => Op(p) # "none"
           /\ TypeOK' /\ Others(p) /\ call'[p].run \in Runs
<1>1. call[p] \in Calls /\ CallOK(call[p]) /\ RoleOK(p) /\ DriverOK(p) /\ Run(p) \in Runs
  BY CallTyped DEF DriveOK, Run, Calls
<1>2. PICK r \in Runs : r = Run(p)
  BY <1>1
<1>3. RunOK(r)
  BY DEF DriveOK
<1>4. TypeOK' /\ Others(p)
  BY ProcessKeepsTypes DEF Others
<1>5. call'[p] \in Calls
  BY <1>4 DEF TypeOK
<1>. QED  BY <1>1, <1>2, <1>3, <1>4, <1>5 DEF RoleOK, Calls

(* The ways out. *)
LEMMA IdleOut ==
    ASSUME NEW p, NEW c
    PROVE  Outward(p, c, Idle)
BY DEF Idle, Outward, Out

(* To a point past the last write of the section, or to a cancellation's next. *)
LEMMA MoveOut ==
    ASSUME NEW p, NEW c, NEW d, c.op # "none", d.op = c.op, d.run = c.run, c.pc # "claim",
           d.pc \in {"job", "raise", "release", "fail", "complete", "pending", "readJob",
                     "cancelJob"}
    PROVE  Outward(p, c, d)
BY DEF Outward, Out

(* To an update that ends a run or the handler. *)
LEMMA UpdateOut ==
    ASSUME NEW p, NEW c, NEW d, c.op # "none", d.op = c.op, d.run = c.run, c.pc # "claim",
           d.pc \in {"statusRead", "statusWrite"}, d.pc = "statusWrite" => d.to # "NONE",
           d.at \in {"refuse", "settle", "reject", "cancel"}
    PROVE  Outward(p, c, d)
BY DEF Outward, Out

(* Such an update's beginning. *)
LEMMA SettingOut ==
    ASSUME TypeOK, NEW p \in Procs, Op(p) # "none", call[p].pc # "claim",
           NEW at \in {"refuse", "settle", "reject", "cancel"}, NEW to
    PROVE  Outward(p, call[p], Setting(p, at, to))
BY SettingReads, UpdateOut DEF Op, Run

(* To the end of the call. *)
LEMMA LeaveOut ==
    ASSUME TypeOK, NEW p \in Procs, Op(p) # "none", call[p].pc # "claim",
           NEW raised, Leave(p, raised)
    PROVE  Outward(p, call[p], call'[p])
<1>1. CASE call'[p] = Idle
  BY <1>1, IdleOut
<1>2. CASE Op(p) = "work" /\ call'[p].pc = "job" /\ call'[p].op = "work" /\ call'[p].run = Run(p)
  BY <1>2, MoveOut DEF Op, Run
<1>. QED  BY <1>1, <1>2, LeavesTo

(* A step that changes nothing but a call that goes out. *)
LEMMA OutwardKeeps ==
    ASSUME TypeOK, DriveOK, NEW p \in Procs, Start(p) \/ Continue(p) \/ Die(p),
           \A r \in Runs : Still(r), Outward(p, call[p], call'[p])
    PROVE  DriveOK'
BY Stepping, GoesOut

(* Calls that return, raise or are killed. *)
LEMMA EndKeepsDrive ==
    ASSUME TypeOK, DriveOK, NEW p \in Procs,
           FinishJob(p) \/ CloseCancellation(p) \/ Raise(p) \/ Release(p) \/ Die(p)
    PROVE  DriveOK'
<1>0. Continue(p) \/ Die(p)
  BY DEF Continue
<1>1. /\ call[p] \in Calls /\ Op(p) # "none" /\ \A d : Become(p, d) => call'[p] = d
  BY <1>0, Stepping, Becomes DEF FinishJob, CloseCancellation, Raise, Release, Die, At
<1>2. \A r \in Runs : Still(r)
  <2>1. UNCHANGED <<runVars, jobs, approvals, agentVars>>
    BY DEF FinishJob, CloseCancellation, Raise, Release, Die, jobVars
  <2>2. \A r \in Runs : job'[r] = "QUEUED" => job[r] = "QUEUED"
    BY DEF FinishJob, CloseCancellation, Raise, Release, Die, jobVars, TypeOK
  <2>. QED  BY <2>1, <2>2, QuietRows
<1>3. Outward(p, call[p], call'[p])
  <2>1. CASE FinishJob(p) \/ CloseCancellation(p)
    BY <1>1, <2>1, IdleOut DEF FinishJob, CloseCancellation
  <2>2. CASE Raise(p)
    BY <1>1, <2>2, LeaveOut DEF Raise, At
  <2>3. CASE Release(p)
    <3>1. CASE Op(p) = "cancel"
      <4>1. call'[p] = [call[p] EXCEPT !.pc = "complete"]
        BY <1>1, <2>3, <3>1 DEF Release, Goto, Op
      <4>. QED  BY <1>1, <2>3, <4>1, MoveOut DEF Calls, Op, Release, At
    <3>2. CASE Op(p) # "cancel"
      BY <1>1, <2>3, <3>2, LeaveOut DEF Release, At, Op
    <3>. QED  BY <3>1, <3>2
  <2>4. CASE Die(p)
    <3>1. call'[p] = [Idle EXCEPT !.pc = "dead", !.run = Run(p)]
      BY <1>1, <2>4 DEF Die
    <3>. QED  BY <3>1 DEF Idle, Outward, Out
  <2>. QED  BY <2>1, <2>2, <2>3, <2>4
<1>. QED  BY <1>0, <1>2, <1>3, OutwardKeeps

(* cancel_run, and what precedes a decision, drive nothing. *)
LEMMA CancelKeepsDrive ==
    ASSUME TypeOK, DriveOK, NEW p \in Procs,
           RequestCancellation(p) \/ ReadJob(p) \/ CancelJob(p)
    PROVE  DriveOK'
<1>0. Continue(p)
  BY DEF Continue
<1>1. /\ call[p] \in Calls /\ Op(p) # "none" /\ call[p].pc # "claim"
      /\ \A d : Become(p, d) => call'[p] = d
  BY <1>0, Stepping, Becomes DEF RequestCancellation, ReadJob, CancelJob, At
<1>2. \A r \in Runs : Still(r)
  <2>1. UNCHANGED <<runVars, jobs, approvals, agentVars>>
    BY DEF RequestCancellation, ReadJob, CancelJob, jobVars
  <2>2. \A r \in Runs : job'[r] = "QUEUED" => job[r] = "QUEUED"
    BY DEF RequestCancellation, ReadJob, CancelJob, jobVars, TypeOK
  <2>. QED  BY <2>1, <2>2, QuietRows
<1>3. Outward(p, call[p], JobDone(p))
  <2>1. Outward(p, call[p], [call[p] EXCEPT !.pc = "pending"])
    BY <1>1, MoveOut DEF Calls, Op
  <2>. QED  BY <1>1, <2>1, SettingOut DEF JobDone
<1>4. Outward(p, call[p], call'[p])
  <2>1. CASE RequestCancellation(p)
    <3>1. call'[p] = [call[p] EXCEPT !.row = Len(cancellations'[Run(p)]), !.pc = "readJob"]
      BY <1>1, <2>1 DEF RequestCancellation
    <3>. QED  BY <1>1, <3>1, MoveOut DEF Calls, Op
  <2>2. CASE ReadJob(p)
    <3>1. Outward(p, call[p], [call[p] EXCEPT !.pc = "cancelJob"])
      BY <1>1, MoveOut DEF Calls, Op
    <3>. QED  BY <1>1, <1>3, <2>2, <3>1 DEF ReadJob
  <2>3. CASE CancelJob(p)
    BY <1>1, <1>3, <2>3 DEF CancelJob
  <2>. QED  BY <2>1, <2>2, <2>3
<1>. QED  BY <1>0, <1>2, <1>4, OutwardKeeps

(* A new approval, rejection or cancellation. *)
LEMMA StartKeepsDrive ==
    ASSUME TypeOK, DriveOK, NEW p \in Procs, NEW r \in Runs,
           StartApprove(p, r) \/ StartReject(p, r) \/ StartCancel(p, r)
    PROVE  DriveOK'
<1>0. Start(p)
  BY DEF Start
<1>1. \A d : Become(p, d) => call'[p] = d
  BY Becomes
<1>2. \A s \in Runs : Still(s)
  BY QuietRows DEF StartApprove, StartReject, StartCancel, jobVars
<1>3. p \in Operators /\ status[r] # "NONE"
  BY DEF StartApprove, StartReject, StartCancel, Operators, RunStatus
<1>4. /\ call'[p].op \in {"approve", "reject", "cancel"}
      /\ call'[p].pc \in {"pending", "request"} /\ call'[p].run = r
  BY <1>1 DEF StartApprove, StartReject, StartCancel, Idle
<1>5. Outward(p, call[p], call'[p])
  BY <1>3, <1>4 DEF Outward, Out
<1>. QED  BY <1>0, <1>2, <1>5, OutwardKeeps

(* A step of an execution on its way to its first look at the steps. *)
LEMMA OnwardKeeps ==
    ASSUME TypeOK, DriveOK, NEW p \in Procs, Continue(p), \A r \in Runs : Still(r), Starting(p),
           call'[p].op = Op(p), call'[p].run = Run(p),
           \/ call'[p].pc \in {"checkRun", "execute", "lock", "readLock", "insertLock", "count"}
           \/ call'[p].pc \in {"statusRead", "statusWrite"} /\ call'[p].at = "start",
           call'[p].pc = "statusWrite" => call'[p].to # "NONE",
           At(p, "claim") => job'[Run(p)] # "QUEUED"
    PROVE  DriveOK'
<1>1. Op(p)' = Op(p) /\ Run(p)' = Run(p)
  BY DEF Op, Run
<1>2. Starting(p)'
  <2>1. Op(p) \in {"sync", "work"}
    BY DEF Starting, Executing, Op
  <2>2. Executing(p)'
    BY <2>1 DEF Executing
  <2>. QED  BY <2>2 DEF Starting, Updating
<1>3. call'[p].pc \notin {"enqueue", "claim"} /\ (At(p, "statusWrite")' => call'[p].to # "NONE")
  BY DEF At
<1>. QED  BY <1>1, <1>2, <1>3, Stepping, GoesOn

(* A step of an approval that has seen the one it will decide. *)
LEMMA DecidingKeeps ==
    ASSUME TypeOK, DriveOK, NEW p \in Procs, Continue(p), \A r \in Runs : Still(r),
           Op(p) = "approve", PendingApprovals(Run(p)) # {},
           call'[p].op = Op(p), call'[p].run = Run(p),
           call'[p].pc \in {"lock", "readLock", "insertLock", "decideRead"}
    PROVE  DriveOK'
<1>1. Op(p)' = "approve" /\ Run(p)' = Run(p) /\ RoleOK(p) /\ Run(p) \in Runs /\ Others(p)
  BY Stepping DEF Op, Run
<1>2. Still(Run(p))
  BY <1>1
<1>3. /\ ~Driving(p)' /\ ~Starting(p)' /\ ~Resuming(p)' /\ ~Turning(p)' /\ ~Working(p)'
      /\ ~Updating(p, "resume")' /\ ~At(p, "createApproval")' /\ ~At(p, "record")'
      /\ ~At(p, "decideWrite")' /\ ~At(p, "count")' /\ ~At(p, "enqueue")'
      /\ ~At(p, "statusWrite")'
  <2>1. /\ ~Turning(p)' /\ ~Working(p)' /\ ~Updating(p, "resume")' /\ ~At(p, "createApproval")'
        /\ ~At(p, "record")' /\ ~At(p, "decideWrite")' /\ ~At(p, "count")' /\ ~At(p, "enqueue")'
        /\ ~At(p, "statusWrite")'
    BY DEF Turning, Working, Updating, At
  <2>2. ~Starting(p)'
    BY <1>1 DEF Starting, Executing, Op
  <2>. QED  BY <2>1, <2>2 DEF Resuming, Driving
<1>4. RoleOK(p)'
  <2>1. status'[Run(p)'] # "NONE" /\ p \in Operators
    BY <1>1, <1>2 DEF RoleOK, Still
  <2>. QED  BY <1>1, <1>3, <2>1 DEF RoleOK
<1>5. PendingApprovals(Run(p))' # {}
  BY <1>1, <1>2, StillRunOf
<1>6. DriverOK(p)'
  BY <1>1, <1>3, <1>5 DEF DriverOK
<1>. QED  BY <1>1, <1>3, <1>4, <1>6, QuietKeepsDrive

(* A worker that has read its job. *)
LEMMA ClaimKeepsDrive ==
    ASSUME TypeOK, DriveOK, NEW p \in Procs, MarkJobRunning(p) \/ SkipStoppedRun(p)
    PROVE  DriveOK'
<1>0. Continue(p)
  BY DEF Continue
<1>1. /\ call[p] \in Calls /\ Run(p) \in Runs /\ Op(p) = "work" /\ Starting(p)
      /\ \A d : Become(p, d) => call'[p] = d
  <2>1. call[p] \in Calls /\ CallOK(call[p]) /\ Run(p) \in Runs
    BY <1>0, Stepping
  <2>2. call[p].pc \in {"claim", "checkRun"} /\ Op(p) = "work"
    BY <2>1 DEF MarkJobRunning, SkipStoppedRun, At, CallOK, Op
  <2>. QED  BY <2>1, <2>2, Becomes DEF Starting, Executing, Op
<1>2. \A r \in Runs : Still(r)
  <2>1. UNCHANGED <<runVars, jobs, approvals, agentVars>>
    BY DEF MarkJobRunning, SkipStoppedRun, jobVars
  <2>2. \A r \in Runs : job'[r] = "QUEUED" => job[r] = "QUEUED"
    BY DEF MarkJobRunning, SkipStoppedRun, jobVars, TypeOK
  <2>. QED  BY <2>1, <2>2, QuietRows
<1>3. CASE MarkJobRunning(p)
  <2>1. call'[p] = [call[p] EXCEPT !.pc = "checkRun"] /\ job'[Run(p)] = "RUNNING"
    BY <1>1, <1>3 DEF MarkJobRunning, Goto, TypeOK
  <2>. QED  BY <1>0, <1>1, <1>2, <2>1, OnwardKeeps DEF Calls, Op, Run
<1>4. CASE SkipStoppedRun(p)
  <2>1. call[p].pc = "checkRun" /\ (Leave(p, TRUE) \/ Goto(p, "execute"))
    BY <1>4 DEF SkipStoppedRun, At
  <2>2. CASE Leave(p, TRUE)
    BY <1>0, <1>1, <1>2, <2>1, <2>2, LeaveOut, OutwardKeeps
  <2>3. CASE Goto(p, "execute")
    <3>1. call'[p] = [call[p] EXCEPT !.pc = "execute"]
      BY <1>1, <2>3 DEF Goto
    <3>. QED  BY <1>0, <1>1, <1>2, <2>1, <3>1, OnwardKeeps DEF Calls, Op, Run, At
  <2>. QED  BY <2>1, <2>2, <2>3
<1>. QED  BY <1>3, <1>4

(* execute_run_step to its lock. *)
LEMMA ExecuteKeepsDrive ==
    ASSUME TypeOK, DriveOK, NEW p \in Procs, Execute(p) \/ BlockPrompt(p)
    PROVE  DriveOK'
<1>0. Continue(p)
  BY DEF Continue
<1>1. /\ call[p] \in Calls /\ Op(p) # "none" /\ call[p].pc # "claim" /\ Starting(p)
      /\ \A d : Become(p, d) => call'[p] = d
  <2>1. /\ call[p] \in Calls /\ CallOK(call[p])
        /\ call[p].pc \notin {"idle", "dead"} => Op(p) # "none"
    BY <1>0, Stepping
  <2>2. call[p].pc \in {"execute", "lock"} /\ Executing(p)
    BY <2>1 DEF Execute, BlockPrompt, At, CallOK, Executing
  <2>. QED  BY <2>1, <2>2, Becomes DEF Starting
<1>2. \A r \in Runs : Still(r)
  BY QuietRows DEF Execute, BlockPrompt, jobVars
<1>3. CASE Leave(p, TRUE)
  BY <1>0, <1>1, <1>2, <1>3, LeaveOut, OutwardKeeps
<1>4. CASE Become(p, Setting(p, "refuse", "FAILED"))
  BY <1>0, <1>1, <1>2, <1>4, SettingOut, OutwardKeeps
<1>5. CASE Execute(p) /\ Become(p, Setting(p, "start", "RUNNING"))
  <2>1. call'[p] = Setting(p, "start", "RUNNING") /\ ~At(p, "claim")
    BY <1>1, <1>5 DEF At
  <2>2. /\ call'[p].pc = "statusRead" /\ call'[p].at = "start"
        /\ call'[p].op = Op(p) /\ call'[p].run = Run(p)
    BY <2>1, SettingReads
  <2>. QED  BY <1>0, <1>1, <1>2, <2>1, <2>2, OnwardKeeps
<1>. QED  BY <1>3, <1>4, <1>5 DEF Execute, BlockPrompt

(* acquire_lock. *)
LEMMA LockKeepsDrive ==
    ASSUME TypeOK, DriveOK, NEW p \in Procs,
           NoLockNeeded(p) \/ ExpireOldLocks(p) \/ ReadLock(p) \/ InsertLock(p)
    PROVE  DriveOK'
<1>0. Continue(p)
  BY DEF Continue, AcquireLock, NoLockNeeded, ExpireOldLocks, ReadLock
<1>1. /\ call[p] \in Calls /\ Op(p) # "none" /\ call[p].pc \in {"lock", "readLock", "insertLock"}
      /\ Op(p) \in {"sync", "work", "approve"} /\ DriverOK(p)
      /\ \A d : Become(p, d) => call'[p] = d
  <2>1. call[p].pc \in {"lock", "readLock", "insertLock"}
    BY DEF NoLockNeeded, ExpireOldLocks, ReadLock, InsertLock, At
  <2>. QED  BY <1>0, <2>1, Stepping, Becomes DEF CallOK, Op
<1>2. \A r \in Runs : Still(r)
  BY QuietRows DEF NoLockNeeded, ExpireOldLocks, ReadLock, InsertLock, jobVars
<1>3. \/ Become(p, [call[p] EXCEPT !.pc = "readLock"])
      \/ Become(p, [call[p] EXCEPT !.pc = "insertLock"]) \/ Become(p, Enter(p))
      \/ Become(p, Setting(p, "refuse", "FAILED")) \/ Become(p, Idle)
  BY DEF NoLockNeeded, ExpireOldLocks, ReadLock, InsertLock, Goto
<1>4. CASE Become(p, Setting(p, "refuse", "FAILED"))
  BY <1>0, <1>1, <1>2, <1>4, SettingOut, OutwardKeeps
<1>5. CASE Become(p, Idle)
  BY <1>0, <1>1, <1>2, <1>5, IdleOut, OutwardKeeps
<1>6. CASE \/ Become(p, [call[p] EXCEPT !.pc = "readLock"])
           \/ Become(p, [call[p] EXCEPT !.pc = "insertLock"]) \/ Become(p, Enter(p))
  <2>1. /\ call'[p].op = Op(p) /\ call'[p].run = Run(p)
        /\ call'[p].pc \in {"readLock", "insertLock", IF Executing(p) THEN "count" ELSE "decideRead"}
    BY <1>1, <1>6 DEF Enter, Calls, Op, Run
  <2>2. CASE Executing(p)
    <3>1. Starting(p) /\ ~At(p, "claim")
      BY <1>1, <2>2 DEF Starting, At
    <3>. QED  BY <1>0, <1>2, <2>1, <2>2, <3>1, OnwardKeeps
  <2>3. CASE ~Executing(p)
    <3>1. Op(p) = "approve"
      BY <1>1, <2>3 DEF Executing, Op
    <3>2. PendingApprovals(Run(p)) # {}
      BY <1>1, <3>1 DEF DriverOK, Deciding
    <3>. QED  BY <1>0, <1>2, <2>1, <2>3, <3>1, <3>2, DecidingKeeps
  <2>. QED  BY <2>2, <2>3
<1>. QED  BY <1>3, <1>4, <1>5, <1>6

(* The look for a pending approval. *)
LEMMA ReadPendingKeepsDrive ==
    ASSUME TypeOK, DriveOK, NEW p \in Procs, ReadPending(p)
    PROVE  DriveOK'
<1>0. Continue(p)
  BY DEF Continue
<1>1. /\ call[p] \in Calls /\ Op(p) # "none" /\ call[p].pc # "claim"
      /\ \A d : Become(p, d) => call'[p] = d
  BY <1>0, Stepping, Becomes DEF ReadPending, At
<1>2. \A r \in Runs : Still(r)
  BY QuietRows DEF ReadPending, jobVars
<1>3. \/ PendingApprovals(Run(p)) # {} /\ Op(p) = "approve" /\ Become(p, [call[p] EXCEPT !.pc = "lock"])
      \/ Op(p) # "approve" /\ Become(p, [call[p] EXCEPT !.pc = "decideRead"])
      \/ Become(p, Setting(p, "cancel", "STOPPED"))
      \/ Become(p, Idle)
  BY DEF ReadPending, Op
<1>4. CASE PendingApprovals(Run(p)) # {} /\ Op(p) = "approve"
           /\ Become(p, [call[p] EXCEPT !.pc = "lock"])
  <2>1. call'[p].op = Op(p) /\ call'[p].run = Run(p) /\ call'[p].pc = "lock"
    BY <1>1, <1>4 DEF Calls, Op, Run
  <2>. QED  BY <1>0, <1>2, <1>4, <2>1, DecidingKeeps
<1>5. CASE Op(p) # "approve" /\ Become(p, [call[p] EXCEPT !.pc = "decideRead"])
  <2>1. /\ call'[p].op = Op(p) /\ call'[p].run = Run(p) /\ call'[p].pc = "decideRead"
    BY <1>1, <1>5 DEF Calls, Op, Run
  <2>2. Outward(p, call[p], call'[p])
    BY <1>1, <1>5, <2>1 DEF Outward, Out, Op, Run
  <2>. QED  BY <1>0, <1>2, <2>2, OutwardKeeps
<1>6. CASE Become(p, Setting(p, "cancel", "STOPPED"))
  BY <1>0, <1>1, <1>2, <1>6, SettingOut, OutwardKeeps
<1>7. CASE Become(p, Idle)
  BY <1>0, <1>1, <1>2, <1>7, IdleOut, OutwardKeeps
<1>. QED  BY <1>3, <1>4, <1>5, <1>6, <1>7

(* Where a driver may go in a step that writes no row, and what it must know *)
(* there: that the run may go on, or what its agent's step makes of it.      *)
Onward(p, d) ==
    \/ /\ d.pc \in {"loop", "launch"} \/ (d.pc \in {"statusRead", "statusWrite"} /\ d.at = "resume"
                                          /\ d.op = "approve")
       /\ Resumable(Run(p)) /\ d.idx = steps[Run(p)]
       /\ gate[Run(p)] => invocations[Run(p)] <= Granted(Run(p))
    \/ /\ d.pc \in {"checkStop", "record"} /\ Working(p) /\ d.idx = call[p].idx
       /\ d.pc = "record" =>
             /\ d.to \in {"RUNNING", "WAITING_APPROVAL"} => steps[Run(p)] + 1 < MaxLoops
             /\ gate[Run(p)] => d.to # "RUNNING"

(* A driver that goes on in the loop, or back to it after an approval. *)
LEMMA DrivesOn ==
    ASSUME TypeOK, DriveOK, NEW p \in Procs, Continue(p), \A r \in Runs : Still(r),
           Driving(p), ~At(p, "claim"), call'[p].op = Op(p), call'[p].run = Run(p),
           Onward(p, call'[p]), call'[p].pc = "statusWrite" => call'[p].to # "NONE"
    PROVE  DriveOK'
<1>1. /\ Op(p)' = Op(p) /\ Run(p)' = Run(p) /\ RoleOK(p) /\ DriverOK(p) /\ Run(p) \in Runs
      /\ Others(p)
  BY Stepping DEF Op, Run
<1>2. Still(Run(p))
  BY <1>1
<1>3. /\ ~Starting(p)' /\ ~Deciding(p)' /\ ~At(p, "createApproval")' /\ ~At(p, "decideWrite")'
      /\ ~At(p, "count")' /\ ~At(p, "enqueue")' /\ ~At(p, "claim")'
  <2>1. /\ ~At(p, "createApproval")' /\ ~At(p, "decideWrite")'
        /\ ~At(p, "count")' /\ ~At(p, "enqueue")' /\ ~At(p, "claim")'
        /\ ~Updating(p, "start")'
    BY DEF Onward, At, Updating
  <2>2. call'[p].pc \notin {"enqueue", "claim", "checkRun", "execute", "lock", "readLock", "insertLock", "count",
                            "decideRead", "decideWrite"}
    BY DEF Onward
  <2>. QED  BY <2>1, <2>2 DEF Starting, Deciding
<1>4. Driving(p)'
  <2>1. CASE call'[p].pc \in {"loop", "launch", "checkStop", "record"}
    BY <2>1 DEF Driving, Turning, Working
  <2>2. CASE call'[p].pc \in {"statusRead", "statusWrite"} /\ call'[p].at = "resume"
              /\ call'[p].op = "approve"
    BY <2>2 DEF Driving, Resuming, Updating, Op
  <2>. QED  BY <2>1, <2>2 DEF Onward
<1>5. /\ Executing(p)' <=> Executing(p)
      /\ (Run(p) \in Queued)' <=> Run(p) \in Queued
      /\ approvals[Run(p)]' = approvals[Run(p)] /\ steps[Run(p)]' = steps[Run(p)]
      /\ invocations[Run(p)]' = invocations[Run(p)] /\ gate[Run(p)]' = gate[Run(p)]
      /\ status'[Run(p)'] # "NONE" <=> status[Run(p)] # "NONE"
      /\ job'[Run(p)'] = "QUEUED" => job[Run(p)] = "QUEUED"
  BY <1>1, <1>2 DEF Still, Executing, Op
<1>6. RoleOK(p)'
  <2>1. Updating(p, "resume")' => Op(p)' = "approve"
    BY DEF Onward, Updating, Op
  <2>2. At(p, "statusWrite")' => call'[p].to # "NONE"
    BY DEF At
  <2>3. Op(p) \in {"sync", "work", "approve"}
    BY <1>1 DEF RoleOK
  <2>. QED  BY <1>1, <1>3, <1>5, <2>1, <2>2, <2>3 DEF RoleOK
<1>7. DriverOK(p)'
  <2>1. /\ PendingApprovals(Run(p))' = {} /\ (Resumable(Run(p))' <=> Resumable(Run(p)))
        /\ Granted(Run(p))' = Granted(Run(p))
    BY <1>1, <1>2, StillRunOf DEF DriverOK
  <2>2. CASE Working(p)' 
    <3>1. Working(p) /\ call'[p].idx = call[p].idx /\ ~Resuming(p)' /\ ~Turning(p)'
          /\ ~Updating(p, "resume")'
      BY <2>2 DEF Onward, Working, Turning, Resuming, Updating, At
    <3>2. At(p, "record")' =>
             /\ call'[p].to \in {"RUNNING", "WAITING_APPROVAL"} => steps[Run(p)] + 1 < MaxLoops
             /\ gate[Run(p)] => call'[p].to # "RUNNING"
      BY DEF Onward, At
    <3>. QED  BY <1>1, <1>3, <1>4, <1>5, <2>1, <2>2, <3>1, <3>2 DEF DriverOK
  <2>3. CASE ~Working(p)'
    <3>1. /\ Resumable(Run(p)) /\ call'[p].idx = steps[Run(p)]
          /\ gate[Run(p)] => invocations[Run(p)] <= Granted(Run(p))
      BY <2>3 DEF Onward, Working
    <3>2. ~At(p, "record")'
      BY <2>3 DEF Working, At
    <3>. QED  BY <1>1, <1>3, <1>4, <1>5, <2>1, <2>3, <3>1, <3>2 DEF DriverOK
  <2>. QED  BY <2>2, <2>3
<1>. QED  BY <1>1, <1>4, <1>6, <1>7, QuietKeepsDrive

(* The approvals that were granted are finitely many. *)
LEMMA GrantedNat ==
    ASSUME TypeOK, NEW r \in Runs
    PROVE  Granted(r) \in Nat /\ IsFiniteSet(Approved(r))
<1>1. DOMAIN approvals[r] = 1..Len(approvals[r]) /\ Len(approvals[r]) \in Nat
  BY DEF TypeOK
<1>2. IsFiniteSet(1..Len(approvals[r]))
  BY <1>1, FS_Interval
<1>3. Approved(r) \subseteq 1..Len(approvals[r])
  BY <1>1 DEF Approved
<1>4. IsFiniteSet(Approved(r))
  BY <1>2, <1>3, FS_Subset
<1>. QED  BY <1>4, FS_CardinalityType DEF Granted

(* The steps are counted before the first turn of the loop. *)
LEMMA CountKeepsDrive ==
    ASSUME TypeOK, DriveOK, NEW p \in Procs, CountSteps(p)
    PROVE  DriveOK'
<1>0. Continue(p)
  BY DEF Continue
<1>1. /\ call[p] \in Calls /\ Run(p) \in Runs /\ DriverOK(p) /\ At(p, "count") /\ ~At(p, "claim")
      /\ Op(p) \in {"sync", "work", "approve"} /\ \A d : Become(p, d) => call'[p] = d
  BY <1>0, Stepping, Becomes DEF CountSteps, At, RoleOK
<1>2. \A r \in Runs : Still(r)
  BY QuietRows DEF CountSteps, jobVars
<1>3. CASE Executing(p)
  <2>1. Starting(p) /\ Driving(p)
    BY <1>1, <1>3 DEF Starting, Driving, At
  <2>2. Resumable(Run(p)) /\ invocations[Run(p)] <= Granted(Run(p))
    BY <1>1, <2>1, GrantedNat, RunsAssumption DEF DriverOK, Unbegun, Resumable
  <2>3. call'[p] = [call[p] EXCEPT !.idx = steps[Run(p)], !.pc = "loop"]
    BY <1>1, <1>3 DEF CountSteps
  <2>4. /\ call'[p].op = Op(p) /\ call'[p].run = Run(p) /\ call'[p].pc = "loop"
        /\ call'[p].idx = steps[Run(p)]
    BY <1>1, <2>3 DEF Calls, Op, Run
  <2>. QED  BY <1>0, <1>1, <1>2, <2>1, <2>2, <2>4, DrivesOn DEF Onward
<1>4. CASE ~Executing(p)
  <2>0. Op(p) = "approve"
    BY <1>1, <1>4 DEF Executing, Op
  <2>1. Resuming(p) /\ Driving(p)
    BY <1>1, <2>0 DEF Resuming, Driving
  <2>2. Resumable(Run(p)) /\ (gate[Run(p)] => invocations[Run(p)] <= Granted(Run(p)))
    BY <1>1, <2>1 DEF DriverOK
  <2>3. call'[p] = [Setting(p, "resume", "RUNNING") EXCEPT !.idx = steps[Run(p)]]
    BY <1>1, <1>4 DEF CountSteps
  <2>4. /\ call'[p].op = Op(p) /\ call'[p].run = Run(p) /\ call'[p].pc = "statusRead"
        /\ call'[p].at = "resume" /\ call'[p].idx = steps[Run(p)]
    BY <1>1, <2>3 DEF Calls, Op, Run, Setting
  <2>. QED  BY <1>0, <1>1, <1>2, <2>0, <2>1, <2>2, <2>4, DrivesOn DEF Onward
<1>. QED  BY <1>3, <1>4

(* What a call at the point of an update is doing. *)
LEMMA UpdatingAt ==
    ASSUME TypeOK, DriveOK, NEW p \in Procs, ReadStatus(p) \/ WriteStatus(p)
    PROVE  /\ Op(p) # "none" /\ ~At(p, "claim") /\ call[p].pc # "claim"
           /\ call[p].at = "start" => Starting(p)
           /\ call[p].at = "resume" => /\ Op(p) = "approve" /\ Driving(p)
                                       /\ Resumable(Run(p)) /\ call[p].idx = steps[Run(p)]
                                       /\ gate[Run(p)] => invocations[Run(p)] <= Granted(Run(p))
           /\ call[p].at \in {"start", "resume", "refuse", "settle", "reject", "cancel"}
<1>1. call[p].pc \in {"statusRead", "statusWrite"}
  BY DEF ReadStatus, WriteStatus, At
<1>2. /\ call[p] \in Calls /\ CallOK(call[p]) /\ RoleOK(p) /\ DriverOK(p) /\ Op(p) # "none"
  BY <1>1, Stepping DEF Continue
<1>3. call[p].at = "start" => Starting(p)
  BY <1>1, <1>2 DEF CallOK, Starting, Updating, Executing
<1>4. call[p].at = "resume" => Updating(p, "resume")
  BY <1>1 DEF Updating
<1>5. call[p].at = "resume" => Op(p) = "approve" /\ Resuming(p) /\ Driving(p)
  BY <1>2, <1>4 DEF RoleOK, Resuming, Driving
<1>. QED  BY <1>1, <1>2, <1>3, <1>4, <1>5 DEF DriverOK, CallOK, Calls, At

(* An update goes on, or ends, as the handler says. *)
LEMMA ReadStatusKeepsDrive ==
    ASSUME TypeOK, DriveOK, NEW p \in Procs, ReadStatus(p)
    PROVE  DriveOK'
<1>0. Continue(p)
  BY DEF Continue
<1>1. call[p] \in Calls /\ Run(p) \in Runs /\ \A d : Become(p, d) => call'[p] = d
  BY <1>0, Stepping, Becomes
<1>2. \A r \in Runs : Still(r)
  BY QuietRows DEF ReadStatus, jobVars
<1>3. CASE call[p].to \in Allowed(status[Run(p)])
  <2>1. call'[p] = [call[p] EXCEPT !.pc = "statusWrite"]
    BY <1>1, <1>3 DEF ReadStatus, Goto
  <2>2. /\ call'[p].pc = "statusWrite" /\ call'[p].at = call[p].at /\ call'[p].op = Op(p)
        /\ call'[p].run = Run(p) /\ call'[p].to = call[p].to /\ call'[p].idx = call[p].idx
    BY <1>1, <2>1 DEF Calls, Op, Run
  <2>3. call[p].to # "NONE"
    BY <1>3 DEF Allowed, Terminal
  <2>4. CASE call[p].at = "start"
    BY <1>0, <1>2, <2>2, <2>3, <2>4, UpdatingAt, OnwardKeeps
  <2>5. CASE call[p].at = "resume"
    BY <1>0, <1>2, <2>2, <2>3, <2>5, UpdatingAt, DrivesOn DEF Onward
  <2>6. CASE call[p].at \in {"refuse", "settle", "reject", "cancel"}
    <3>1. Outward(p, call[p], call'[p])
      BY <2>2, <2>3, <2>6, UpdatingAt, UpdateOut DEF Op, Run
    <3>. QED  BY <1>0, <1>2, <3>1, OutwardKeeps
  <2>. QED  BY <2>4, <2>5, <2>6, UpdatingAt
<1>4. CASE call[p].to \notin Allowed(status[Run(p)])
  <2>1. call'[p] = [call[p] EXCEPT !.pc = OnError(call[p].at), !.raised = TRUE]
    BY <1>1, <1>4 DEF ReadStatus
  <2>2. call'[p].pc = OnError(call[p].at) /\ call'[p].op = Op(p) /\ call'[p].run = Run(p)
    BY <1>1, <2>1 DEF Calls, Op, Run
  <2>3. OnError(call[p].at) \in {"release", "fail", "raise"}
    BY DEF OnError
  <2>4. Outward(p, call[p], call'[p])
    BY <2>2, <2>3, UpdatingAt, MoveOut DEF Op, Run
  <2>. QED  BY <1>0, <1>2, <2>4, OutwardKeeps
<1>. QED  BY <1>3, <1>4

(* A status is written: the run has a row before and after. *)
LEMMA WriteStatusKeepsDrive ==
    ASSUME TypeOK, DriveOK, NEW p \in Procs, WriteStatus(p)
    PROVE  DriveOK'
<1>0. Continue(p)
  BY DEF Continue
<1>1. /\ call[p] \in Calls /\ Run(p) \in Runs /\ RoleOK(p) /\ At(p, "statusWrite")
      /\ \A d : Become(p, d) => call'[p] = d
  BY <1>0, Stepping, Becomes DEF WriteStatus
<1>2. \A r \in Runs : Still(r)
  <2>1. call[p].to # "NONE" /\ status[Run(p)] # "NONE"
    BY <1>1, UpdatingAt DEF RoleOK
  <2>2. status' = [status EXCEPT ![Run(p)] = call[p].to]
    BY DEF WriteStatus
  <2>3. \A r \in Runs : status'[r] = "NONE" <=> status[r] = "NONE"
    BY <1>1, <2>1, <2>2 DEF TypeOK
  <2>. QED  BY <2>3 DEF Still, WriteStatus, jobVars, agentVars, Queued
<1>3. call'[p] = [call[p] EXCEPT !.pc = After(call[p].at)]
  BY <1>1 DEF WriteStatus, Goto
<1>4. /\ call'[p].pc = After(call[p].at) /\ call'[p].op = Op(p)
      /\ call'[p].run = Run(p) /\ call'[p].idx = call[p].idx
  BY <1>1, <1>3 DEF Calls, Op, Run
<1>5. CASE call[p].at = "start"
  <2>1. call'[p].pc = "lock"
    BY <1>4, <1>5 DEF After
  <2>. QED  BY <1>0, <1>2, <1>4, <1>5, <2>1, UpdatingAt, OnwardKeeps
<1>6. CASE call[p].at = "resume"
  <2>1. call'[p].pc = "loop"
    BY <1>4, <1>6 DEF After
  <2>. QED  BY <1>0, <1>2, <1>4, <1>6, <2>1, UpdatingAt, DrivesOn DEF Onward
<1>7. CASE call[p].at \in {"refuse", "settle", "reject", "cancel"}
  <2>1. call'[p].pc \in {"raise", "release"}
    BY <1>4, <1>7 DEF After
  <2>2. Outward(p, call[p], call'[p])
    BY <1>4, <2>1, UpdatingAt, MoveOut DEF Op, Run
  <2>. QED  BY <1>0, <1>2, <2>2, OutwardKeeps
<1>. QED  BY <1>5, <1>6, <1>7, UpdatingAt

(* The checks around an invocation. *)
LEMMA LoopKeepsDrive ==
    ASSUME TypeOK, DriveOK, NEW p \in Procs,
           CheckBeforeStep(p) \/ LaunchError(p) \/ AgentReturns(p) \/ CheckAfterStep(p)
    PROVE  DriveOK'
<1>0. Continue(p)
  BY DEF Continue
<1>1. /\ call[p] \in Calls /\ DriverOK(p) /\ Op(p) # "none" /\ ~At(p, "claim")
      /\ call[p].pc # "claim" /\ Run(p) \in Runs /\ \A d : Become(p, d) => call'[p] = d
  BY <1>0, Stepping, Becomes DEF CheckBeforeStep, LaunchError, AgentReturns, CheckAfterStep, At
<1>2. \A r \in Runs : Still(r)
  BY QuietRows DEF CheckBeforeStep, LaunchError, AgentReturns, CheckAfterStep, jobVars
<1>3. CASE CheckBeforeStep(p)
  <2>1. Turning(p) /\ Driving(p)
    BY <1>3 DEF CheckBeforeStep, Turning, Driving, At
  <2>2. PICK pc \in {"release", "launch"} : call'[p] = [call[p] EXCEPT !.pc = pc]
    BY <1>1, <1>3 DEF CheckBeforeStep, Goto
  <2>3. /\ call'[p].pc = pc /\ call'[p].op = Op(p) /\ call'[p].run = Run(p)
        /\ call'[p].idx = call[p].idx
    BY <1>1, <2>2 DEF Calls, Op, Run
  <2>4. CASE pc = "release"
    BY <1>0, <1>1, <1>2, <2>3, <2>4, MoveOut, OutwardKeeps DEF Op, Run
  <2>5. CASE pc = "launch"
    <3>1. /\ Resumable(Run(p)) /\ call[p].idx = steps[Run(p)]
          /\ gate[Run(p)] => invocations[Run(p)] <= Granted(Run(p))
      BY <1>1, <2>1 DEF DriverOK
    <3>. QED  BY <1>0, <1>1, <1>2, <2>1, <2>3, <2>5, <3>1, DrivesOn DEF Onward
  <2>. QED  BY <2>4, <2>5
<1>4. CASE LaunchError(p)
  <2>1. call'[p] = [call[p] EXCEPT !.pc = "release", !.raised = TRUE]
    BY <1>1, <1>4 DEF LaunchError
  <2>2. Outward(p, call[p], call'[p])
    BY <1>1, <2>1, MoveOut DEF Calls, Op
  <2>. QED  BY <1>0, <1>2, <2>2, OutwardKeeps
<1>5. CASE AgentReturns(p)
  <2>1. Working(p) /\ Driving(p)
    BY <1>5 DEF AgentReturns, Working, Driving, At
  <2>2. call'[p] = [call[p] EXCEPT !.pc = "checkStop"]
    BY <1>1, <1>5 DEF AgentReturns, Goto
  <2>3. /\ call'[p].pc = "checkStop" /\ call'[p].op = Op(p) /\ call'[p].run = Run(p)
        /\ call'[p].idx = call[p].idx
    BY <1>1, <2>2 DEF Calls, Op, Run
  <2>. QED  BY <1>0, <1>1, <1>2, <2>1, <2>3, DrivesOn DEF Onward
<1>6. CASE CheckAfterStep(p)
  <2>1. Working(p) /\ Driving(p)
    BY <1>6 DEF CheckAfterStep, Working, Driving, At
  <2>2. PICK to \in IF Stopped(Run(p)) THEN {"STOPPED"} ELSE Outcomes(p) :
          call'[p] = [call[p] EXCEPT !.pc = "record", !.to = to]
    BY <1>1, <1>6 DEF CheckAfterStep
  <2>3. /\ call'[p].pc = "record" /\ call'[p].op = Op(p) /\ call'[p].run = Run(p)
        /\ call'[p].idx = call[p].idx /\ call'[p].to = to
    BY <1>1, <2>2 DEF Calls, Op, Run
  <2>4. call[p].idx = steps[Run(p)] /\ steps[Run(p)] \in Nat
    BY <1>1, <2>1 DEF DriverOK, TypeOK
  <2>5. /\ to \in {"RUNNING", "WAITING_APPROVAL"} => ~(call[p].idx + 1 >= MaxLoops)
        /\ gate[Run(p)] => to # "RUNNING"
    BY <2>2 DEF Outcomes
  <2>6. to \in {"RUNNING", "WAITING_APPROVAL"} => steps[Run(p)] + 1 < MaxLoops
    BY <2>4, <2>5, RunsAssumption
  <2>. QED  BY <1>0, <1>1, <1>2, <2>1, <2>3, <2>5, <2>6, DrivesOn DEF Onward
<1>. QED  BY <1>3, <1>4, <1>5, <1>6

(* The approval to decide is chosen; approve finds one, since nobody else *)
(* decides.                                                               *)
LEMMA DecideReadKeepsDrive ==
    ASSUME TypeOK, DriveOK, NEW p \in Procs, DecideRead(p)
    PROVE  DriveOK'
<1>0. Continue(p)
  BY DEF Continue
<1>1. /\ call[p] \in Calls /\ RoleOK(p) /\ DriverOK(p) /\ Op(p) # "none" /\ ~At(p, "claim")
      /\ call[p].pc # "claim" /\ Run(p) \in Runs /\ \A d : Become(p, d) => call'[p] = d
      /\ Op(p) \in {"approve", "reject", "cancel"} /\ Others(p) /\ At(p, "decideRead")
  BY <1>0, Stepping, Becomes DEF DecideRead, At, CallOK, Op
<1>2. \A r \in Runs : Still(r)
  BY QuietRows DEF DecideRead, jobVars
<1>3. CASE PendingApprovals(Run(p)) = {}
  <2>1. Op(p) # "approve"
    BY <1>1, <1>3 DEF DriverOK, Deciding, At
  <2>2. call'[p] = [Setting(p, call[p].op, "STOPPED") EXCEPT !.idx = 0]
    BY <1>1, <1>3, <2>1 DEF DecideRead, Decided, Op
  <2>3. /\ call'[p].pc = "statusRead" /\ call'[p].at = Op(p) /\ call'[p].op = Op(p)
        /\ call'[p].run = Run(p)
    BY <1>1, <2>2 DEF Calls, Setting, Op, Run
  <2>4. Outward(p, call[p], call'[p])
    BY <1>1, <2>1, <2>3, UpdateOut DEF Op, Run
  <2>. QED  BY <1>0, <1>2, <2>4, OutwardKeeps
<1>4. CASE PendingApprovals(Run(p)) # {}
  <2>1. PICK i \in LatestPending(Run(p)) :
          call'[p] = [call[p] EXCEPT !.pc = "decideWrite", !.idx = i]
    BY <1>1, <1>4 DEF DecideRead
  <2>2. /\ call'[p].pc = "decideWrite" /\ call'[p].op = Op(p) /\ call'[p].run = Run(p)
        /\ call'[p].idx = i /\ i \in PendingApprovals(Run(p))
    BY <1>1, <2>1 DEF Calls, Op, Run, LatestPending
  <2>3. Op(p)' = Op(p) /\ Run(p)' = Run(p) /\ Still(Run(p))
    BY <1>1, <1>2, <2>2 DEF Op, Run
  <2>4. /\ ~Driving(p)' /\ ~Starting(p)' /\ ~Resuming(p)' /\ ~Turning(p)' /\ ~Working(p)'
        /\ ~Updating(p, "resume")' /\ ~At(p, "createApproval")' /\ ~At(p, "record")'
        /\ ~At(p, "count")' /\ ~At(p, "enqueue")' /\ ~At(p, "statusWrite")'
    BY <2>2 DEF Driving, Starting, Resuming, Turning, Working, Updating, At
  <2>5. RoleOK(p)'
    BY <1>1, <2>3, <2>4 DEF RoleOK, Still
  <2>6. PendingApprovals(Run(p))' = PendingApprovals(Run(p))
    BY <2>3, StillRunOf
  <2>7. DriverOK(p)'
    BY <1>1, <1>4, <2>2, <2>3, <2>4, <2>6 DEF DriverOK
  <2>. QED  BY <1>1, <1>2, <2>4, <2>5, <2>7, QuietKeepsDrive
<1>. QED  BY <1>3, <1>4

--------------------------------------------------------------------------------
(* A driver's step that writes its run's rows: whoever else is at that run *)
(* neither drives it nor decides about it.                                 *)
LEMMA DriverStep ==
    ASSUME TypeOK, DriveOK, NEW p \in Procs, Others(p), NEW r \in Runs, r = Run(p), Driving(p),
           \A s \in Runs \ {r} : Still(s),
           RunOK(r)', RoleOK(p)', DriverOK(p)', Driving(p)' => Run(p)' = r,
           status'[r] = "NONE" => status[r] = "NONE", Queued \subseteq Queued',
           \/ job'[r] = "QUEUED" => job[r] = "QUEUED"
           \/ \A q \in Procs \ {p} : Op(q) = "work" => Run(q) # r
    PROVE  DriveOK'
<1>1. PendingApprovals(r) = {}
  BY DEF DriveOK, DriverOK
<1>2. ASSUME NEW q \in Procs \ {p}, Run(q) = r
      PROVE  RoleOK(q)' /\ DriverOK(q)'
  <2>1. RoleOK(q) /\ DriverOK(q) /\ ~Driving(q) /\ call'[q] = call[q]
    BY <1>2 DEF DriveOK, Others
  <2>2. ~Deciding(q) /\ ~At(q, "decideWrite")
    BY <1>1, <1>2, <2>1 DEF DriverOK
  <2>. QED  BY <1>2, <2>1, <2>2, Bystander
<1>3. \A q \in Procs \ {p} : Driving(q) /\ Driving(p)' => Run(q) # Run(p)'
  BY DEF DriveOK
<1>. QED  BY <1>2, <1>3, StepKeepsDrive

(* Who drives past the start drives a run that is not queued. *)
LEMMA DriverDequeued ==
    ASSUME TypeOK, DriveOK, NEW p \in Procs, NEW r \in Runs, r = Run(p), Driving(p),
           ~At(p, "claim")
    PROVE  job[r] # "QUEUED" /\ status[r] # "NONE" /\ PendingApprovals(r) = {}
<1>1. RoleOK(p) /\ DriverOK(p) /\ RunOK(r) /\ Op(p) \in {"sync", "work", "approve"}
  BY DEF DriveOK, RoleOK
<1>2. CASE Op(p) = "work"
  BY <1>1, <1>2 DEF DriverOK, RoleOK
<1>3. CASE Op(p) = "sync"
  BY <1>1, <1>3 DEF DriverOK, RoleOK, RunOK
<1>4. CASE Op(p) = "approve"
  BY <1>1, <1>4 DEF DriverOK, RoleOK, RunOK, Executing, Op, Unbegun
<1>. QED  BY <1>1, <1>2, <1>3, <1>4

(* Rows of one run. *)
LEMMA OtherRows ==
    ASSUME TypeOK, NEW r \in Runs, UNCHANGED <<status, gate, jobs, job>>,
           \A s \in Runs \ {r} : /\ approvals'[s] = approvals[s]
                                 /\ steps'[s] = steps[s]
                                 /\ invocations'[s] = invocations[s]
    PROVE  (\A s \in Runs \ {r} : Still(s)) /\ Queued' = Queued
BY DEF Still, Queued

(* The agent is started. *)
LEMMA LaunchKeepsDrive ==
    ASSUME TypeOK, DriveOK, NEW p \in Procs, Launch(p)
    PROVE  DriveOK'
<1>0. Continue(p)
  BY DEF Continue
<1>1. /\ call[p] \in Calls /\ RoleOK(p) /\ DriverOK(p) /\ Run(p) \in Runs /\ Others(p)
      /\ \A d : Become(p, d) => call'[p] = d
  BY <1>0, Stepping, Becomes
<1>2. PICK r \in Runs : r = Run(p)
  BY <1>1
<1>3. Turning(p) /\ Driving(p) /\ ~At(p, "claim") /\ At(p, "launch")
  BY DEF Launch, Turning, Driving, At
<1>4. /\ Resumable(r) /\ call[p].idx = steps[r]
      /\ (gate[r] => invocations[r] <= Granted(r)) /\ RunOK(r)
      /\ steps[r] \in Nat /\ invocations[r] \in Nat /\ Granted(r) \in Nat
  BY <1>1, <1>2, <1>3, GrantedNat DEF DriverOK, DriveOK, TypeOK
<1>5. /\ invocations'[r] = invocations[r] + 1 /\ steps' = steps /\ approvals' = approvals
      /\ \A s \in Runs \ {r} : invocations'[s] = invocations[s]
      /\ UNCHANGED <<status, gate, jobs, job>>
  BY <1>2 DEF Launch, TypeOK, runVars, jobVars
<1>6. (\A s \in Runs \ {r} : Still(s)) /\ Queued' = Queued
  BY <1>5, OtherRows
<1>7. /\ call'[p].pc = "agent" /\ call'[p].op = Op(p) /\ call'[p].run = r
      /\ call'[p].idx = call[p].idx
  <2>1. call'[p] = [call[p] EXCEPT !.pc = "agent"]
    BY <1>1 DEF Launch, Goto
  <2>. QED  BY <1>1, <1>2, <2>1 DEF Calls, Op, Run
<1>8. /\ Op(p)' = Op(p) /\ Run(p)' = r /\ Working(p)' /\ Driving(p)'
      /\ ~Starting(p)' /\ ~Resuming(p)' /\ ~Turning(p)' /\ ~Deciding(p)'
      /\ ~At(p, "createApproval")' /\ ~At(p, "record")' /\ ~At(p, "decideWrite")'
      /\ ~At(p, "count")' /\ ~At(p, "enqueue")' /\ ~At(p, "statusWrite")' /\ ~At(p, "claim")'
      /\ ~Updating(p, "resume")'
  BY <1>7 DEF Op, Run, Working, Driving, Starting, Resuming, Turning, Deciding, At, Updating
<1>9. PendingApprovals(r)' = PendingApprovals(r) /\ Granted(r)' = Granted(r)
  BY <1>5 DEF PendingApprovals, Granted, Approved
<1>10. RunOK(r)'
  BY <1>2, <1>3, <1>4, <1>5, <1>9, DriverDequeued, RunsAssumption DEF RunOK, Resumable
<1>11. RoleOK(p)'
  BY <1>1, <1>2, <1>3, <1>5, <1>6, <1>8 DEF RoleOK
<1>12. DriverOK(p)'
  <2>1. PendingApprovals(Run(p))' = {}
    BY <1>1, <1>2, <1>3, <1>5, <1>8 DEF DriverOK, PendingApprovals
  <2>2. Executing(p)' <=> Executing(p)
    BY <1>8 DEF Executing, Op
  <2>. QED  BY <1>1, <1>2, <1>3, <1>4, <1>5, <1>6, <1>7, <1>8, <2>1, <2>2
            DEF DriverOK, Resumable
<1>. QED  BY <1>1, <1>2, <1>3, <1>5, <1>6, <1>8, <1>10, <1>11, <1>12, DriverStep

(* A new approval is pending; none was granted by it. *)
LEMMA ApprovalAdded ==
    ASSUME TypeOK, NEW r \in Runs, approvals'[r] = Append(approvals[r], "PENDING")
    PROVE  /\ PendingApprovals(r)' = PendingApprovals(r) \cup {Len(approvals[r]) + 1}
           /\ Granted(r)' = Granted(r) /\ approvals'[r] # <<>>
<1>1. approvals[r] \in Seq(ApprovalStatus)
  BY DEF TypeOK
<1>2. /\ Len(approvals'[r]) = Len(approvals[r]) + 1
      /\ DOMAIN approvals'[r] = 1..Len(approvals'[r])
      /\ DOMAIN approvals[r] = 1..Len(approvals[r]) /\ Len(approvals[r]) \in Nat
      /\ \A i \in 1..Len(approvals[r]) : approvals'[r][i] = approvals[r][i]
      /\ approvals'[r][Len(approvals[r]) + 1] = "PENDING"
  BY <1>1, AppendProperties DEF ApprovalStatus
<1>3. PendingApprovals(r)' = PendingApprovals(r) \cup {Len(approvals[r]) + 1}
  BY <1>2 DEF PendingApprovals
<1>4. Approved(r)' = Approved(r)
  BY <1>2 DEF Approved
<1>5. approvals'[r] # <<>>
  BY <1>2
<1>. QED  BY <1>3, <1>4, <1>5 DEF Granted

(* A decision takes its approval from the pending ones. *)
LEMMA ApprovalDecided ==
    ASSUME TypeOK, NEW r \in Runs, NEW i \in PendingApprovals(r),
           NEW v \in {"APPROVED", "REJECTED"},
           approvals'[r] = [approvals[r] EXCEPT ![i] = v]
    PROVE  /\ PendingApprovals(r)' = PendingApprovals(r) \ {i}
           /\ Granted(r)' = IF v = "APPROVED" THEN Granted(r) + 1 ELSE Granted(r)
           /\ approvals'[r] # <<>>
<1>1. approvals[r] \in Seq(ApprovalStatus)
  BY DEF TypeOK
<1>2. /\ DOMAIN approvals'[r] = DOMAIN approvals[r] /\ i \in DOMAIN approvals[r]
      /\ approvals[r][i] = "PENDING" /\ approvals'[r][i] = v
      /\ \A k \in DOMAIN approvals[r] : k # i => approvals'[r][k] = approvals[r][k]
  BY <1>1 DEF PendingApprovals
<1>3. PendingApprovals(r)' = PendingApprovals(r) \ {i}
  BY <1>2 DEF PendingApprovals
<1>4. CASE v = "APPROVED"
  <2>1. Approved(r)' = Approved(r) \cup {i} /\ i \notin Approved(r)
    BY <1>2, <1>4 DEF Approved
  <2>2. Granted(r)' = Granted(r) + 1
    BY <2>1, GrantedNat, FS_AddElement DEF Granted
  <2>. QED  BY <1>2, <1>3, <1>4, <2>2
<1>5. CASE v = "REJECTED"
  <2>1. Approved(r)' = Approved(r)
    BY <1>2, <1>5 DEF Approved
  <2>. QED  BY <1>2, <1>3, <1>5, <2>1 DEF Granted
<1>. QED  BY <1>4, <1>5

(* A step is recorded: the run goes on, pauses, ends or was stopped. *)
LEMMA RecordKeepsDrive ==
    ASSUME TypeOK, DriveOK, NEW p \in Procs, RecordStep(p)
    PROVE  DriveOK'
<1>0. Continue(p)
  BY DEF Continue
<1>1. /\ call[p] \in Calls /\ RoleOK(p) /\ DriverOK(p) /\ Run(p) \in Runs /\ Others(p)
      /\ Op(p) # "none" /\ \A d : Become(p, d) => call'[p] = d
  BY <1>0, Stepping, Becomes DEF RecordStep, At
<1>2. PICK r \in Runs : r = Run(p)
  BY <1>1
<1>3. Working(p) /\ Driving(p) /\ ~At(p, "claim") /\ At(p, "record") /\ call[p].pc # "claim"
  BY DEF RecordStep, Working, Driving, At
<1>4. /\ call[p].idx = steps[r] /\ invocations[r] = steps[r] + 1 /\ RunOK(r)
      /\ steps[r] \in Nat /\ PendingApprovals(r) = {}
      /\ call[p].to \in {"RUNNING", "WAITING_APPROVAL"} => steps[r] + 1 < MaxLoops
      /\ gate[r] => call[p].to # "RUNNING"
  BY <1>1, <1>2, <1>3 DEF DriverOK, DriveOK, TypeOK
<1>5. /\ steps'[r] = steps[r] + 1 /\ invocations' = invocations /\ approvals' = approvals
      /\ \A s \in Runs \ {r} : steps'[s] = steps[s]
      /\ UNCHANGED <<status, gate, jobs, job>>
  BY <1>2 DEF RecordStep, TypeOK, runVars, jobVars
<1>6. (\A s \in Runs \ {r} : Still(s)) /\ Queued' = Queued
  BY <1>5, OtherRows
<1>7. PendingApprovals(r)' = {} /\ Granted(r)' = Granted(r)
  BY <1>4, <1>5 DEF PendingApprovals, Granted, Approved
<1>8. RunOK(r)'
  BY <1>2, <1>3, <1>4, <1>5, <1>7, DriverDequeued DEF RunOK
<1>9. /\ steps'[r] = invocations'[r]
      /\ call[p].to \in {"RUNNING", "WAITING_APPROVAL"} => Resumable(r)'
  BY <1>4, <1>5 DEF Resumable
<1>10. CASE call[p].to = "RUNNING"
  <2>1. Become(p, [call[p] EXCEPT !.pc = "loop", !.idx = call[p].idx + 1])
    BY <1>10 DEF RecordStep
  <2>2. /\ call'[p].pc = "loop" /\ call'[p].op = Op(p) /\ call'[p].run = r
        /\ call'[p].idx = call[p].idx + 1
    BY <1>1, <1>2, <2>1 DEF Calls, Op, Run
  <2>3. /\ Op(p)' = Op(p) /\ Run(p)' = r /\ Turning(p)' /\ Driving(p)'
        /\ ~Starting(p)' /\ ~Resuming(p)' /\ ~Working(p)' /\ ~Deciding(p)'
        /\ ~At(p, "createApproval")' /\ ~At(p, "record")' /\ ~At(p, "decideWrite")'
        /\ ~At(p, "count")' /\ ~At(p, "enqueue")' /\ ~At(p, "statusWrite")' /\ ~At(p, "claim")'
        /\ ~Updating(p, "resume")'
    BY <2>2 DEF Op, Run, Working, Driving, Starting, Resuming, Turning, Deciding, At, Updating
  <2>4. RoleOK(p)'
    BY <1>1, <1>2, <1>3, <1>5, <1>6, <2>3 DEF RoleOK
  <2>5. PendingApprovals(Run(p))' = {} /\ Resumable(Run(p))'
    BY <1>4, <1>5, <1>9, <1>10, <2>3 DEF PendingApprovals, Resumable
  <2>6. Executing(p)' <=> Executing(p)
    BY <2>3 DEF Executing, Op
  <2>7. DriverOK(p)'
    BY <1>1, <1>2, <1>3, <1>4, <1>5, <1>6, <1>10, <2>2, <2>3, <2>5, <2>6 DEF DriverOK
  <2>. QED  BY <1>1, <1>2, <1>3, <1>5, <1>6, <1>8, <2>3, <2>4, <2>7, DriverStep
<1>11. CASE call[p].to = "WAITING_APPROVAL"
  <2>1. Become(p, [call[p] EXCEPT !.pc = "createApproval"])
    BY <1>11 DEF RecordStep
  <2>2. call'[p].pc = "createApproval" /\ call'[p].op = Op(p) /\ call'[p].run = r
    BY <1>1, <1>2, <2>1 DEF Calls, Op, Run
  <2>3. /\ Op(p)' = Op(p) /\ Run(p)' = r /\ Driving(p)' /\ ~Turning(p)'
        /\ ~Starting(p)' /\ ~Resuming(p)' /\ ~Working(p)' /\ ~Deciding(p)'
        /\ ~At(p, "record")' /\ ~At(p, "decideWrite")'
        /\ ~At(p, "count")' /\ ~At(p, "enqueue")' /\ ~At(p, "statusWrite")' /\ ~At(p, "claim")'
        /\ ~Updating(p, "resume")'
    BY <2>2 DEF Op, Run, Working, Driving, Starting, Resuming, Turning, Deciding, At, Updating
  <2>4. RoleOK(p)'
    BY <1>1, <1>2, <1>3, <1>5, <1>6, <2>3 DEF RoleOK
  <2>5. PendingApprovals(Run(p))' = {} /\ Resumable(Run(p))'
    BY <1>4, <1>5, <1>9, <1>11, <2>3 DEF PendingApprovals, Resumable
  <2>6. Executing(p)' <=> Executing(p)
    BY <2>3 DEF Executing, Op
  <2>7. DriverOK(p)'
    BY <1>1, <1>2, <1>3, <1>5, <1>6, <2>2, <2>3, <2>5, <2>6 DEF DriverOK
  <2>. QED  BY <1>1, <1>2, <1>3, <1>5, <1>6, <1>8, <2>3, <2>4, <2>7, DriverStep
<1>12. CASE call[p].to \notin {"RUNNING", "WAITING_APPROVAL"}
  <2>1. \/ Become(p, [call[p] EXCEPT !.pc = "release"])
        \/ Become(p, Setting(p, "settle", call[p].to))
    BY <1>12 DEF RecordStep
  <2>2. Outward(p, call[p], [call[p] EXCEPT !.pc = "release"])
    BY <1>1, <1>3, MoveOut DEF Calls, Op
  <2>3. Outward(p, call[p], Setting(p, "settle", call[p].to))
    BY <1>1, <1>3, SettingOut
  <2>4. Outward(p, call[p], call'[p]) /\ call'[p].run \in Runs
    BY <1>0, <1>1, <2>1, <2>2, <2>3, Stepping
  <2>5. RoleOK(p)' /\ DriverOK(p)' /\ ~Driving(p)'
    BY <1>1, <1>5, <1>6, <2>4, OutwardOK
  <2>. QED  BY <1>1, <1>2, <1>3, <1>5, <1>6, <1>8, <2>5, DriverStep
<1>. QED  BY <1>10, <1>11, <1>12

(* The pause: the driver leaves the run to whoever decides its approval. *)
LEMMA CreateApprovalKeepsDrive ==
    ASSUME TypeOK, DriveOK, NEW p \in Procs, CreateApproval(p)
    PROVE  DriveOK'
<1>0. Continue(p)
  BY DEF Continue
<1>1. /\ call[p] \in Calls /\ RoleOK(p) /\ DriverOK(p) /\ Run(p) \in Runs /\ Others(p)
      /\ Op(p) # "none" /\ call'[p].run \in Runs /\ \A d : Become(p, d) => call'[p] = d
  BY <1>0, Stepping, Becomes DEF CreateApproval, At
<1>2. PICK r \in Runs : r = Run(p)
  BY <1>1
<1>3. Driving(p) /\ ~At(p, "claim") /\ At(p, "createApproval") /\ call[p].pc # "claim"
  BY DEF CreateApproval, Driving, At
<1>4. Resumable(r) /\ RunOK(r) /\ PendingApprovals(r) = {}
  BY <1>1, <1>2, <1>3 DEF DriverOK, DriveOK
<1>5. /\ approvals'[r] = Append(approvals[r], "PENDING")
      /\ \A s \in Runs \ {r} : approvals'[s] = approvals[s]
      /\ steps' = steps /\ invocations' = invocations
      /\ UNCHANGED <<status, gate, jobs, job>>
  BY <1>2 DEF CreateApproval, TypeOK, runVars, jobVars, agentVars
<1>6. (\A s \in Runs \ {r} : Still(s)) /\ Queued' = Queued
  BY <1>5, OtherRows
<1>7. RunOK(r)'
  <2>1. PendingApprovals(r)' = {Len(approvals[r]) + 1} /\ Granted(r)' = Granted(r)
    BY <1>4, <1>5, ApprovalAdded
  <2>2. Resumable(r)'
    BY <1>4, <1>5 DEF Resumable
  <2>. QED  BY <1>2, <1>3, <1>4, <1>5, <2>1, <2>2, DriverDequeued DEF RunOK
<1>8. Outward(p, call[p], call'[p])
  BY <1>1, <1>3, SettingOut DEF CreateApproval
<1>9. RoleOK(p)' /\ DriverOK(p)' /\ ~Driving(p)'
  BY <1>1, <1>5, <1>6, <1>8, OutwardOK
<1>. QED  BY <1>1, <1>2, <1>3, <1>5, <1>6, <1>7, <1>9, DriverStep

(* The decision: an approval drives from now on, anything else ends. *)
LEMMA DecideWriteKeepsDrive ==
    ASSUME OneOperator, TypeOK, DriveOK, NEW p \in Procs, DecideWrite(p)
    PROVE  DriveOK'
<1>0. Continue(p)
  BY DEF Continue
<1>1. /\ call[p] \in Calls /\ RoleOK(p) /\ DriverOK(p) /\ Run(p) \in Runs /\ Others(p)
      /\ Op(p) \in {"approve", "reject", "cancel"} /\ At(p, "decideWrite") /\ call[p].pc # "claim"
      /\ call'[p].run \in Runs /\ \A d : Become(p, d) => call'[p] = d
  BY <1>0, Stepping, Becomes DEF DecideWrite, At, CallOK, Op
<1>2. PICK r \in Runs : r = Run(p)
  BY <1>1
<1> DEFINE i == call[p].idx
           v == IF call[p].op = "approve" THEN "APPROVED" ELSE "REJECTED"
<1>3. /\ i \in PendingApprovals(r) /\ RunOK(r) /\ p \in Operators /\ status[r] # "NONE"
      /\ \A k \in PendingApprovals(r) : k = i
  BY <1>1, <1>2 DEF DriverOK, RoleOK, DriveOK, RunOK
<1>4. /\ approvals'[r] = [approvals[r] EXCEPT ![i] = v]
      /\ \A s \in Runs \ {r} : approvals'[s] = approvals[s]
      /\ steps' = steps /\ invocations' = invocations
      /\ UNCHANGED <<status, gate, jobs, job>>
  BY <1>2 DEF DecideWrite, TypeOK, runVars, jobVars, agentVars
<1>5. (\A s \in Runs \ {r} : Still(s)) /\ Queued' = Queued
  BY <1>4, OtherRows
<1>6. /\ PendingApprovals(r)' = {} /\ approvals'[r] # <<>>
      /\ Granted(r)' = IF Op(p) = "approve" THEN Granted(r) + 1 ELSE Granted(r)
  <2>1. v \in {"APPROVED", "REJECTED"} /\ (v = "APPROVED" <=> Op(p) = "approve")
    BY DEF Op
  <2>2. approvals'[r] = [approvals[r] EXCEPT ![i] = v] /\ i \in PendingApprovals(r)
    BY <1>3, <1>4
  <2> HIDE DEF i, v
  <2>3. /\ PendingApprovals(r)' = PendingApprovals(r) \ {i}
        /\ Granted(r)' = IF v = "APPROVED" THEN Granted(r) + 1 ELSE Granted(r)
        /\ approvals'[r] # <<>>
    BY <2>1, <2>2, ApprovalDecided
  <2>. QED  BY <1>3, <2>1, <2>3
<1>7. /\ Resumable(r) /\ Resumable(r)' /\ approvals[r] # <<>> /\ job[r] # "QUEUED"
      /\ Granted(r) \in Nat /\ invocations[r] \in Nat
  <2>1. Resumable(r) /\ approvals[r] # <<>>
    BY <1>3 DEF RunOK, PendingApprovals
  <2>. QED  BY <1>3, <1>4, <2>1, GrantedNat DEF RunOK, Unbegun, Resumable, TypeOK
<1>8. RunOK(r)'
  BY <1>3, <1>4, <1>6, <1>7 DEF RunOK
<1>9. ASSUME NEW q \in Procs \ {p}, Run(q) = r
      PROVE  ~Driving(q) /\ RoleOK(q)' /\ DriverOK(q)'
  <2>1. RoleOK(q) /\ DriverOK(q) /\ call'[q] = call[q] /\ CallOK(call[q])
    BY <1>1 DEF DriveOK, Others, TypeOK
  <2>2. ~Driving(q)
    BY <1>3, <1>9, <2>1 DEF DriverOK
  <2>3. ~Deciding(q) /\ ~At(q, "decideWrite")
    <3>1. q \notin Operators
      BY <1>3 DEF OneOperator
    <3>. QED  BY <2>1, <3>1 DEF RoleOK, Deciding, At, CallOK, Op
  <2>. QED  BY <1>4, <1>5, <1>9, <2>1, <2>2, <2>3, Bystander
<1>10. CASE Op(p) = "approve"
  <2>1. call'[p] = [call[p] EXCEPT !.pc = "count", !.idx = 0]
    BY <1>1, <1>10 DEF DecideWrite, Decided, Op
  <2>2. call'[p].pc = "count" /\ call'[p].op = "approve" /\ call'[p].run = r
    BY <1>1, <1>2, <1>10, <2>1 DEF Calls, Op, Run
  <2>3. /\ Op(p)' = "approve" /\ Run(p)' = r /\ Resuming(p)' /\ Driving(p)' /\ ~Turning(p)'
        /\ ~Starting(p)' /\ ~Working(p)' /\ ~Deciding(p)' /\ ~Executing(p)'
        /\ ~At(p, "createApproval")' /\ ~At(p, "record")' /\ ~At(p, "decideWrite")'
        /\ ~At(p, "enqueue")' /\ ~At(p, "statusWrite")' /\ ~Updating(p, "resume")'
    BY <2>2 DEF Op, Run, Working, Driving, Starting, Resuming, Turning, Deciding, At, Updating,
                Executing
  <2>4. RoleOK(p)'
    BY <1>3, <1>4, <2>3 DEF RoleOK
  <2>5. PendingApprovals(Run(p))' = {} /\ Resumable(Run(p))' /\ Granted(Run(p))' = Granted(r)'
    BY <1>6, <1>7, <2>3 DEF PendingApprovals, Resumable, Granted, Approved
  <2>6. gate'[Run(p)'] => invocations'[Run(p)'] <= Granted(Run(p))'
    BY <1>3, <1>4, <1>6, <1>7, <1>10, <2>3, <2>5 DEF RunOK
  <2>7. DriverOK(p)'
    BY <1>6, <2>3, <2>5, <2>6 DEF DriverOK
  <2>. QED  BY <1>1, <1>5, <1>8, <1>9, <2>3, <2>4, <2>7, StepKeepsDrive
<1>11. CASE Op(p) # "approve"
  <2>1. call'[p] = [Setting(p, call[p].op, "STOPPED") EXCEPT !.idx = 0]
    BY <1>1, <1>11 DEF DecideWrite, Decided, Op
  <2>2. /\ call'[p].pc = "statusRead" /\ call'[p].at = Op(p) /\ call'[p].op = Op(p)
        /\ call'[p].run = Run(p)
    BY <1>1, <2>1 DEF Calls, Setting, Op, Run
  <2>3. Outward(p, call[p], call'[p])
    BY <1>1, <1>11, <2>2, UpdateOut DEF Op, Run
  <2>4. RoleOK(p)' /\ DriverOK(p)' /\ ~Driving(p)'
    BY <1>1, <1>4, <1>5, <2>3, OutwardOK
  <2>. QED  BY <1>1, <1>5, <1>8, <1>9, <2>4, StepKeepsDrive
<1>. QED  BY <1>10, <1>11

(* The creator puts its run into the queue and lets go of it. *)
LEMMA EnqueueKeepsDrive ==
    ASSUME TypeOK, DriveOK, NEW p \in Procs, Enqueue(p)
    PROVE  DriveOK'
<1>0. Continue(p)
  BY DEF Continue
<1>1. /\ call[p] \in Calls /\ RoleOK(p) /\ DriverOK(p) /\ Run(p) \in Runs /\ Others(p)
      /\ Op(p) = "sync" /\ At(p, "enqueue") /\ call'[p] = Idle /\ call'[p].run \in Runs
  BY <1>0, Stepping, Becomes DEF Enqueue, At, RoleOK
<1>2. PICK r \in Runs : r = Run(p)
  BY <1>1
<1>3. Starting(p) /\ Driving(p)
  BY <1>1 DEF Starting, Driving, Executing, At, Op
<1>4. Unbegun(r) /\ RunOK(r) /\ r \notin Queued /\ status[r] # "NONE"
  BY <1>1, <1>2, <1>3 DEF DriverOK, RoleOK, DriveOK
<1>5. /\ job'[r] = "QUEUED" /\ \A s \in Runs \ {r} : job'[s] = job[s]
      /\ jobs' = Append(jobs, r)
      /\ UNCHANGED <<status, gate, approvals, steps, invocations>>
  BY <1>2 DEF Enqueue, TypeOK, runVars, agentVars
<1>6. Queued' = Queued \cup {r}
  <2>1. jobs \in Seq(Runs)
    BY DEF TypeOK
  <2>2. /\ Len(jobs') = Len(jobs) + 1 /\ Len(jobs) \in Nat /\ jobs'[Len(jobs) + 1] = r
        /\ \A i \in 1..Len(jobs) : jobs'[i] = jobs[i]
    BY <1>5, <2>1, AppendProperties
  <2>. QED  BY <2>2 DEF Queued
<1>7. \A s \in Runs \ {r} : Still(s)
  BY <1>5, <1>6 DEF Still
<1>8. RunOK(r)'
  <2>1. /\ Unbegun(r)' /\ PendingApprovals(r)' = PendingApprovals(r)
        /\ Granted(r)' = Granted(r) /\ (Resumable(r)' <=> Resumable(r))
    BY <1>4, <1>5 DEF Unbegun, PendingApprovals, Granted, Approved, Resumable
  <2>. QED  BY <1>4, <1>5, <1>6, <2>1 DEF RunOK
<1>9. RoleOK(p)' /\ DriverOK(p)' /\ ~Driving(p)'
  <2>1. Outward(p, call[p], call'[p]) /\ call'[p].op # "work"
    BY <1>1, IdleOut DEF Idle
  <2>. QED  BY <1>1, <1>5, <1>6, <2>1, OutwardOK
<1>10. \A q \in Procs \ {p} : Op(q) = "work" => Run(q) # r
  BY <1>4 DEF DriveOK, RoleOK
<1>. QED  BY <1>1, <1>2, <1>3, <1>5, <1>6, <1>7, <1>8, <1>9, <1>10, DriverStep

(* A run is new to everybody but its creator. *)
LEMMA CreateKeepsDrive ==
    ASSUME TypeOK, DriveOK, NEW p \in Procs, CreateRun(p)
    PROVE  DriveOK'
<1>0. Start(p)
  BY DEF Start
<1>1. Others(p) /\ p \in Operators /\ \A d : Become(p, d) => call'[p] = d
  BY <1>0, Stepping, Becomes DEF CreateRun, Operators
<1>2. PICK r \in Runs, b \in BOOLEAN, pc \in {"enqueue", "execute"} :
        /\ status[r] = "NONE" /\ status' = [status EXCEPT ![r] = "CREATED"]
        /\ gate' = [gate EXCEPT ![r] = b]
        /\ Become(p, [Idle EXCEPT !.op = "sync", !.run = r, !.pc = pc])
  BY DEF CreateRun
<1>3. UNCHANGED <<jobs, job, approvals, steps, invocations>>
  BY DEF CreateRun, jobVars, agentVars
<1>4. /\ status'[r] = "CREATED"
      /\ \A s \in Runs \ {r} : status'[s] = status[s] /\ gate'[s] = gate[s]
  BY <1>2 DEF TypeOK
<1>5. (\A s \in Runs \ {r} : Still(s)) /\ Queued' = Queued
  BY <1>3, <1>4 DEF Still, Queued
<1>6. Unbegun(r) /\ r \notin Queued /\ RunOK(r) /\ PendingApprovals(r) = {} /\ Granted(r) \in Nat
  <2>1. Unbegun(r) /\ r \notin Queued /\ RunOK(r)
    BY <1>2 DEF DriveOK, RunOK
  <2>2. PendingApprovals(r) = {}
    BY <2>1 DEF Unbegun, PendingApprovals
  <2>. QED  BY <2>1, <2>2, GrantedNat
<1>7. call'[p].pc = pc /\ call'[p].op = "sync" /\ call'[p].run = r
  BY <1>1, <1>2 DEF Idle
<1>8. /\ Op(p)' = "sync" /\ Run(p)' = r /\ Starting(p)' /\ Driving(p)' /\ Executing(p)'
      /\ ~Resuming(p)' /\ ~Turning(p)' /\ ~Working(p)' /\ ~Deciding(p)'
      /\ ~At(p, "createApproval")' /\ ~At(p, "record")' /\ ~At(p, "decideWrite")'
      /\ ~At(p, "count")' /\ ~At(p, "statusWrite")' /\ ~Updating(p, "resume")'
  BY <1>7 DEF Op, Run, Working, Driving, Starting, Resuming, Turning, Deciding, At, Updating,
              Executing
<1>9. /\ Unbegun(r)' /\ PendingApprovals(r)' = {} /\ Granted(r)' = Granted(r)
      /\ Unbegun(Run(p))' /\ PendingApprovals(Run(p))' = {}
  BY <1>3, <1>6, <1>8 DEF Unbegun, PendingApprovals, Granted, Approved
<1>10. RunOK(r)'
  BY <1>3, <1>4, <1>5, <1>6, <1>9, RunsAssumption DEF RunOK, Unbegun
<1>11. RoleOK(p)'
  BY <1>1, <1>4, <1>8 DEF RoleOK
<1>12. DriverOK(p)'
  BY <1>3, <1>5, <1>6, <1>8, <1>9 DEF DriverOK, Unbegun
<1>13. ASSUME NEW q \in Procs \ {p}, Run(q) = r
       PROVE  ~Driving(q) /\ RoleOK(q)' /\ DriverOK(q)'
  <2>1. RoleOK(q) /\ DriverOK(q) /\ call'[q] = call[q] /\ Op(q) = "none"
    BY <1>1, <1>2, <1>13 DEF DriveOK, Others, RoleOK
  <2>2. ~Driving(q) /\ ~Deciding(q) /\ ~At(q, "decideWrite")
    BY <2>1 DEF RoleOK, Deciding, At
  <2>. QED  BY <1>3, <1>4, <1>5, <1>13, <2>1, <2>2, Bystander
<1>. QED  BY <1>1, <1>5, <1>8, <1>10, <1>11, <1>12, <1>13, StepKeepsDrive

(* A job is one worker's. *)
LEMMA ReadNextJobKeepsDrive ==
    ASSUME OneWorker, TypeOK, DriveOK, NEW p \in Procs, ReadNextJob(p)
    PROVE  DriveOK'
<1>0. Start(p)
  BY DEF Start
<1>1. Others(p) /\ p \in Workers /\ \A d : Become(p, d) => call'[p] = d
  BY <1>0, Stepping, Becomes DEF ReadNextJob
<1>2. PICK r \in Runs :
        NextJob(r) /\ Become(p, [Idle EXCEPT !.op = "work", !.run = r, !.pc = "claim"])
  BY DEF ReadNextJob
<1>3. \A s \in Runs : Still(s)
  BY QuietRows DEF ReadNextJob, jobVars
<1>4. /\ job[r] = "QUEUED" /\ r \in Queued /\ Unbegun(r) /\ status[r] # "NONE" /\ RunOK(r)
      /\ PendingApprovals(r) = {}
  <2>1. job[r] = "QUEUED" /\ r \in Queued
    BY <1>2 DEF NextJob, Queued
  <2>2. RunOK(r)
    BY DEF DriveOK
  <2>. QED  BY <2>1, <2>2 DEF RunOK, Unbegun, PendingApprovals
<1>5. call'[p].pc = "claim" /\ call'[p].op = "work" /\ call'[p].run = r
  BY <1>1, <1>2 DEF Idle
<1>6. /\ Op(p)' = "work" /\ Run(p)' = r /\ Starting(p)' /\ Driving(p)' /\ Executing(p)'
      /\ At(p, "claim")' /\ ~Resuming(p)' /\ ~Turning(p)' /\ ~Working(p)' /\ ~Deciding(p)'
      /\ ~At(p, "createApproval")' /\ ~At(p, "record")' /\ ~At(p, "decideWrite")'
      /\ ~At(p, "count")' /\ ~At(p, "statusWrite")' /\ ~Updating(p, "resume")' /\ ~At(p, "enqueue")'
  BY <1>5 DEF Op, Run, Working, Driving, Starting, Resuming, Turning, Deciding, At, Updating,
              Executing
<1>7. /\ Unbegun(Run(p))' /\ PendingApprovals(Run(p))' = {} /\ approvals'[Run(p)'] = <<>>
      /\ (Run(p) \in Queued)' /\ status'[Run(p)'] # "NONE"
  BY <1>3, <1>4, <1>6 DEF Still, Unbegun, PendingApprovals
<1>8. RoleOK(p)'
  BY <1>1, <1>6, <1>7 DEF RoleOK
<1>9. DriverOK(p)'
  BY <1>6, <1>7 DEF DriverOK
<1>10. RunOK(r)'
  BY <1>3, <1>4, StillRun
<1>11. ASSUME NEW q \in Procs \ {p}, Run(q) = r
       PROVE  ~Driving(q) /\ RoleOK(q)' /\ DriverOK(q)'
  <2>1. RoleOK(q) /\ DriverOK(q) /\ call'[q] = call[q] /\ Still(Run(q))
    BY <1>1, <1>3, <1>11 DEF DriveOK, Others
  <2>2. ~Driving(q)
    <3>1. SUFFICES ASSUME Driving(q)
                   PROVE  FALSE
      OBVIOUS
    <3>2. approvals[r] = <<>>
      BY <1>4 DEF Unbegun
    <3>3. Op(q) \in {"sync", "work"}
      BY <1>11, <2>1, <3>1, <3>2 DEF DriverOK, RoleOK, Executing, Op
    <3>4. Op(q) # "work"
      BY <1>1, <2>1 DEF RoleOK, OneWorker
    <3>. QED  BY <1>4, <1>11, <2>1, <3>1, <3>3, <3>4 DEF DriverOK
  <2>3. RoleOK(q)' /\ DriverOK(q)'
    BY <2>1, StillDriver
  <2>. QED  BY <2>2, <2>3
<1>. QED  BY <1>1, <1>3, <1>6, <1>8, <1>9, <1>10, <1>11, StepKeepsDrive

(* Any process's step. *)
LEMMA ProcessKeepsDrive ==
    ASSUME OneWorker, OneOperator, TypeOK, DriveOK, NEW p \in Procs,
           Start(p) \/ Continue(p) \/ Die(p)
    PROVE  DriveOK'
BY EndKeepsDrive, CancelKeepsDrive, StartKeepsDrive, ClaimKeepsDrive, ExecuteKeepsDrive,
   LockKeepsDrive, ReadPendingKeepsDrive, CountKeepsDrive, ReadStatusKeepsDrive,
   WriteStatusKeepsDrive, LoopKeepsDrive, DecideReadKeepsDrive, LaunchKeepsDrive,
   RecordKeepsDrive, CreateApprovalKeepsDrive, DecideWriteKeepsDrive, EnqueueKeepsDrive,
   CreateKeepsDrive, ReadNextJobKeepsDrive
   DEF Start, Continue, AcquireLock

(* A step that moves no call. *)
LEMMA CalmKeepsDrive ==
    ASSUME TypeOK, DriveOK, call' = call, \A r \in Runs : Still(r)
    PROVE  DriveOK'
<1>1. ASSUME NEW q \in Procs
      PROVE  RoleOK(q)' /\ DriverOK(q)'
  <2>1. Run(q) \in Runs /\ RoleOK(q) /\ DriverOK(q)
    BY DEF TypeOK, Calls, Run, DriveOK
  <2>. QED  BY <2>1, StillDriver
<1>2. \A s \in Runs : RunOK(s)'
  BY StillRun DEF DriveOK
<1>3. ASSUME NEW q \in Procs, NEW s \in Procs, Driving(q)', Driving(s)', Run(q)' = Run(s)'
      PROVE  q = s
  <2>1. \A k \in Procs : Run(k)' = Run(k) /\ (Driving(k)' <=> Driving(k))
    BY SameStage
  <2>. QED  BY <1>3, <2>1 DEF DriveOK
<1>. QED  BY <1>1, <1>2, <1>3 DEF DriveOK

(* The maintenance routes move no call and begin no job. *)
LEMMA MaintenanceKeepsDrive ==
    ASSUME TypeOK, DriveOK, ListLocks \/ \E r \in Runs : CancelQueuedJob(r) \/ ReleaseByHand(r)
    PROVE  TypeOK' /\ DriveOK'
<1>1. RowsTyped /\ call' = call
  BY MaintenanceRows DEF ListLocks, CancelQueuedJob, ReleaseByHand
<1>2. TypeOK'
  BY <1>1 DEF RowsTyped, TypeOK
<1>3. UNCHANGED <<runVars, jobs, approvals, agentVars>>
  BY DEF ListLocks, CancelQueuedJob, ReleaseByHand, jobVars
<1>4. \A r \in Runs : job'[r] = "QUEUED" => job[r] = "QUEUED"
  BY DEF ListLocks, CancelQueuedJob, ReleaseByHand, jobVars, TypeOK
<1>. QED  BY <1>1, <1>2, <1>3, <1>4, QuietRows, CalmKeepsDrive

(* Nothing happens. *)
LEMMA StutterDrive ==
    ASSUME TypeOK, DriveOK, UNCHANGED vars
    PROVE  TypeOK' /\ DriveOK'
<1>1. UNCHANGED <<runVars, jobVars, lockVars, approvals, cancellations, agentVars, call>>
  BY DEF vars, runVars, jobVars, lockVars, agentVars
<1>2. TypeOK'
  BY <1>1, SameRows DEF TypeOK, RowsTyped
<1>3. \A r \in Runs : Still(r)
  BY <1>1, QuietRows DEF jobVars
<1>. QED  BY <1>1, <1>2, <1>3, CalmKeepsDrive

(* Before the first call nobody drives anything. *)
LEMMA InitDrive ==
    ASSUME Init
    PROVE  TypeOK /\ DriveOK
<1>1. TypeOK
  BY InitIInv DEF IInv
<1>2. \A p \in Procs : call[p] = Idle /\ Op(p) = "none" /\ At(p, "idle")
  BY DEF Init, Idle, Op, At
<1>3. ASSUME NEW p \in Procs
      PROVE  /\ ~Driving(p) /\ ~Deciding(p) /\ ~Starting(p) /\ ~Resuming(p) /\ ~Turning(p)
             /\ ~Working(p) /\ ~Updating(p, "resume") /\ ~At(p, "createApproval")
             /\ ~At(p, "record") /\ ~At(p, "decideWrite") /\ ~At(p, "count")
             /\ ~At(p, "enqueue") /\ ~At(p, "statusWrite")
  BY <1>2 DEF Driving, Starting, Resuming, Turning, Working, Deciding, Updating, At
<1>4. ASSUME NEW p \in Procs
      PROVE  RoleOK(p) /\ DriverOK(p)
  BY <1>2, <1>3 DEF RoleOK, DriverOK, At
<1>5. ASSUME NEW r \in Runs
      PROVE  RunOK(r)
  <2>1. /\ Unbegun(r) /\ Queued = {} /\ PendingApprovals(r) = {} /\ job[r] = "NONE"
        /\ invocations[r] = 0 /\ gate[r] = FALSE
    BY DEF Init, Unbegun, Queued, PendingApprovals
  <2>. QED  BY <2>1, RunsAssumption DEF RunOK
<1>. QED  BY <1>1, <1>3, <1>4, <1>5 DEF DriveOK

(* What DriveOK says of the agents, of the bound and of the gate. *)
LEMMA DriveShows ==
    ASSUME DriveOK
    PROVE  OneAgentPerRun /\ InvocationBound /\ ApprovalGate
<1>1. OneAgentPerRun
  BY DEF DriveOK, OneAgentPerRun, Driving, Working, At
<1>2. InvocationBound /\ ApprovalGate
  BY DEF DriveOK, RunOK, InvocationBound, ApprovalGate, Granted
<1>. QED  BY <1>1, <1>2

(* One worker and one operator that creates, decides and cancels, killed   *)
(* anywhere: a run has one token, its job, its driver or its open approval *)
(* (run_service.py, worker.py).                                            *)
THEOREM DriveInvariance ==
    ASSUME OneWorker, OneOperator
    PROVE  Spec => [](TypeOK /\ DriveOK)
<1>1. TypeOK /\ DriveOK /\ [Next]_vars => TypeOK' /\ DriveOK'
  BY ProcessKeepsTypes, ProcessKeepsDrive, MaintenanceKeepsDrive, StutterDrive DEF Next
<1>2. Init => TypeOK /\ DriveOK
  BY InitDrive
<1>. QED  BY <1>1, <1>2, PTL DEF Spec

--------------------------------------------------------------------------------
(* Reconciliations beside the handlers: what a reconciliation is about to  *)
(* write is a status, over one that a run has.                             *)
Settling(row) == row.to \in RunStatus /\ (row.id \in Runs => status[row.id] # "NONE")

RecOK ==
    /\ DOMAIN rec = Reconcilers
    /\ \A p \in Reconcilers : "pc" \in DOMAIN rec[p]
    /\ \A p \in Reconcilers : rec[p].pc = "write" => Settling(rec[p].item[1])

ReconcileInv == TypeOK /\ DriveOK /\ RecOK

(* A run never loses its row. *)
LEMMA ProcessKeepsRuns ==
    ASSUME TypeOK, DriveOK, NEW p \in Procs, Start(p) \/ Continue(p) \/ Die(p),
           NEW r \in Runs, status[r] # "NONE"
    PROVE  status'[r] # "NONE"
<1>1. CASE CreateRun(p)
  BY <1>1 DEF CreateRun, TypeOK
<1>2. CASE WriteStatus(p)
  <2>1. call[p].to # "NONE"
    BY <1>2 DEF WriteStatus, DriveOK, RoleOK
  <2>. QED  BY <1>2, <2>1 DEF WriteStatus, TypeOK
<1>3. CASE ~WriteStatus(p) /\ ~CreateRun(p)
  <2>1. status' = status
    BY <1>3 DEF Start, Continue, AcquireLock, Die, runVars, ReadNextJob, StartApprove,
         StartReject, StartCancel, Enqueue, MarkJobRunning, SkipStoppedRun, FinishJob, ReadStatus,
         Raise, Execute, BlockPrompt, NoLockNeeded, ExpireOldLocks, ReadLock, InsertLock, Release, CountSteps,
         CheckBeforeStep, LaunchError, Launch, AgentReturns, CheckAfterStep, RecordStep,
         CreateApproval, ReadPending, DecideRead, DecideWrite, RequestCancellation, ReadJob,
         CancelJob, CloseCancellation
  <2>. QED  BY <2>1
<1>. QED  BY <1>1, <1>2, <1>3

(* A handler's step beside the reconciliations. *)
LEMMA ProcessKeepsReconcile ==
    ASSUME OneWorker, OneOperator, ReconcileInv, NEW p \in Procs,
           Start(p) \/ Continue(p) \/ Die(p), UNCHANGED rec
    PROVE  ReconcileInv'
<1>1. TypeOK' /\ DriveOK'
  BY ProcessKeepsTypes, ProcessKeepsDrive DEF ReconcileInv
<1>2. RecOK'
  BY ProcessKeepsRuns DEF ReconcileInv, RecOK, Settling
<1>. QED  BY <1>1, <1>2 DEF ReconcileInv

(* A process that was killed is started again: it knows nothing any more. *)
LEMMA RestartKeepsReconcile ==
    ASSUME ReconcileInv, NEW p \in Procs, Restart(p)
    PROVE  ReconcileInv'
<1>1. TypeOK /\ DriveOK
  BY DEF ReconcileInv
<1>2. Others(p) /\ call'[p] = Idle
  BY <1>1 DEF Restart, Become, Others, TypeOK
<1>3. Idle \in Calls /\ CallOK(Idle)
  BY RunsAssumption DEF Idle, Calls, CallOK, PCs, RunStatus, Runs
<1>4. TypeOK'
  <2>1. RowsTyped
    BY <1>1, SameRows DEF Restart
  <2>2. call' \in [Procs -> Calls] /\ \A q \in Procs : CallOK(call'[q])
    BY <1>1, <1>2, <1>3 DEF Restart, Become, TypeOK
  <2>. QED  BY <2>1, <2>2 DEF TypeOK, RowsTyped
<1>5. \A r \in Runs : Still(r)
  BY QuietRows DEF Restart, jobVars
<1>6. call'[p].run \in Runs
  BY <1>2, <1>3 DEF Calls
<1>7. DriveOK'
  <2>1. Outward(p, call[p], call'[p])
    BY <1>2, IdleOut
  <2>. QED  BY <1>1, <1>2, <1>5, <1>6, <2>1, GoesOut
<1>8. RecOK'
  BY DEF ReconcileInv, RecOK, Settling, Restart, runVars
<1>. QED  BY <1>4, <1>7, <1>8 DEF ReconcileInv

(* A reconciler's list never is a write. *)
LEMMA HoldingPass ==
    ASSUME NEW pc \in {"settle", "failJobs", "expire", "close", "stop"}, NEW rows
    PROVE  /\ "pc" \in DOMAIN Holding(pc, rows)
           /\ Holding(pc, rows).pc # "write"
BY DEF Holding, NextPass

(* A reconciler goes on to a record that is not a write. *)
LEMMA PassKeepsRec ==
    ASSUME RecOK, NEW p \in Reconcilers, NEW h, "pc" \in DOMAIN h, h.pc # "write",
           rec' = [rec EXCEPT ![p] = h],
           \A r \in Runs : status[r] # "NONE" => status'[r] # "NONE"
    PROVE  RecOK'
<1>1. \A q \in Reconcilers : rec'[q] = IF q = p THEN h ELSE rec[q]
  BY DEF RecOK
<1>2. DOMAIN rec' = Reconcilers
  BY DEF RecOK
<1>. QED  BY <1>1, <1>2 DEF RecOK, Settling

(* The steps of a reconciliation that write no row. *)
LEMMA LookingKeepsReconcile ==
    ASSUME ReconcileInv, NEW p \in Reconcilers,
           \/ ListStaleRuns(p) \/ ReadStaleRun(p) \/ ListStaleJobs(p) \/ ListStaleLocks(p)
           \/ ListOrphanedCancellations(p) \/ ListStaleWorkers(p) \/ StopWorker(p)
    PROVE  ReconcileInv'
<1>1. UNCHANGED vars
  BY DEF ListStaleRuns, ReadStaleRun, ListStaleJobs, ListStaleLocks, ListOrphanedCancellations,
         ListStaleWorkers, StopWorker
<1>2. TypeOK' /\ DriveOK'
  BY <1>1, StutterDrive DEF ReconcileInv
<1>3. status' = status /\ RecOK
  BY <1>1 DEF vars, ReconcileInv
<1>4. CASE ReadStaleRun(p)
  <2>1. PICK row \in rec[p].todo :
          rec' = [rec EXCEPT ![p] =
                IF row.to \in Allowed(status[row.id])
                THEN [pc |-> "write", todo |-> @.todo \ {row}, item |-> <<row>>]
                ELSE NotReconciling]
    BY <1>4 DEF ReadStaleRun
  <2>2. CASE row.to \in Allowed(status[row.id])
    <3> DEFINE h == [pc |-> "write", todo |-> rec[p].todo \ {row}, item |-> <<row>>]
    <3>1. rec' = [rec EXCEPT ![p] = h]
      BY <2>1, <2>2
    <3>2. Settling(row)
      BY <2>2 DEF Settling, Allowed, RunStatus, Terminal
    <3>3. h.pc = "write" /\ h.item[1] = row /\ "pc" \in DOMAIN h
      OBVIOUS
    <3> HIDE DEF h
    <3>4. DOMAIN rec' = Reconcilers /\ \A q \in Reconcilers : rec'[q] = IF q = p THEN h ELSE rec[q]
      BY <1>3, <3>1 DEF RecOK
    <3>. QED  BY <1>2, <1>3, <3>2, <3>3, <3>4 DEF RecOK, ReconcileInv, Settling
  <2>3. CASE row.to \notin Allowed(status[row.id])
    <3>1. rec' = [rec EXCEPT ![p] = NotReconciling]
      BY <2>1, <2>3
    <3>2. "pc" \in DOMAIN NotReconciling /\ NotReconciling.pc # "write"
      BY DEF NotReconciling
    <3>. QED  BY <1>2, <1>3, <3>1, <3>2, PassKeepsRec DEF ReconcileInv
  <2>. QED  BY <2>2, <2>3
<1>5. CASE ~ReadStaleRun(p)
  <2>1. \E pc \in {"settle", "failJobs", "expire", "close", "stop"} : \E rows :
          rec' = [rec EXCEPT ![p] = Holding(pc, rows)]
    BY <1>5 DEF ListStaleRuns, ListStaleJobs, ListStaleLocks, ListOrphanedCancellations,
                ListStaleWorkers, StopWorker, Listed, Take
  <2>. QED  BY <1>2, <1>3, <2>1, HoldingPass, PassKeepsRec DEF ReconcileInv
<1>. QED  BY <1>4, <1>5

(* FreeStaleRun and the passes over jobs, locks and cancellations: rows that *)
(* no driver counts on, or a job that leaves the queue.                      *)
LEMMA RepairKeepsReconcile ==
    ASSUME ReconcileInv, NEW p \in Reconcilers,
           FreeStaleRun(p) \/ FailStaleJob(p) \/ ExpireStaleLock(p) \/ CompleteCancellation(p)
    PROVE  ReconcileInv'
<1>0. TypeOK /\ DriveOK /\ RecOK
  BY DEF ReconcileInv
<1>1. call' = call /\ UNCHANGED <<runVars, jobs, approvals, agentVars>> /\ lockId' = lockId
  BY DEF FreeStaleRun, FailStaleJob, ExpireStaleLock, CompleteCancellation, jobVars, lockVars
<1>2. locks' \subseteq locks
  BY DEF FreeStaleRun, FailStaleJob, ExpireStaleLock, CompleteCancellation, LocksWithout, lockVars
<1>3. job' \in [Runs -> JobStatus] /\ \A r \in Runs : job'[r] = "QUEUED" => job[r] = "QUEUED"
  <2>1. CASE FailStaleJob(p)
    BY <1>0, <2>1 DEF FailStaleJob, TypeOK, JobStatus
  <2>2. CASE ~FailStaleJob(p)
    BY <1>0, <2>2 DEF FreeStaleRun, ExpireStaleLock, CompleteCancellation, TypeOK, jobVars
  <2>. QED  BY <2>1, <2>2
<1>4. cancellations' \in [Runs -> Seq(CancellationStatus)]
  <2>1. CASE CompleteCancellation(p)
    <3>1. PICK c : cancellations' = [cancellations EXCEPT ![c.id][c.row] = "COMPLETED"]
      BY <2>1 DEF CompleteCancellation
    <3>2. ASSUME c.id \in Runs
          PROVE  [cancellations[c.id] EXCEPT ![c.row] = "COMPLETED"] \in Seq(CancellationStatus)
      BY <1>0, <3>2, SeqExcept DEF TypeOK, CancellationStatus
    <3>. QED  BY <1>0, <3>1, <3>2 DEF TypeOK
  <2>2. CASE ~CompleteCancellation(p)
    BY <1>0, <2>2 DEF FreeStaleRun, ExpireStaleLock, FailStaleJob, TypeOK
  <2>. QED  BY <2>1, <2>2
<1>5. TypeOK'
  BY <1>0, <1>1, <1>2, <1>3, <1>4 DEF TypeOK, runVars, agentVars
<1>6. DriveOK'
  BY <1>0, <1>1, <1>3, QuietRows, CalmKeepsDrive
<1>7. RecOK'
  <2>1. status' = status
    BY <1>1 DEF runVars
  <2>2. CASE FreeStaleRun(p)
    BY <1>0, <2>1, <2>2, HoldingPass, PassKeepsRec DEF FreeStaleRun
  <2>3. CASE ~FreeStaleRun(p)
    <3>1. \E pc \in {"settle", "failJobs", "expire", "close", "stop"} : \E rows :
            rec' = [rec EXCEPT ![p] = Holding(pc, rows)]
      BY <2>3 DEF FailStaleJob, ExpireStaleLock, CompleteCancellation, Take
    <3>. QED  BY <1>0, <2>1, <3>1, HoldingPass, PassKeepsRec
  <2>. QED  BY <2>2, <2>3
<1>. QED  BY <1>5, <1>6, <1>7 DEF ReconcileInv

(* A stale run is settled, whatever has become of it: its drivers go on. *)
LEMMA SettleKeepsReconcile ==
    ASSUME ReconcileInv, NEW p \in Reconcilers, SettleStaleRun(p)
    PROVE  ReconcileInv'
<1>0. TypeOK /\ DriveOK /\ RecOK
  BY DEF ReconcileInv
<1> DEFINE row == rec[p].item[1]
<1>1. Settling(row)
  BY <1>0 DEF SettleStaleRun, RecOK
<1>2. /\ status' = [status EXCEPT ![row.id] = row.to] /\ call' = call
      /\ UNCHANGED <<gate, stopped, jobs, job, locks, lockId, approvals, cancellations, agentVars>>
  BY DEF SettleStaleRun, jobVars, lockVars
<1>3. \A r \in Runs : status'[r] = "NONE" <=> status[r] = "NONE"
  BY <1>0, <1>1, <1>2 DEF Settling, TypeOK, RunStatus
<1>4. TypeOK'
  <2>1. status' \in [Runs -> RunStatus \cup {"NONE"}]
    BY <1>0, <1>1, <1>2 DEF Settling, TypeOK
  <2>. QED  BY <1>0, <1>2, <2>1 DEF TypeOK, agentVars
<1>5. DriveOK'
  <2>1. \A r \in Runs : Still(r)
    BY <1>2, <1>3 DEF Still, agentVars, Queued
  <2>. QED  BY <1>0, <1>2, <2>1, CalmKeepsDrive
<1>6. RecOK'
  <2> DEFINE h == [rec[p] EXCEPT !.pc = "free"]
  <2>1. rec' = [rec EXCEPT ![p] = h]
    BY DEF SettleStaleRun
  <2>2. "pc" \in DOMAIN h /\ h.pc # "write"
    BY <1>0 DEF RecOK
  <2> HIDE DEF h
  <2>. QED  BY <1>0, <1>3, <2>1, <2>2, PassKeepsRec
<1>. QED  BY <1>4, <1>5, <1>6 DEF ReconcileInv

(* A session or a reconciliation begins or is killed. *)
LEMMA SessionKeepsReconcile ==
    ASSUME ReconcileInv, NEW p \in Reconcilers,
           \/ BeginSession(p) \/ CreateHeartbeat(p) \/ EndSession(p) \/ KillStarting(p)
           \/ StartReconcile(p)
    PROVE  ReconcileInv'
<1>1. UNCHANGED vars
  BY DEF BeginSession, CreateHeartbeat, EndSession, KillStarting, StartReconcile
<1>2. TypeOK' /\ DriveOK'
  BY <1>1, StutterDrive DEF ReconcileInv
<1>3. status' = status /\ RecOK
  BY <1>1 DEF vars, ReconcileInv
<1>4. RecOK'
  <2>1. CASE UNCHANGED rec
    BY <1>3, <2>1 DEF RecOK, Settling
  <2>2. CASE KillStarting(p)
    <3>1. "pc" \in DOMAIN NotReconciling /\ NotReconciling.pc # "write"
      BY DEF NotReconciling
    <3>2. rec' = [rec EXCEPT ![p] = NotReconciling]
      BY <2>2 DEF KillStarting
    <3>. QED  BY <1>3, <3>1, <3>2, PassKeepsRec
  <2>3. CASE BeginSession(p) \/ StartReconcile(p)
    <3> DEFINE h == [rec[p] EXCEPT !.pc = "runs"]
    <3>1. rec' = [rec EXCEPT ![p] = h]
      BY <2>3 DEF BeginSession, StartReconcile
    <3>2. "pc" \in DOMAIN h /\ h.pc # "write"
      BY <1>3 DEF RecOK
    <3> HIDE DEF h
    <3>. QED  BY <1>3, <3>1, <3>2, PassKeepsRec
  <2>. QED  BY <2>1, <2>2, <2>3 DEF CreateHeartbeat, EndSession
<1>. QED  BY <1>2, <1>4 DEF ReconcileInv

(* Time passes, or nothing happens. *)
LEMMA CalmKeepsReconcile ==
    ASSUME ReconcileInv, UNCHANGED vars, UNCHANGED rec
    PROVE  ReconcileInv'
<1>1. TypeOK' /\ DriveOK'
  BY StutterDrive DEF ReconcileInv
<1>2. RecOK'
  BY DEF ReconcileInv, RecOK, Settling, vars
<1>. QED  BY <1>1, <1>2 DEF ReconcileInv

(* Any reconciliation's step. *)
LEMMA ReconcileStepKeeps ==
    ASSUME ReconcileInv, NEW p \in Reconcilers, ReconcileStep(p)
    PROVE  ReconcileInv'
BY LookingKeepsReconcile, RepairKeepsReconcile, SettleKeepsReconcile DEF ReconcileStep

(* Any step. *)
LEMMA NextKeepsReconcile ==
    ASSUME OneWorker, OneOperator, ReconcileInv, [ReconcileNext]_allVars
    PROVE  ReconcileInv'
<1>1. CASE \E p \in Procs : Handler(p)
  BY <1>1, ProcessKeepsReconcile DEF Handler
<1>2. CASE \E w \in Workers : Poll(w)
  <2>1. PICK w \in Workers : Poll(w)
    BY <1>2
  <2>2. CASE ReadNextJob(w)
    BY <2>1, <2>2, ProcessKeepsReconcile DEF Poll, Start, Procs
  <2>. QED  BY <2>1, <2>2, CalmKeepsReconcile DEF Poll
<1>3. CASE \E p \in Procs : Kill(p)
  BY <1>3, ProcessKeepsReconcile DEF Kill
<1>4. CASE \E p \in Procs : Restart(p)
  BY <1>4, RestartKeepsReconcile
<1>5. CASE \E p \in Reconcilers : ReconcileStep(p)
  BY <1>5, ReconcileStepKeeps
<1>6. CASE \E p \in Reconcilers :
             \/ BeginSession(p) \/ CreateHeartbeat(p) \/ EndSession(p) \/ KillStarting(p)
             \/ StartReconcile(p)
  BY <1>6, SessionKeepsReconcile
<1>7. CASE TimePasses
  BY <1>7, CalmKeepsReconcile DEF TimePasses, GrowOld, JobGrowsOld, BeatAges
<1>8. CASE UNCHANGED allVars
  BY <1>8, CalmKeepsReconcile DEF allVars
<1>. QED  BY <1>1, <1>2, <1>3, <1>4, <1>5, <1>6, <1>7, <1>8
          DEF ReconcileNext, Work, Procs, Reconcilers

(* With sessions, crashes, restarts and any number of reconciliations *)
(* beside the handlers (reconcile.py), the same holds.                *)
THEOREM ReconcileInvariance ==
    ASSUME OneWorker, OneOperator
    PROVE  ReconcileSpec => []ReconcileInv
<1>1. ReconcileInit => ReconcileInv
  <2>1. ReconcileInit => RecOK
    BY DEF ReconcileInit, RecOK, NotReconciling
  <2>. QED  BY <2>1, InitDrive DEF ReconcileInit, ReconcileInv
<1>2. ReconcileInv /\ [ReconcileNext]_allVars => ReconcileInv'
  BY NextKeepsReconcile
<1>. QED  BY <1>1, <1>2, PTL DEF ReconcileSpec

(* At most one agent at a time works on a run, wherever processes are killed *)
(* and whatever a reconciliation writes over the run (run_service.py:673).   *)
THEOREM OneAgentThroughout ==
    ASSUME OneWorker, OneOperator
    PROVE  ReconcileSpec => []OneAgentPerRun
<1>1. ReconcileInv => OneAgentPerRun
  BY DriveShows DEF ReconcileInv
<1>. QED  BY ReconcileInvariance, <1>1, PTL

(* max_loops bounds the invocations of a run over all its pauses, crashes *)
(* and restarts (run_service.py:403).                                     *)
THEOREM LoopsAreBounded ==
    ASSUME OneWorker, OneOperator
    PROVE  ReconcileSpec => []InvocationBound
<1>1. ReconcileInv => InvocationBound
  BY DriveShows DEF ReconcileInv
<1>. QED  BY ReconcileInvariance, <1>1, PTL

(* With require_approval, each invocation after the first has an approval of *)
(* its own, a reconciliation or not (run_service.py:793).                    *)
THEOREM GatedRunsAreApproved ==
    ASSUME OneWorker, OneOperator
    PROVE  ReconcileSpec => []ApprovalGate
<1>1. ReconcileInv => ApprovalGate
  BY DriveShows DEF ReconcileInv
<1>. QED  BY ReconcileInvariance, <1>1, PTL
================================================================================
