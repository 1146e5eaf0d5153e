--------------------------------- MODULE Recovery ---------------------------------
(***************************************************************************)
(* Failure recovery (recovery.py): an attempt is proposed for a FAILED run, *)
(* approved or rejected, and executed, which creates a new run with the     *)
(* source's settings, links it and queues or executes it.  Each handler is  *)
(* its sequence of storage calls.  What executing a run does is RunService; *)
(* here it is the run's outcome.  A recovery run may fail and be recovered  *)
(* in turn.                                                                 *)
(***************************************************************************)
EXTENDS Integers, Sequences

CONSTANTS
    NumRuns,        \* bound: runs ever created; run 1 is there and FAILED
    MaxAttempts,    \* bound: recovery attempts
    Executors,      \* callers that execute attempts
    Deciders,       \* callers that propose, approve and reject
    MayDie          \* callers that may be killed

Runs == 1..NumRuns
Callers == Executors \cup Deciders

ASSUME RecoveryAssumption == NumRuns \in Nat \ {0} /\ MaxAttempts \in Nat

Terminal == {"DONE", "FAILED", "STOPPED"}
RunStatus == {"NONE", "CREATED", "RUNNING", "WAITING_APPROVAL"} \cup Terminal
AttemptStatus == {"PROPOSED", "APPROVED", "REJECTED", "EXECUTED", "FAILED"}

VARIABLES
    status,         \* runs.status
    queued,         \* runs that have a queue job
    started,        \* runs whose agent was started
    origin,         \* the attempt a run was created for (0: none)
    attempts,       \* recovery_attempts, by id: source, status, recovery_run_id (0: NULL)
    cut,            \* history: attempts whose status does not tell what an execution did
    call            \* what each caller is doing

vars == <<status, queued, started, origin, attempts, cut, call>>
runVars == <<status, queued, started, origin>>

Idle == [pc |-> "idle", attempt |-> 0, to |-> "NONE", queue |-> FALSE, run |-> 0]

Init ==
    /\ status = [r \in Runs |-> IF r = 1 THEN "FAILED" ELSE "NONE"]
    /\ queued = {} /\ started = {1}
    /\ origin = [r \in Runs |-> 0]
    /\ attempts = <<>> /\ cut = {}
    /\ call = [p \in Callers |-> Idle]

At(p, pc) == call[p].pc = pc
Become(p, c) == call' = [call EXCEPT ![p] = c]
Goto(p, pc) == Become(p, [call[p] EXCEPT !.pc = pc])
Mine(p) == call[p].attempt

(* propose_recovery: a FAILED run stays FAILED, so reading it and inserting *)
(* the attempt are one step.                                                *)
Propose(p, r) ==
    /\ p \in Deciders /\ At(p, "idle")
    /\ status[r] = "FAILED" /\ Len(attempts) < MaxAttempts
    /\ attempts' = Append(attempts, [source |-> r, status |-> "PROPOSED", link |-> 0])
    /\ UNCHANGED <<runVars, cut, call>>

(* History only: the execution was killed, ended by an exception or broke off *)
(* after the agent began, or its EXECUTED is written over.                    *)
Cut(a) == cut' = cut \cup {a}

(* approve_recovery and reject_recovery refuse an EXECUTED attempt only. *)
StartDecide(p, a, to) ==
    /\ p \in Deciders /\ At(p, "idle")
    /\ attempts[a].status # "EXECUTED"
    /\ Become(p, [Idle EXCEPT !.pc = "decide", !.attempt = a, !.to = to])
    /\ UNCHANGED <<runVars, attempts, cut>>

Decide(p) ==
    /\ At(p, "decide")
    /\ attempts' = [attempts EXCEPT ![Mine(p)].status = call[p].to]
    /\ IF attempts[Mine(p)].status = "EXECUTED" THEN Cut(Mine(p)) ELSE UNCHANGED cut
    /\ Become(p, Idle)
    /\ UNCHANGED runVars

--------------------------------------------------------------------------------
(* Mutant: an attempt that was executed is executed again. *)
StartExecuteAgain(p, a, queue) ==
    /\ p \in Executors /\ At(p, "idle")
    /\ attempts[a].status # "REJECTED"
    /\ Become(p, [Idle EXCEPT !.pc = "create", !.attempt = a, !.queue = queue])
    /\ UNCHANGED <<runVars, attempts, cut>>

(* execute_recovery.  A FAILED attempt may be executed again. *)
StartExecute(p, a, queue) ==
    /\ p \in Executors /\ At(p, "idle")
    /\ attempts[a].status \notin {"REJECTED", "EXECUTED"}
    /\ Become(p, [Idle EXCEPT !.pc = "create", !.attempt = a, !.queue = queue])
    /\ UNCHANGED <<runVars, attempts, cut>>

(* create_run_only_like *)
CreateLike(p) ==
    /\ At(p, "create")
    /\ \E r \in Runs :
        /\ status[r] = "NONE"
        /\ \A k \in 1..(r - 1) : status[k] # "NONE"
        /\ status' = [status EXCEPT ![r] = "CREATED"]
        /\ origin' = [origin EXCEPT ![r] = Mine(p)]
        /\ Become(p, [call[p] EXCEPT !.pc = "link", !.run = r])
    /\ UNCHANGED <<queued, started, attempts, cut>>

(* It raises if the source's provider is gone; nothing has been written. *)
CreateRefused(p) ==
    /\ At(p, "create")
    /\ Become(p, Idle)
    /\ UNCHANGED <<runVars, attempts, cut>>

(* Mutant: the link is made to the run that failed. *)
LinkToSource(p) ==
    /\ At(p, "link")
    /\ attempts' = [attempts EXCEPT ![Mine(p)].link = attempts[Mine(p)].source]
    /\ Goto(p, IF call[p].queue THEN "enqueue" ELSE "execute")
    /\ UNCHANGED <<runVars, cut>>

(* attach_recovery_run, over the link of an earlier execution. *)
Link(p) ==
    /\ At(p, "link")
    /\ attempts' = [attempts EXCEPT ![Mine(p)].link = call[p].run]
    /\ Goto(p, IF call[p].queue THEN "enqueue" ELSE "execute")
    /\ UNCHANGED <<runVars, cut>>

(* Mutant: the failed run is queued instead of the new one. *)
EnqueueSource(p) ==
    /\ At(p, "enqueue")
    /\ queued' = queued \cup {attempts[Mine(p)].source}
    /\ Goto(p, "executed")
    /\ UNCHANGED <<status, started, origin, attempts, cut>>

EnqueueRun(p) ==
    /\ At(p, "enqueue")
    /\ queued' = queued \cup {call[p].run}
    /\ Goto(p, "executed")
    /\ UNCHANGED <<status, started, origin, attempts, cut>>

(* execute_run_step refuses the run: cancelled meanwhile, provider not       *)
(* runnable, blocked prompt, locked workspace.  A RunServiceError.  The run  *)
(* is left RUNNING if it is _make_runner that finds no provider.             *)
ExecuteRefused(p) ==
    /\ At(p, "execute")
    /\ \E to \in {"FAILED", "RUNNING"} :
        status' = [status EXCEPT ![call[p].run] = IF @ = "CREATED" THEN to ELSE @]
    /\ Goto(p, "failed")
    /\ UNCHANGED <<queued, started, origin, attempts, cut>>

ExecuteRun(p) ==
    /\ At(p, "execute")
    /\ status[call[p].run] = "CREATED"
    /\ status' = [status EXCEPT ![call[p].run] = "RUNNING"]
    /\ started' = started \cup {call[p].run}
    /\ Goto(p, "agent")
    /\ UNCHANGED <<queued, origin, attempts, cut>>

(* It returns its report once the run is over or waits for an approval. *)
ExecuteReturns(p) ==
    /\ At(p, "agent")
    /\ \E to \in Terminal \cup {"WAITING_APPROVAL"} :
        status' = [status EXCEPT ![call[p].run] = IF @ = "RUNNING" THEN to ELSE @]
    /\ Goto(p, "executed")
    /\ UNCHANGED <<queued, started, origin, attempts, cut>>

(* _make_runner finds no provider for a later iteration: a RunServiceError    *)
(* after the agent ran.  The run keeps its status.                            *)
ExecuteBreaks(p) ==
    /\ At(p, "agent")
    /\ Cut(Mine(p))
    /\ Goto(p, "failed")
    /\ UNCHANGED <<runVars, attempts>>

(* Any other exception, a refused status change too, passes through: the *)
(* attempt keeps its status.                                               *)
ExecuteRaises(p) ==
    /\ call[p].pc \in {"execute", "agent"}
    /\ Cut(Mine(p))
    /\ Become(p, Idle)
    /\ UNCHANGED <<runVars, attempts>>

(* Mutant: the status of the run is recorded as that of the attempt. *)
RecordRunStatus(p) ==
    /\ call[p].pc \in {"executed", "failed"}
    /\ attempts' = [attempts EXCEPT ![Mine(p)].status = status[call[p].run]]
    /\ Become(p, Idle)
    /\ UNCHANGED <<runVars, cut>>

(* update_recovery_status, whatever was decided meanwhile. *)
RecordResult(p) ==
    /\ call[p].pc \in {"executed", "failed"}
    /\ attempts' = [attempts EXCEPT ![Mine(p)].status =
                        IF At(p, "executed") THEN "EXECUTED" ELSE "FAILED"]
    /\ Become(p, Idle)
    /\ UNCHANGED <<runVars, cut>>

--------------------------------------------------------------------------------
(* What becomes of a recovery run elsewhere: the worker executes it if it is *)
(* queued, somebody approves or cancels it, a reconciliation ends it.        *)
RunGoesOn(r) ==
    /\ \/ /\ r \in queued /\ status[r] = "CREATED"
          /\ \/ status' = [status EXCEPT ![r] = "RUNNING"] /\ started' = started \cup {r}
             \/ status' = [status EXCEPT ![r] = "FAILED"] /\ UNCHANGED started
       \/ /\ status[r] = "WAITING_APPROVAL"
          /\ status' = [status EXCEPT ![r] = "RUNNING"] /\ UNCHANGED started
       \/ /\ status[r] = "RUNNING"
          /\ \E to \in Terminal \cup {"WAITING_APPROVAL"} :
                /\ r \notin started => to \in {"FAILED", "STOPPED"}
                /\ status' = [status EXCEPT ![r] = to]
          /\ UNCHANGED started
       \/ /\ status[r] \in {"CREATED", "WAITING_APPROVAL"}
          /\ status' = [status EXCEPT ![r] = "STOPPED"] /\ UNCHANGED started
    /\ UNCHANGED <<queued, origin, attempts, cut, call>>

Die(p) ==
    /\ p \in MayDie /\ call[p].pc \notin {"idle", "dead"}
    /\ Cut(Mine(p))
    /\ Goto(p, "dead")
    /\ UNCHANGED <<runVars, attempts>>

(* The program is started again. *)
Restart(p) ==
    /\ At(p, "dead")
    /\ Become(p, Idle)
    /\ UNCHANGED <<runVars, attempts, cut>>

(* The commands of a caller; one that approves may go on to execute. *)
Review(p) ==
    \/ \E r \in Runs : Propose(p, r)
    \/ \E a \in DOMAIN attempts : StartDecide(p, a, "APPROVED") \/ StartDecide(p, a, "REJECTED")
    \/ Decide(p)

Execute(p) ==
    \/ \E a \in DOMAIN attempts, queue \in BOOLEAN : StartExecute(p, a, queue)
    \/ CreateLike(p) \/ CreateRefused(p) \/ Link(p) \/ EnqueueRun(p)
    \/ ExecuteRefused(p) \/ ExecuteRun(p) \/ ExecuteReturns(p) \/ ExecuteBreaks(p)
    \/ ExecuteRaises(p) \/ RecordResult(p)

Next ==
    \/ \E p \in Callers : Review(p) \/ Execute(p) \/ Die(p) \/ Restart(p)
    \/ \E r \in Runs : RunGoesOn(r)

Spec == Init /\ [][Next]_vars

--------------------------------------------------------------------------------
(* A row; a link of 0 is none.  The prompt is left out. *)
RecoveryAttempt == [source : Runs, status : AttemptStatus, link : 0..NumRuns]

(* Every variable holds a value of its kind. *)
TypeOK ==
    /\ status \in [Runs -> RunStatus]
    /\ queued \subseteq Runs /\ started \subseteq Runs
    /\ origin \in [Runs -> 0..MaxAttempts]
    /\ cut \subseteq DOMAIN attempts
    /\ attempts \in Seq(RecoveryAttempt)
    /\ \A p \in Callers : call[p].attempt \in 0..Len(attempts) /\ call[p].run \in 0..NumRuns

(* The link of an attempt leads to a run made for it, and a run that is      *)
(* recovered was made for an earlier attempt: following sources and links   *)
(* ends at a run that nobody recovered into existence.                      *)
LinksLeadForward ==
    \A a \in DOMAIN attempts :
        /\ attempts[a].link # 0 => origin[attempts[a].link] = a
        /\ origin[attempts[a].source] < a

(* EXECUTED means that the linked run was handed over: it is queued or was *)
(* executed, and is not left CREATED with nobody to run it.                *)
ExecutedIsHandedOver ==
    \A a \in DOMAIN attempts : attempts[a].status = "EXECUTED" =>
        /\ attempts[a].link # 0
        /\ attempts[a].link \in queued \/ status[attempts[a].link] # "CREATED"

(* Only one run of an attempt ever gets under way, though a FAILED attempt   *)
(* may be executed again: its run was refused before any agent began.  The   *)
(* exceptions are an execution that was killed, one ended by an exception    *)
(* other than RunServiceError, one broken off by a RunServiceError after the *)
(* agent began, and one whose EXECUTED was overwritten by a decision.        *)
NoDoubleRecovery ==
    \A r, k \in queued \cup started :
        origin[r] # 0 /\ origin[r] = origin[k] /\ r # k => origin[r] \in cut
================================================================================
