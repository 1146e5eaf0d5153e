-------------------------------- MODULE Reconcile --------------------------------
(***************************************************************************)
(* Crash recovery (reconcile.py) over the rows of RunService: worker        *)
(* sessions with their heartbeats (worker.py), processes that are killed    *)
(* and started again, and reconciliations, at the start of a session or by  *)
(* `system reconcile`, beside everything else.  A reconciliation is five    *)
(* passes; each lists stale rows and then repairs them one by one, so what  *)
(* it repairs may have changed since it was listed.  The reads that make up *)
(* one list are one step here.                                              *)
(***************************************************************************)
EXTENDS RunService

CONSTANTS
    Admins,         \* callers of `system reconcile`, beside the workers
    MaxCrashes      \* bound: processes killed

ASSUME CrashesAssumption == MaxCrashes \in Nat

Reconcilers == Workers \cup Admins

VARIABLES
    oldRuns,        \* runs older than timeout + grace, counted from created_at
    oldJobs,        \* runs whose job was started longer ago than that
    beats,          \* ids of the ACTIVE worker_heartbeats rows
    fresh,          \* those updated within the last 60 seconds
    session,        \* each worker: "off", "starting" or "on"
    beat,           \* the id of its heartbeat (0: none)
    crashes,        \* processes killed so far
    rec             \* each reconciler's pass, the rows it still holds, the one in hand

ageVars == <<oldRuns, oldJobs>>
beatVars == <<beats, fresh, session, beat>>
allVars == <<vars, ageVars, beatVars, crashes, rec>>

BeatIds == 1..(MaxCrashes + Cardinality(Workers))
NotReconciling == [pc |-> "idle", todo |-> {}, item |-> <<>>]

ReconcileInit ==
    /\ Init
    /\ oldRuns = {} /\ oldJobs = {}
    /\ beats = {} /\ fresh = {}
    /\ session = [w \in Workers |-> "off"]
    /\ beat = [w \in Workers |-> 0]
    /\ crashes = 0
    /\ rec = [p \in Reconcilers |-> NotReconciling]

--------------------------------------------------------------------------------
(* Time.  The age of a run counts from its creation: time in the queue and *)
(* time spent waiting for an approval included.                            *)
GrowOld(r) ==
    /\ status[r] # "NONE" /\ r \notin oldRuns
    /\ oldRuns' = oldRuns \cup {r}
    /\ UNCHANGED <<vars, oldJobs, beatVars, crashes, rec>>

(* A job is started after its run was created. *)
JobGrowsOld(r) ==
    /\ r \in oldRuns \ oldJobs
    /\ job[r] = "RUNNING"
    /\ oldJobs' = oldJobs \cup {r}
    /\ UNCHANGED <<vars, oldRuns, beatVars, crashes, rec>>

(* A polling worker refreshes its heartbeat every few seconds; one that works *)
(* on a job does not, and neither does one that is gone.                      *)
BeatAges(b) ==
    /\ b \in fresh
    /\ \A w \in Workers : beat[w] = b => ~At(w, "idle")
    /\ fresh' = fresh \ {b}
    /\ UNCHANGED <<vars, ageVars, beats, session, beat, crashes, rec>>

--------------------------------------------------------------------------------
(* A worker's session (run_forever). *)
BeginSession(w) ==
    /\ session[w] = "off" /\ At(w, "idle")
    /\ session' = [session EXCEPT ![w] = "starting"]
    /\ rec' = [rec EXCEPT ![w].pc = "runs"]
    /\ UNCHANGED <<vars, ageVars, beats, fresh, beat, crashes>>

(* The heartbeat follows the reconciliation, whether that ended or raised. *)
CreateHeartbeat(w) ==
    /\ session[w] = "starting" /\ rec[w].pc = "idle"
    /\ \E b \in BeatIds :
        /\ b \notin beats
        /\ \A p \in Reconcilers : rec[p].pc = "stop" => [id |-> b] \notin rec[p].todo
        /\ beats' = beats \cup {b}
        /\ fresh' = fresh \cup {b}
        /\ beat' = [beat EXCEPT ![w] = b]
    /\ session' = [session EXCEPT ![w] = "on"]
    /\ UNCHANGED <<vars, ageVars, crashes, rec>>

(* _beat updates updated_at, whatever the row's status; then a job is claimed, *)
(* if there is one.                                                            *)
Poll(w) ==
    /\ session[w] = "on"
    /\ \/ ReadNextJob(w)
       \/ At(w, "idle") /\ (\A r \in Runs : ~NextJob(r)) /\ UNCHANGED vars
    /\ fresh' = fresh \cup ({beat[w]} \cap beats)
    /\ UNCHANGED <<ageVars, beats, session, beat, crashes, rec>>

(* The bounded mode found the queue empty or has run its job, or the worker *)
(* was told to stop.                                                        *)
EndSession(w) ==
    /\ session[w] = "on" /\ At(w, "idle")
    /\ beats' = beats \ {beat[w]}
    /\ fresh' = fresh \ {beat[w]}
    /\ beat' = [beat EXCEPT ![w] = 0]
    /\ session' = [session EXCEPT ![w] = "off"]
    /\ UNCHANGED <<vars, ageVars, crashes, rec>>

(* The process is killed; its heartbeat row stays ACTIVE. *)
Kill(p) ==
    /\ crashes < MaxCrashes
    /\ Die(p)
    /\ crashes' = crashes + 1
    /\ UNCHANGED <<ageVars, beatVars, rec>>

KillStarting(w) ==
    /\ w \in MayDie /\ crashes < MaxCrashes
    /\ session[w] # "off" /\ At(w, "idle")
    /\ crashes' = crashes + 1
    /\ session' = [session EXCEPT ![w] = "off"]
    /\ beat' = [beat EXCEPT ![w] = 0]
    /\ rec' = [rec EXCEPT ![w] = NotReconciling]
    /\ UNCHANGED <<vars, ageVars, beats, fresh>>

(* Somebody starts the program again. *)
Restart(p) ==
    /\ At(p, "dead")
    /\ Become(p, Idle)
    /\ session' = [w \in Workers |-> IF w = p THEN "off" ELSE session[w]]
    /\ beat' = [w \in Workers |-> IF w = p THEN 0 ELSE beat[w]]
    /\ UNCHANGED <<runVars, jobVars, lockVars, approvals, cancellations, agentVars,
                   ageVars, beats, fresh, crashes, rec>>

--------------------------------------------------------------------------------
(* reconcile_stale_state *)
StartReconcile(p) ==
    /\ p \in Admins /\ rec[p].pc = "idle"
    /\ rec' = [rec EXCEPT ![p].pc = "runs"]
    /\ UNCHANGED <<vars, ageVars, beatVars, crashes>>

NextPass(pc) ==
    CASE pc = "settle" -> "jobs"
      [] pc = "failJobs" -> "locks"
      [] pc = "expire" -> "cancellations"
      [] pc = "close" -> "workers"
      [] OTHER -> "idle"

(* A pass lists its rows, then repairs them; only the runs' order matters. *)
Holding(pc, rows) ==
    [pc |-> IF rows = {} THEN NextPass(pc) ELSE pc, todo |-> rows, item |-> <<>>]

Listed(p, pass, repair, rows) ==
    /\ rec[p].pc = pass
    /\ rec' = [rec EXCEPT ![p] = Holding(repair, rows)]

Take(p, repair, row) ==
    /\ rec[p].pc = repair
    /\ rec' = [rec EXCEPT ![p] = Holding(repair, @.todo \ {row})]

(* Mutant: only runs with a job are looked at. *)
ListStaleQueuedRuns(p) ==
    /\ Listed(p, "runs", "settle",
              {[id |-> r, to |-> "FAILED"] :
                    r \in {r \in oldRuns : status[r] = "RUNNING" /\ job[r] = "RUNNING"}})
    /\ UNCHANGED <<vars, ageVars, beatVars, crashes>>

(* detect_stale_runs: an old RUNNING run is stale, whoever works on it. *)
Requested(r) == cancellations[r] # <<>> /\ cancellations[r][Len(cancellations[r])] = "REQUESTED"

ListStaleRuns(p) ==
    /\ Listed(p, "runs", "settle",
              {[id |-> r, to |-> IF Requested(r) THEN "STOPPED" ELSE "FAILED"] :
                    r \in {r \in oldRuns : status[r] = "RUNNING"}})
    /\ UNCHANGED <<vars, ageVars, beatVars, crashes>>

(* update_run_status reads and validates; its ValueError ends the whole *)
(* reconciliation.                                                      *)
ReadStaleRun(p) ==
    /\ rec[p].pc = "settle"
    /\ \E row \in rec[p].todo :
        /\ \A k \in rec[p].todo : row.id <= k.id
        /\ rec' = [rec EXCEPT ![p] =
                IF row.to \in Allowed(status[row.id])
                THEN [pc |-> "write", todo |-> @.todo \ {row}, item |-> <<row>>]
                ELSE NotReconciling]
    /\ UNCHANGED <<vars, ageVars, beatVars, crashes>>

SettleStaleRun(p) ==
    /\ rec[p].pc = "write"
    /\ status' = [status EXCEPT ![rec[p].item[1].id] = rec[p].item[1].to]
    /\ rec' = [rec EXCEPT ![p].pc = "free"]
    /\ UNCHANGED <<gate, stopped, jobVars, lockVars, approvals, cancellations, agentVars, call,
                   ageVars, beatVars, crashes>>

FreeStaleRun(p) ==
    /\ rec[p].pc = "free"
    /\ locks' = LocksWithout(rec[p].item[1].id)
    /\ rec' = [rec EXCEPT ![p] = Holding("settle", @.todo)]
    /\ UNCHANGED <<runVars, jobVars, lockId, approvals, cancellations, agentVars, call,
                   ageVars, beatVars, crashes>>

(* Mutant: the worker registers its heartbeat before it reconciles. *)
ListStaleJobsMasked(p) ==
    /\ Listed(p, "jobs", "failJobs",
              {[id |-> r] : r \in {r \in oldJobs :
                    job[r] = "RUNNING" /\ fresh = {} /\ p \notin Workers}})
    /\ UNCHANGED <<vars, ageVars, beatVars, crashes>>

(* detect_stale_queue_jobs: a live worker is taken to own every RUNNING job. *)
ListStaleJobs(p) ==
    /\ Listed(p, "jobs", "failJobs",
              {[id |-> r] : r \in {r \in oldJobs : job[r] = "RUNNING" /\ fresh = {}}})
    /\ UNCHANGED <<vars, ageVars, beatVars, crashes>>

(* UPDATE ... WHERE id: also over a job that is done by now. *)
FailStaleJob(p) ==
    /\ \E row \in rec[p].todo :
        /\ Take(p, "failJobs", row)
        /\ job' = [job EXCEPT ![row.id] = "FAILED"]
    /\ UNCHANGED <<runVars, jobs, lockVars, approvals, cancellations, agentVars, call,
                   ageVars, beatVars, crashes>>

(* Mutant: only expired locks are stale. *)
ListExpiredLocks(p) ==
    /\ \E old \in SUBSET {l \in locks : MayBeOld(l)} :
        Listed(p, "locks", "expire", {[id |-> l.id] : l \in old})
    /\ UNCHANGED <<vars, ageVars, beatVars, crashes>>

(* detect_stale_locks: past the expiry, or of a run that is over. *)
ListStaleLocks(p) ==
    /\ \E old \in SUBSET {l \in locks : MayBeOld(l)} :
        Listed(p, "locks", "expire",
               {[id |-> l.id] : l \in old \cup {l \in locks : status[l.run] \in Terminal}})
    /\ UNCHANGED <<vars, ageVars, beatVars, crashes>>

ExpireStaleLock(p) ==
    /\ \E row \in rec[p].todo :
        /\ Take(p, "expire", row)
        /\ locks' = {l \in locks : l.id # row.id}
    /\ UNCHANGED <<runVars, jobVars, lockId, approvals, cancellations, agentVars, call,
                   ageVars, beatVars, crashes>>

(* Mutant: only a stopped run closes its cancellation. *)
ListStoppedCancellations(p) ==
    /\ Listed(p, "cancellations", "close",
              {c \in [id : Runs, row : UNION {DOMAIN cancellations[r] : r \in Runs}] :
                  /\ c.row \in DOMAIN cancellations[c.id]
                  /\ cancellations[c.id][c.row] = "REQUESTED"
                  /\ status[c.id] = "STOPPED"})
    /\ UNCHANGED <<vars, ageVars, beatVars, crashes>>

(* detect_orphaned_cancellations: REQUESTED although the run is over. *)
ListOrphanedCancellations(p) ==
    /\ Listed(p, "cancellations", "close",
              {c \in [id : Runs, row : UNION {DOMAIN cancellations[r] : r \in Runs}] :
                  /\ c.row \in DOMAIN cancellations[c.id]
                  /\ cancellations[c.id][c.row] = "REQUESTED"
                  /\ status[c.id] \in Terminal})
    /\ UNCHANGED <<vars, ageVars, beatVars, crashes>>

CompleteCancellation(p) ==
    /\ \E c \in rec[p].todo :
        /\ Take(p, "close", c)
        /\ cancellations' = [cancellations EXCEPT ![c.id][c.row] = "COMPLETED"]
    /\ UNCHANGED <<runVars, jobVars, lockVars, approvals, agentVars, call,
                   ageVars, beatVars, crashes>>

ListStaleWorkers(p) ==
    /\ Listed(p, "workers", "stop", {[id |-> b] : b \in beats \ fresh})
    /\ UNCHANGED <<vars, ageVars, beatVars, crashes>>

(* Mutant: the row stays among the fresh ones. *)
StopWorkerStillFresh(p) ==
    /\ \E row \in rec[p].todo :
        /\ Take(p, "stop", row)
        /\ beats' = beats \ {row.id}
    /\ UNCHANGED <<vars, ageVars, fresh, session, beat, crashes>>

(* The row is STOPPED even if its worker has refreshed it since; nothing *)
(* makes it ACTIVE again.                                                *)
StopWorker(p) ==
    /\ \E row \in rec[p].todo :
        /\ Take(p, "stop", row)
        /\ beats' = beats \ {row.id}
        /\ fresh' = fresh \ {row.id}
    /\ UNCHANGED <<vars, ageVars, session, beat, crashes>>

ReconcileStep(p) ==
    \/ ListStaleRuns(p) \/ ReadStaleRun(p) \/ SettleStaleRun(p) \/ FreeStaleRun(p)
    \/ ListStaleJobs(p) \/ FailStaleJob(p)
    \/ ListStaleLocks(p) \/ ExpireStaleLock(p)
    \/ ListOrphanedCancellations(p) \/ CompleteCancellation(p)
    \/ ListStaleWorkers(p) \/ StopWorker(p)

(* The handlers of RunService, a worker's only within its session. *)
Handler(p) ==
    /\ \/ Continue(p)
       \/ p \notin Workers /\ Start(p)
    /\ UNCHANGED <<ageVars, beatVars, crashes, rec>>

(* What a worker process does by itself: it is started, again and again if *)
(* need be, and works through its sessions.                                *)
Work(w) ==
    \/ Handler(w) \/ Restart(w)
    \/ BeginSession(w) \/ ReconcileStep(w) \/ CreateHeartbeat(w) \/ Poll(w) \/ EndSession(w)

TimePasses ==
    \/ \E r \in Runs : GrowOld(r) \/ JobGrowsOld(r)
    \/ \E b \in BeatIds : BeatAges(b)

ReconcileNext ==
    \/ \E w \in Workers : Work(w) \/ KillStarting(w)
    \/ \E p \in Procs \ Workers : Handler(p) \/ Restart(p)
    \/ \E p \in Procs : Kill(p)
    \/ \E p \in Admins : StartReconcile(p) \/ ReconcileStep(p)
    \/ TimePasses

ReconcileSpec == ReconcileInit /\ [][ReconcileNext]_allVars

(* Calls go on, time passes, and one-shot workers are started again and    *)
(* again (`worker run --once` ends with its job or with an empty queue).   *)
(* Nobody is obliged to begin a call or to type `system reconcile`.        *)
ReconcileLiveSpec ==
    /\ ReconcileSpec
    /\ WF_allVars(TimePasses)
    /\ \A w \in Workers : WF_allVars(Work(w))
    /\ \A p \in Procs \ Workers : WF_allVars(~At(p, "idle") /\ (Handler(p) \/ Restart(p)))

--------------------------------------------------------------------------------
(* Every variable holds a value of its kind; a fresh heartbeat is an ACTIVE *)
(* one, an old job is of an old run, and a worker outside a session has no  *)
(* heartbeat of its own.                                                    *)
ReconcileTypeOK ==
    /\ oldJobs \subseteq oldRuns /\ oldRuns \subseteq Runs
    /\ fresh \subseteq beats /\ beats \subseteq BeatIds
    /\ session \in [Workers -> {"off", "starting", "on"}]
    /\ beat \in [Workers -> BeatIds \cup {0}]
    /\ \A w \in Workers : session[w] = "on" <=> beat[w] # 0
    /\ crashes \in 0..MaxCrashes
    /\ \A p \in Reconcilers :
        /\ rec[p].pc \in {"idle", "runs", "settle", "write", "free", "jobs", "failJobs",
                          "locks", "expire", "cancellations", "close", "workers", "stop"}
        /\ rec[p].pc \in {"write", "free"} <=> rec[p].item # <<>>

(* A run whose process was killed, whose provider failed to launch or which *)
(* got stuck otherwise does not stay RUNNING: a reconciliation settles it.  *)
StaleRunsSettle == \A r \in Runs : status[r] = "RUNNING" ~> status[r] # "RUNNING"

(* A job whose worker was killed does not stay RUNNING. *)
StaleJobsSettle == \A r \in Runs : job[r] = "RUNNING" ~> job[r] # "RUNNING"

(* A cancellation interrupted after its request is closed once the run is over. *)
CancellationsClose ==
    \A r \in Runs : (Requested(r) /\ status[r] \in Terminal) ~> ~Requested(r)

(* The lock of a run that was interrupted or is over is given back; only a *)
(* run that waits for an approval may keep one, until the lock expires.    *)
StaleLocksFreed ==
    \A r \in Runs : (\E l \in locks : l.run = r) ~>
        (status[r] = "WAITING_APPROVAL" \/ \A l \in locks : l.run # r)
================================================================================
