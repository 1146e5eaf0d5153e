------------------------------ MODULE GitWorkspace ------------------------------
(***************************************************************************)
(* One git workspace: runs that take a checkpoint and edit it, rollbacks    *)
(* (checkpoints.py), reviewed commits (commits.py), and the user who edits, *)
(* stages and commits beside them.  None of the git commands is issued      *)
(* under the workspace lock except by a run, so they interleave.            *)
(*                                                                         *)
(* Git is external and modelled as it is used: a commit is a tree with a    *)
(* parent, a tree gives every file a content, an edit makes a new content.  *)
(* Content 0 is an absent file.  There is one branch, and one folder that    *)
(* git status may show as a line of its own.  Every git command may fail;   *)
(* killed by its timeout of 30 seconds, it may have done its work and a      *)
(* reset a part of it, and a reading command returns nothing.               *)
(***************************************************************************)
EXTENDS Integers, Sequences, FiniteSets

CONSTANTS
    File, SecretLike,   \* files, and those the safety scan takes for secrets
    Folder, FolderLine, \* the files of one folder, and its name in git status
    NumRuns,            \* runs in this workspace, executed in any order
    Committers, Rollers,    \* callers of commit, and of rollback
    UserStages,         \* the user stages and commits too, not only edits
    MaxEdits,           \* bound: contents ever written
    MaxCommits,         \* bound: commits ever made
    MaxCheckpoints,     \* bound: checkpoints ever taken
    MaxRecords          \* bound: commit records

Runs == 1..NumRuns
Clients == Committers \cup Rollers

ASSUME GitAssumption ==
    /\ SecretLike \subseteq File /\ Folder \subseteq File /\ FolderLine \notin File
    /\ UserStages \in BOOLEAN
    /\ NumRuns \in Nat /\ MaxEdits \in Nat /\ MaxCommits \in Nat \ {0} /\ MaxCheckpoints \in Nat
    /\ MaxRecords \in Nat

Contents == 0..MaxEdits
Tree == [File -> Contents]
Empty == [f \in File |-> 0]

VARIABLES
    work, index,    \* the work tree and the staging area
    commits,        \* the object store: commits[i] = [parent, tree]
    head,           \* the branch
    edits,          \* contents written so far
    run,            \* run r: [status, pc, seen]; the call of its executor
    holder,         \* the run that holds the workspace lock (0: none)
    checkpoints,    \* run_checkpoints
    records,        \* run_commits
    call,           \* what each client is doing
    cut             \* history: commits a rollback took off the branch

gitVars == <<work, index, commits, head, edits>>
vars == <<work, index, commits, head, edits, run, holder, checkpoints, records, call, cut>>

Content(f, i) == commits[i].tree[f]
CommittedBefore(f, i) == \E j \in 1..(i - 1) : Content(f, j) = Content(f, i)
HeadTree == commits[head].tree
Changed(f) == index[f] # HeadTree[f] \/ work[f] # index[f]
ChangedFiles == {f \in File : Changed(f)}
Dirty == ChangedFiles # {}
HasStaged == index # HeadTree

(* git status lists a folder without a tracked file as one line, in place of *)
(* the untracked files in it; git add of that line takes all of them.       *)
Line == File \cup {FolderLine}
NewFolder == (\E f \in Folder : work[f] # 0) /\ \A f \in Folder : index[f] = 0
Hidden == IF NewFolder THEN {f \in Folder : work[f] # 0 /\ HeadTree[f] = 0} ELSE {}
StatusLines == (ChangedFiles \ Hidden) \cup (IF NewFolder THEN {FolderLine} ELSE {})
Under(line) == IF line = FolderLine THEN Folder ELSE {line}

(* With every commit its parent, unless it is the first. *)
Hereditary(S) == \A j \in S : commits[j].parent \in S \cup {0}

(* h and its ancestors: the least such set that has h. *)
History(h) == {i \in 1..h : \A S \in SUBSET (1..h) : h \in S /\ Hereditary(S) => i \in S}

Idle == [pc |-> "idle", run |-> 0, lines |-> {}, record |-> 0, checkpoint |-> 0, force |-> FALSE,
         ok |-> FALSE, hash |-> 0, known |-> 0, hidden |-> {}]

Init ==
    /\ work = Empty /\ index = Empty
    /\ commits = <<[parent |-> 0, tree |-> Empty]>> /\ head = 1
    /\ edits = 0
    /\ run = [r \in Runs |-> [status |-> "CREATED", pc |-> "idle", seen |-> 0]]
    /\ holder = 0
    /\ checkpoints = <<>> /\ records = <<>>
    /\ call = [c \in Clients |-> Idle] /\ cut = {}

At(c, pc) == call[c].pc = pc
Become(c, value) == call' = [call EXCEPT ![c] = value]
Goto(c, pc) == call' = [call EXCEPT ![c].pc = pc]

--------------------------------------------------------------------------------
(* git, as far as it is used *)

Write(f) ==
    /\ edits < MaxEdits
    /\ edits' = edits + 1
    /\ work' = [work EXCEPT ![f] = edits + 1]
    /\ UNCHANGED <<index, commits, head>>

Add(lines) ==
    /\ index' = [f \in File |-> IF \E line \in lines : f \in Under(line) THEN work[f] ELSE index[f]]
    /\ UNCHANGED <<work, commits, head, edits>>

CommitIndex ==
    /\ HasStaged /\ Len(commits) < MaxCommits
    /\ commits' = Append(commits, [parent |-> head, tree |-> index])
    /\ head' = Len(commits) + 1
    /\ UNCHANGED <<work, index, edits>>

(* reset --hard leaves an untracked file alone. *)
AfterReset(target) ==
    [f \in File |-> IF index[f] = 0 /\ commits[target].tree[f] = 0
                    THEN work[f] ELSE commits[target].tree[f]]

ResetHard(target) ==
    /\ work' = AfterReset(target)
    /\ index' = commits[target].tree
    /\ head' = target
    /\ UNCHANGED <<commits, edits>>

UserEdits ==
    /\ \/ \E f \in File : Write(f)
       \/ UserStages /\ \E f \in File : Add({f})
       \/ UserStages /\ CommitIndex
    /\ UNCHANGED <<run, holder, checkpoints, records, call, cut>>

--------------------------------------------------------------------------------
(* A run, as far as it concerns the workspace: execute_run_step and _drive. *)

Stored == <<checkpoints, records, call, cut>>

Execute(r) ==
    /\ run[r].pc = "idle" /\ run[r].status \in {"CREATED", "WAITING_APPROVAL"}
    /\ holder = 0
    /\ holder' = r
    /\ run' = [run EXCEPT ![r].status = "RUNNING", ![r].pc = "head"]
    /\ UNCHANGED <<gitVars, Stored>>

(* create_checkpoint reads HEAD, then the status, and inserts the row. *)
CaptureHead(r) ==
    /\ run[r].pc = "head"
    /\ run' = [run EXCEPT ![r].pc = "status", ![r].seen = head]
    /\ UNCHANGED <<gitVars, holder, Stored>>

(* A git status that fails reads as clean.  "was" is history: dirty or not. *)
CaptureStatus(r) ==
    /\ run[r].pc = "status" /\ Len(checkpoints) < MaxCheckpoints
    /\ \E dirty \in {Dirty, FALSE} :
        checkpoints' = Append(checkpoints,
            [run |-> r, head |-> run[r].seen, dirty |-> dirty, status |-> "CREATED",
             was |-> Dirty])
    /\ run' = [run EXCEPT ![r].pc = "agent", ![r].seen = 0]
    /\ UNCHANGED <<gitVars, holder, records, call, cut>>

(* Best effort: without a HEAD or a row, there is nothing to roll back to. *)
CaptureFails(r) ==
    /\ run[r].pc \in {"head", "status"}
    /\ run' = [run EXCEPT ![r].pc = "agent", ![r].seen = 0]
    /\ UNCHANGED <<gitVars, holder, Stored>>

AgentEdits(r) ==
    /\ run[r].pc = "agent"
    /\ \E f \in File : Write(f)
    /\ UNCHANGED <<run, holder, Stored>>

(* The next step of an auto-run takes a checkpoint of its own. *)
NextStep(r) ==
    /\ run[r].pc = "agent" /\ Len(checkpoints) < MaxCheckpoints
    /\ run' = [run EXCEPT ![r].pc = "head"]
    /\ UNCHANGED <<gitVars, holder, Stored>>

Finish(r) ==
    /\ run[r].pc = "agent"
    /\ \E to \in {"WAITING_APPROVAL", "DONE", "FAILED", "STOPPED"} :
        run' = [run EXCEPT ![r].status = to, ![r].pc = "idle"]
    /\ holder' = 0
    /\ UNCHANGED <<gitVars, Stored>>

--------------------------------------------------------------------------------
(* rollback_checkpoint, confirmed *)

RequiresForce(k) == checkpoints[k].dirty \/ holder # 0

Plan(c, k, force) ==
    /\ At(c, "idle")
    /\ RequiresForce(k) => force
    /\ Become(c, [Idle EXCEPT !.pc = "reset", !.checkpoint = k, !.force = force])
    /\ UNCHANGED <<gitVars, run, holder, checkpoints, records, cut>>

Target(c) == checkpoints[call[c].checkpoint].head

Reset(c) ==
    /\ At(c, "reset")
    /\ ResetHard(Target(c))
    /\ cut' = cut \cup (History(head) \ History(Target(c)))
    /\ Become(c, [Idle EXCEPT !.pc = "mark", !.checkpoint = call[c].checkpoint, !.ok = TRUE])
    /\ UNCHANGED <<run, holder, checkpoints, records>>

(* A killed reset has moved the branch, or some files of the work tree, or   *)
(* nothing.                                                                 *)
ResetFails(c) ==
    /\ At(c, "reset")
    /\ Become(c, [Idle EXCEPT !.pc = "mark", !.checkpoint = call[c].checkpoint])
    /\ \/ /\ ResetHard(Target(c))
          /\ cut' = cut \cup (History(head) \ History(Target(c)))
       \/ /\ \E files \in SUBSET File :
                work' = [f \in File |-> IF f \in files THEN AfterReset(Target(c))[f] ELSE work[f]]
          /\ UNCHANGED <<index, commits, head, edits, cut>>
    /\ UNCHANGED <<run, holder, checkpoints, records>>

MarkCheckpoint(c) ==
    /\ At(c, "mark")
    /\ checkpoints' = [checkpoints EXCEPT ![call[c].checkpoint].status =
                           IF call[c].ok THEN "RESTORED" ELSE "FAILED"]
    /\ Become(c, Idle)
    /\ UNCHANGED <<gitVars, run, holder, records, cut>>

--------------------------------------------------------------------------------
(* commit_run_changes, confirmed.  The run's row is read, then git status,   *)
(* then the lock.  A queued job and a safety blocker artifact block too: a   *)
(* call that a blocker refuses does nothing.                                *)

ReviewRun(c, r, allowFailed) ==
    /\ At(c, "idle") /\ Len(records) < MaxRecords
    /\ run[r].status \notin {"RUNNING", "WAITING_APPROVAL", "STOPPED"}
    /\ run[r].status = "FAILED" => allowFailed
    /\ Become(c, [Idle EXCEPT !.pc = "files", !.run = r])
    /\ UNCHANGED <<gitVars, run, holder, checkpoints, records, cut>>

(* Mutant: secret-like files are left to _select_files. *)
ReadyUnscanned(lines) == lines # {}

(* _commit_blockers *)
Ready(lines) == lines # {} /\ lines \cap SecretLike = {}

(* "known" and "hidden" are history: the contents that were there for the    *)
(* review, and the files that a folder's line stood for.                    *)
ReviewFiles(c) ==
    /\ At(c, "files")
    /\ Become(c, IF Ready(StatusLines)
                 THEN [call[c] EXCEPT !.pc = "lock", !.lines = StatusLines,
                                      !.known = edits, !.hidden = Hidden]
                 ELSE Idle)
    /\ UNCHANGED <<gitVars, run, holder, checkpoints, records, cut>>

(* _select_files *)
Selected(lines, wanted) ==
    {line \in lines : line \notin SecretLike /\ (wanted # {} => line \in wanted)}

ReviewLock(c, wanted) ==
    /\ At(c, "lock")
    /\ Len(records) < MaxRecords
    /\ IF holder \in {0, call[c].run} /\ Selected(call[c].lines, wanted) # {}
       THEN /\ records' = Append(records, [run |-> call[c].run, status |-> "PROPOSED",
                    lines |-> Selected(call[c].lines, wanted),
                    hash |-> 0, known |-> call[c].known, hidden |-> call[c].hidden, made |-> 0])
            /\ Become(c, [Idle EXCEPT !.pc = "add", !.record = Len(records) + 1])
       ELSE Become(c, Idle) /\ UNCHANGED records
    /\ UNCHANGED <<gitVars, run, holder, checkpoints, cut>>

(* propose_commit inserts a record that nothing takes up: its message and *)
(* files are for display.                                                 *)
Propose(r) ==
    /\ Len(records) < MaxRecords
    /\ records' = Append(records, [run |-> r, status |-> "PROPOSED", lines |-> {},
                                   hash |-> 0, known |-> 0, hidden |-> {}, made |-> 0])
    /\ UNCHANGED <<gitVars, run, holder, checkpoints, call, cut>>

Mine(c) == records[call[c].record]

AddFiles(c) ==
    /\ At(c, "add")
    /\ Add(Mine(c).lines)
    /\ Goto(c, "staged")
    /\ UNCHANGED <<run, holder, checkpoints, records, cut>>

(* A path is gone since the review, say, or git is killed. *)
AddFails(c) ==
    /\ At(c, "add")
    /\ Add(Mine(c).lines) \/ UNCHANGED gitVars
    /\ Goto(c, "fail")
    /\ UNCHANGED <<run, holder, checkpoints, records, cut>>

(* A diff that fails reads as nothing staged. *)
CheckStaged(c) ==
    /\ At(c, "staged")
    /\ \/ HasStaged /\ Goto(c, "commit")
       \/ Goto(c, "fail")
    /\ UNCHANGED <<gitVars, run, holder, checkpoints, records, cut>>

(* "made" is history: the commit that git made for the record. *)
Commits(c) ==
    /\ CommitIndex
    /\ records' = [records EXCEPT ![call[c].record].made = Len(commits) + 1]

Commit(c) ==
    /\ At(c, "commit")
    /\ Commits(c)
    /\ Goto(c, "hash")
    /\ UNCHANGED <<run, holder, checkpoints, cut>>

(* Mutant: the exit code of git commit is not looked at. *)
CommitFailsUnseen(c) ==
    /\ At(c, "commit")
    /\ Goto(c, "hash")
    /\ UNCHANGED <<gitVars, run, holder, checkpoints, records, cut>>

(* Nothing is staged any more, or a hook refuses; what was added stays.  Or  *)
(* git is killed, before its commit or after it.                            *)
CommitFails(c) ==
    /\ At(c, "commit")
    /\ Commits(c) \/ UNCHANGED <<gitVars, records>>
    /\ Goto(c, "fail")
    /\ UNCHANGED <<run, holder, checkpoints, cut>>

(* A rev-parse that fails reads as no hash. *)
ReadHash(c) ==
    /\ At(c, "hash")
    /\ \E hash \in {head, 0} : Become(c, [call[c] EXCEPT !.pc = "committed", !.hash = hash])
    /\ UNCHANGED <<gitVars, run, holder, checkpoints, records, cut>>

MarkCommitted(c) ==
    /\ At(c, "committed")
    /\ records' = [records EXCEPT ![call[c].record].status = "COMMITTED",
                                  ![call[c].record].hash = call[c].hash]
    /\ Become(c, Idle)
    /\ UNCHANGED <<gitVars, run, holder, checkpoints, cut>>

MarkFailed(c) ==
    /\ At(c, "fail")
    /\ records' = [records EXCEPT ![call[c].record].status = "FAILED"]
    /\ Become(c, Idle)
    /\ UNCHANGED <<gitVars, run, holder, checkpoints, cut>>

RunStep(r) ==
    \/ Execute(r) \/ CaptureHead(r) \/ CaptureStatus(r) \/ CaptureFails(r)
    \/ AgentEdits(r) \/ NextStep(r) \/ Finish(r)

Rollback(c) ==
    \/ \E k \in DOMAIN checkpoints, force \in BOOLEAN : Plan(c, k, force)
    \/ Reset(c) \/ ResetFails(c) \/ MarkCheckpoint(c)

CommitChanges(c) ==
    \/ \E r \in Runs, allowFailed \in BOOLEAN : ReviewRun(c, r, allowFailed)
    \/ ReviewFiles(c) \/ (\E wanted \in SUBSET Line : ReviewLock(c, wanted))
    \/ AddFiles(c) \/ AddFails(c) \/ CheckStaged(c) \/ Commit(c) \/ CommitFails(c)
    \/ ReadHash(c) \/ MarkCommitted(c) \/ MarkFailed(c)

Next ==
    \/ UserEdits
    \/ \E r \in Runs : RunStep(r) \/ Propose(r)
    \/ \E c \in Rollers : Rollback(c)
    \/ \E c \in Committers : CommitChanges(c)

Spec == Init /\ [][Next]_vars

--------------------------------------------------------------------------------
(* The rows; a hash of 0 is none. *)
RunCheckpoint == [run : Runs, head : DOMAIN commits, dirty : BOOLEAN,
                  status : {"CREATED", "RESTORED", "FAILED"}, was : BOOLEAN]
RunCommit == [run : Runs, status : {"PROPOSED", "COMMITTED", "FAILED"}, lines : SUBSET Line,
              hash : 0..Len(commits), known : Contents, hidden : SUBSET File, made : 0..Len(commits)]

(* Every variable holds a value of its kind; the branch and every checkpoint *)
(* are at commits that exist.                                                *)
GitTypeOK ==
    /\ work \in Tree /\ index \in Tree /\ edits \in Contents
    /\ \A i \in DOMAIN commits : commits[i].parent \in 0..(i - 1) /\ commits[i].tree \in Tree
    /\ head \in DOMAIN commits /\ cut \subseteq DOMAIN commits
    /\ holder \in 0..NumRuns /\ (holder # 0 => run[holder].pc # "idle")
    /\ checkpoints \in Seq(RunCheckpoint) /\ records \in Seq(RunCommit)

(* A record says COMMITTED only if git made a commit for it, and its hash, if *)
(* it could be read, leads to that commit, which may be older than the hash   *)
(* when somebody else committed; only a rollback may have cut it off.         *)
RecordsAreTrue ==
    \A i \in DOMAIN records : records[i].status = "COMMITTED" =>
        /\ records[i].made # 0
        /\ records[i].hash = 0 \/ records[i].made \in History(records[i].hash) \cup cut

(* No secret-like content that was there for the review, staged or not, is   *)
(* committed for the first time, although git commits the whole index:       *)
(* unless it was untracked in a folder that git status showed as one line.   *)
SecretsStayOut ==
    \A i \in DOMAIN records : records[i].made # 0 =>
        \A f \in SecretLike \ records[i].hidden :
            CommittedBefore(f, records[i].made) \/ Content(f, records[i].made) > records[i].known

--------------------------------------------------------------------------------
(* What the documents say, and the code does not keep. *)

(* "Refuses when the workspace had uncommitted changes that were not created *)
(* by the run unless you also pass --force": an unforced rollback is to a     *)
(* checkpoint of a workspace that was clean then.                            *)
ForceGate ==
    \A c \in Clients : At(c, "reset") /\ ~call[c].force => ~checkpoints[call[c].checkpoint].was

(* "commit_hash is set once a commit succeeds": a record that is settled and  *)
(* has a commit has its hash.                                               *)
HashIsSet ==
    \A i \in DOMAIN records :
        records[i].status # "PROPOSED" /\ records[i].made # 0 => records[i].hash # 0

(* "A commit is blocked when a secret-like file would be committed": no such  *)
(* content that was there for the review is committed, wherever it lies.     *)
SecretsBlock ==
    \A i \in DOMAIN records : records[i].made # 0 =>
        \A f \in SecretLike :
            CommittedBefore(f, records[i].made) \/ Content(f, records[i].made) > records[i].known
================================================================================
