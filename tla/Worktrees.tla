------------------------------- MODULE Worktrees --------------------------------
(***************************************************************************)
(* Worktree profiles: the rows of table worktrees (storage.py) beside the   *)
(* directories and branches git keeps (worktrees.py), as the routes and the *)
(* command line create, archive and remove them (routes/worktrees.py), and  *)
(* the runs that are started in them.  Git and the database are not one     *)
(* transaction: every call is a step of its own, and a process may die, or  *)
(* git may be killed by its timeout, in between.                            *)
(*                                                                         *)
(* Names and branches are model values, valid ones; a path is the pair of   *)
(* project and name that prepare_worktree_path joins.  Git refuses to add a *)
(* worktree on a branch that exists, to remove one that has changes unless  *)
(* forced, and to remove what is no worktree; it keeps the branch.          *)
(***************************************************************************)
EXTENDS Integers, FiniteSets

CONSTANTS
    Project, Name, Branch,
    Creator,        \* callers that create worktrees
    Remover,        \* callers that archive and remove them
    NumRuns,        \* runs that may be created
    MayDie,         \* the callers that may be killed
    MaxId           \* bound: row ids handed out

ASSUME WorktreesAssumption ==
    /\ NumRuns \in Nat /\ MaxId \in Nat \ {0}
    /\ "none" \notin Branch
    /\ Creator \cap Remover = {} /\ MayDie \subseteq Creator \cup Remover

Client == Creator \cup Remover
Path == Project \X Name
Run == 1..NumRuns

VARIABLES
    rows,       \* worktrees: by name, the row (NoRow: none)
    trees,      \* git: by path, the branch checked out there ("none": no directory)
    branches,   \* git: the branches of each project's repository
    dirty,      \* git: the directories with uncommitted changes
    runs,       \* runs: path of the workspace and status
    call,       \* what each client is doing
    torn        \* history: paths where git acted and the table was not written

vars == <<rows, trees, branches, dirty, runs, call, torn>>
git == <<trees, branches, dirty>>

NoRow == [id |-> 0]
NoRun == [status |-> "none"]
Idle == [pc |-> "idle"]

Init ==
    /\ rows = [n \in Name |-> NoRow]
    /\ trees = [p \in Path |-> "none"] /\ branches = {} /\ dirty = {}
    /\ runs = [r \in Run |-> NoRun]
    /\ call = [c \in Client |-> Idle]
    /\ torn = {}

Recorded == {n \in Name : rows[n] # NoRow}
PathOf(n) == <<rows[n].project, n>>

(* INTEGER PRIMARY KEY: the id after the highest one in use. *)
NextId == IF Recorded = {} THEN 1
          ELSE 1 + rows[CHOOSE n \in Recorded : \A m \in Recorded : rows[m].id <= rows[n].id].id

Become(c, next) == call' = [call EXCEPT ![c] = next]
Finish(c) == Become(c, Idle)

(* The runs under way in a directory: what a removal must not disturb. *)
UnderWay(p) == {r \in Run : runs[r].status \in {"RUNNING", "WAITING_APPROVAL"} /\ runs[r].path = p}

(* Mutant: a run waiting for approval does not count.            *)
RunningOnly(p) == {r \in Run : runs[r].status = "RUNNING" /\ runs[r].path = p}

(* Non-terminal runs of a workspace, as count_active_runs_for_workspace      *)
(* counts them: a CREATED run, waiting in the queue, is not among them.      *)
ActiveRuns(p) == {r \in Run : runs[r].status \in {"RUNNING", "WAITING_APPROVAL"} /\ runs[r].path = p}

--------------------------------------------------------------------------------
(* create_worktree: names are unique among all projects, paths within one.   *)

CreateCheck(c, project, name, branch) ==
    /\ call[c].pc = "idle"
    /\ name \notin Recorded
    /\ Become(c, [pc |-> "add", project |-> project, name |-> name, branch |-> branch])
    /\ UNCHANGED <<rows, git, runs, torn>>

(* What git worktree add -b does, where it does not refuse. *)
Addable(k) == trees[<<k.project, k.name>>] = "none" /\ <<k.project, k.branch>> \notin branches
AddTree(k) ==
    /\ trees' = [trees EXCEPT ![<<k.project, k.name>>] = k.branch]
    /\ branches' = branches \cup {<<k.project, k.branch>>}

GitAdd(c) ==
    /\ call[c].pc = "add" /\ Addable(call[c])
    /\ AddTree(call[c])
    /\ call' = [call EXCEPT ![c].pc = "record"]
    /\ UNCHANGED <<rows, dirty, runs, torn>>

(* Mutant: the return code of git worktree add is not looked at.            *)
GitAddFailsUnseen(c) ==
    /\ call[c].pc = "add" /\ ~Addable(call[c])
    /\ call' = [call EXCEPT ![c].pc = "record"]
    /\ UNCHANGED <<rows, git, runs, torn>>

(* Refused, failed or killed before there is a directory; the new branch is  *)
(* made first and may stay.                                                 *)
GitAddFails(c) ==
    /\ call[c].pc = "add"
    /\ \/ UNCHANGED branches
       \/ Addable(call[c]) /\ branches' = branches \cup {<<call[c].project, call[c].branch>>}
    /\ Finish(c)
    /\ UNCHANGED <<rows, trees, dirty, runs, torn>>

(* Killed after a minute: WorktreeError, with the directory there, complete  *)
(* or half checked out.                                                     *)
GitAddTimesOut(c) ==
    LET path == <<call[c].project, call[c].name>> IN
    /\ call[c].pc = "add" /\ Addable(call[c])
    /\ AddTree(call[c])
    /\ dirty' \in {dirty, dirty \cup {path}}
    /\ torn' = torn \cup {path}
    /\ Finish(c)
    /\ UNCHANGED <<rows, runs>>

RecordTree(c) ==
    LET k == call[c] IN
    /\ k.pc = "record"
    /\ NextId <= MaxId
    /\ \/ /\ k.name \notin Recorded
          /\ rows' = [rows EXCEPT ![k.name] =
                        [id |-> NextId, project |-> k.project, branch |-> k.branch, status |-> "ACTIVE"]]
          /\ UNCHANGED torn
       \/ /\ k.name \in Recorded                \* the unique index: the call ends in an exception
          /\ torn' = torn \cup {<<k.project, k.name>>}
          /\ UNCHANGED rows
    /\ Finish(c)
    /\ UNCHANGED <<git, runs>>

--------------------------------------------------------------------------------
(* archive_worktree: found by name, written by id.                           *)

ArchiveGet(c, name) ==
    /\ call[c].pc = "idle" /\ name \in Recorded
    /\ Become(c, [pc |-> "archive", id |-> rows[name].id])
    /\ UNCHANGED <<rows, git, runs, torn>>

ArchiveWrite(c) ==
    /\ call[c].pc = "archive"
    /\ rows' = [n \in Name |-> IF rows[n].id = call[c].id THEN [rows[n] EXCEPT !.status = "ARCHIVED"]
                               ELSE rows[n]]
    /\ Finish(c)
    /\ UNCHANGED <<git, runs, torn>>

--------------------------------------------------------------------------------
(* delete_worktree: look up, count the active runs, git worktree remove, and *)
(* the row only after that.  began: the runs under way when it was asked.     *)

RemoveGet(c, name, force) ==
    /\ call[c].pc = "idle" /\ name \in Recorded
    /\ Become(c, [pc |-> "count", id |-> rows[name].id, path |-> PathOf(name), force |-> force,
                  began |-> UnderWay(PathOf(name))])
    /\ UNCHANGED <<rows, git, runs, torn>>

RemoveCount(c) ==
    /\ call[c].pc = "count"
    /\ IF ~call[c].force /\ ActiveRuns(call[c].path) # {}
       THEN Finish(c)
       ELSE call' = [call EXCEPT ![c].pc = "remove"]
    /\ UNCHANGED <<rows, git, runs, torn>>

Removable(k) == trees[k.path] # "none" /\ (k.force \/ k.path \notin dirty)
RemoveTree(k) ==
    /\ trees' = [trees EXCEPT ![k.path] = "none"]
    /\ dirty' = dirty \ {k.path}
    /\ UNCHANGED branches

GitRemove(c) ==
    /\ call[c].pc = "remove" /\ Removable(call[c])
    /\ RemoveTree(call[c])
    /\ call' = [call EXCEPT ![c].pc = "drop"]
    /\ UNCHANGED <<rows, runs, torn>>

(* Mutant: the return code of git worktree remove is not looked at.          *)
GitRemoveFailsUnseen(c) ==
    /\ call[c].pc = "remove"
    /\ call' = [call EXCEPT ![c].pc = "drop"]
    /\ UNCHANGED <<rows, git, runs, torn>>

(* Refused by git, the project has no repository any more, or git was killed *)
(* with the directory still there, some of its files gone.                  *)
GitRemoveFails(c) ==
    /\ call[c].pc = "remove"
    /\ \/ UNCHANGED dirty
       \/ Removable(call[c]) /\ dirty' = dirty \cup {call[c].path}
    /\ Finish(c)
    /\ UNCHANGED <<rows, trees, branches, runs, torn>>

GitRemoveTimesOut(c) ==
    /\ call[c].pc = "remove" /\ Removable(call[c])
    /\ RemoveTree(call[c])
    /\ torn' = torn \cup {call[c].path}
    /\ Finish(c)
    /\ UNCHANGED <<rows, runs>>

RemoveRecord(c) ==
    /\ call[c].pc = "drop"
    /\ rows' = [n \in Name |-> IF rows[n].id = call[c].id THEN NoRow ELSE rows[n]]
    /\ Finish(c)
    /\ UNCHANGED <<git, runs, torn>>

(* Killed; the path is torn if git had acted and the row was still to come.  *)
Die(c) ==
    /\ c \in MayDie /\ call[c].pc # "idle"
    /\ torn' = torn \cup CASE call[c].pc = "record" -> {<<call[c].project, call[c].name>>}
                           [] call[c].pc = "drop" -> {call[c].path}
                           [] OTHER -> {}
    /\ Finish(c)
    /\ UNCHANGED <<rows, git, runs>>

--------------------------------------------------------------------------------
(* Runs.  resolve_run_inputs takes the path of a worktree that is not        *)
(* archived; providers with a command of their own also look for the         *)
(* directory (checked), the mock provider does not.                          *)

RunResolve(r, name, checked) ==
    /\ runs[r] = NoRun
    /\ name \in Recorded /\ rows[name].status # "ARCHIVED"
    /\ checked => trees[PathOf(name)] # "none"
    /\ runs' = [runs EXCEPT ![r] = [status |-> "resolved", path |-> PathOf(name)]]
    /\ UNCHANGED <<rows, git, call, torn>>

To(r, from, status) ==
    /\ runs[r].status = from
    /\ runs' = [runs EXCEPT ![r].status = status]
    /\ UNCHANGED <<rows, branches, trees, call, torn>>

(* The row is written, the worker starts it, the agent works in its          *)
(* directory, and the run waits for approval or ends.                        *)
RunInsert(r) == To(r, "resolved", "CREATED") /\ UNCHANGED dirty
RunStart(r) == To(r, "CREATED", "RUNNING") /\ UNCHANGED dirty
RunWorks(r) ==
    /\ To(r, "RUNNING", "RUNNING")
    /\ dirty' = dirty \cup {p \in Path : p = runs[r].path /\ trees[p] # "none"}
RunWaits(r) == To(r, "RUNNING", "WAITING_APPROVAL") /\ UNCHANGED dirty
RunApproved(r) == To(r, "WAITING_APPROVAL", "RUNNING") /\ UNCHANGED dirty
RunEnds(r) ==
    /\ \/ To(r, "RUNNING", "DONE")
       \/ To(r, "WAITING_APPROVAL", "STOPPED")
    /\ UNCHANGED dirty

(* The user commits or discards what is in a worktree. *)
UserCleans(p) ==
    /\ p \in dirty /\ dirty' = dirty \ {p}
    /\ UNCHANGED <<rows, trees, branches, runs, call, torn>>

--------------------------------------------------------------------------------
Create(c) ==
    \/ \E project \in Project, name \in Name, branch \in Branch : CreateCheck(c, project, name, branch)
    \/ GitAdd(c) \/ GitAddFails(c) \/ GitAddTimesOut(c) \/ RecordTree(c)

Archive(c) == (\E name \in Name : ArchiveGet(c, name)) \/ ArchiveWrite(c)

Remove(c) ==
    \/ \E name \in Name, force \in BOOLEAN : RemoveGet(c, name, force)
    \/ RemoveCount(c) \/ GitRemove(c) \/ GitRemoveFails(c) \/ GitRemoveTimesOut(c) \/ RemoveRecord(c)

RunStep(r) ==
    \/ \E name \in Name, checked \in BOOLEAN : RunResolve(r, name, checked)
    \/ RunInsert(r) \/ RunStart(r) \/ RunWorks(r) \/ RunWaits(r) \/ RunApproved(r) \/ RunEnds(r)

Next ==
    \/ \E c \in Creator : Create(c)
    \/ \E c \in Remover : Archive(c) \/ Remove(c)
    \/ \E c \in Client : Die(c)
    \/ \E r \in Run : RunStep(r)
    \/ \E p \in Path : UserCleans(p)

Spec == Init /\ [][Next]_vars

--------------------------------------------------------------------------------
(* A row; its path follows from project and name. *)
Worktree == [id : 1..MaxId, project : Project, branch : Branch, status : {"ACTIVE", "ARCHIVED"}]

(* Rows, git and calls have the shapes the tables give them, and ids are     *)
(* unique.                                                                   *)
WorktreesTypeOK ==
    /\ rows \in [Name -> {NoRow} \cup Worktree]
    /\ \A m, n \in Recorded : rows[m].id = rows[n].id => m = n
    /\ trees \in [Path -> Branch \cup {"none"}]
    /\ branches \subseteq Project \X Branch
    /\ dirty \subseteq {p \in Path : trees[p] # "none"}
    /\ torn \subseteq Path
    /\ \A r \in Run : runs[r] = NoRun \/ runs[r].path \in Path

(* A recorded worktree has its directory, except while its removal is        *)
(* between git and the row: only a removal that was killed, or whose git     *)
(* was, leaves a row that can neither be used nor removed (worktrees.py:226, *)
(* routes/worktrees.py:110-113).                                             *)
RowsHaveTrees ==
    \A n \in Recorded :
        \/ trees[PathOf(n)] = rows[n].branch
        \/ PathOf(n) \in torn
        \/ \E c \in Remover : call[c].pc = "drop" /\ call[c].id = rows[n].id

(* A directory git made has its row, except while its creation is between    *)
(* git and the row: only a kill, or two creations of one name for two        *)
(* projects, leave a directory behind that no route knows and that blocks    *)
(* its path (routes/worktrees.py:46-56).                                     *)
TreesHaveRows ==
    \A p \in Path : trees[p] # "none" =>
        \/ p[2] \in Recorded /\ PathOf(p[2]) = p
        \/ p \in torn
        \/ \E c \in Creator : call[c].pc = "record" /\ <<call[c].project, call[c].name>> = p

(* A removal that is not forced never takes the directory from a run that    *)
(* was active when it was asked for, nor changes nobody committed            *)
(* (routes/worktrees.py:101, README: "refuses a worktree that has an active  *)
(* run").  A run that becomes active behind the count is not protected.      *)
RunsKeepTheirTree ==
    [][\A p \in Path : trees[p] # "none" /\ trees'[p] = "none" =>
          \E c \in Remover :
              /\ call[c].pc = "remove" /\ call[c].path = p
              /\ call[c].force \/ (p \notin dirty /\ call[c].began \cap UnderWay(p) = {})]_vars
================================================================================
