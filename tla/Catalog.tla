-------------------------------- MODULE Catalog --------------------------------
(***************************************************************************)
(* Project profiles with the default project (storage.py, routes/projects), *)
(* and the export of one database and its import into another              *)
(* (export_import.py).  Every storage call is a transaction of its own: an  *)
(* export is a sequence of reads beside a running agent, an import a        *)
(* sequence of inserts without a transaction around them.                  *)
(*                                                                         *)
(* A row of the source database is its number; the program creates runs     *)
(* without a project, so copied runs and projects are not linked.  Projects *)
(* stand for every table that an import adds to by name (provider profiles  *)
(* and templates too; that replace_templates_only also overwrites templates *)
(* is left out).  Artifacts and recovery attempts are remapped like         *)
(* approvals, with references that may stay empty.                          *)
(*                                                                         *)
(* Nothing keeps two imports apart: the route runs in a thread of a pool,   *)
(* the command line in a process of its own.  Imports that overlap are of   *)
(* the same file.                                                          *)
(***************************************************************************)
EXTENDS Integers, Sequences, FiniteSets

CONSTANTS
    Name,               \* project names
    Admin, Importer,    \* callers of the project routes, and of import
    MaxId,              \* bound: project ids
    MaxRuns, MaxSteps,  \* bounds: rows of the source database
    MaxImports,         \* bound: imports begun
    Modes,              \* import modes used
    MayDie              \* admins and importers may die between two transactions

ASSUME CatalogAssumption ==
    /\ MaxId \in Nat \ {0} /\ MaxRuns \in Nat /\ MaxSteps \in Nat /\ MaxImports \in Nat
    /\ Modes \subseteq {"merge", "skip_existing", "replace_templates_only"}
    /\ MayDie \in BOOLEAN
    /\ "none" \notin Name

Id == 1..MaxId

VARIABLES
    \* the source database
    runs,           \* how many runs there are
    steps,          \* steps: by id, the run
    approvals,      \* approvals: the steps that have one
    \* the export and its file
    export,         \* pc and what has been read so far
    \* the destination database
    projects,       \* by id, the name ("none": no row)
    default,        \* settings.default_project_id (0: not set)
    copies,         \* runs: what each is a copy of, and of which kind of import
    stepCopies,     \* steps: the run, and the source row
    approvalCopies, \* approvals: the run, the step, and the source row
    \* the calls
    call,           \* what each admin is doing
    import,         \* what each importer is doing
    imports,        \* imports begun
    alone,          \* history: no other import was under way since the last began
    chosen,         \* history: the name last made the default ("none" once deleted)
    lost            \* history: a deletion stopped before it had looked at the default

source == <<runs, steps, approvals>>
projectTables == <<projects, default>>
runTables == <<copies, stepCopies, approvalCopies>>
vars == <<runs, steps, approvals, export, projects, default, copies, stepCopies,
          approvalCopies, call, import, imports, alone, chosen, lost>>

Idle == [pc |-> "idle"]
NoFile == [pc |-> "idle", runs |-> {}, steps |-> {}, approvals |-> {}]

Init ==
    /\ runs = 0 /\ steps = <<>> /\ approvals = {}
    /\ export = NoFile
    /\ projects = [i \in Id |-> "none"] /\ default = 0
    /\ copies = <<>> /\ stepCopies = <<>> /\ approvalCopies = <<>>
    /\ call = [a \in Admin |-> Idle]
    /\ import = [i \in Importer |-> Idle] /\ imports = 0 /\ alone = FALSE
    /\ chosen = "none" /\ lost = FALSE

AllIdle == \A i \in Importer : import[i] = Idle

--------------------------------------------------------------------------------
(* The source database is in use: runs are created, a step is recorded, and  *)
(* then the approval of its next prompt.                                    *)
Work ==
    /\ \/ runs < MaxRuns /\ runs' = runs + 1 /\ UNCHANGED <<steps, approvals>>
       \/ /\ Len(steps) < MaxSteps
          /\ \E r \in 1..runs : steps' = Append(steps, r)
          /\ UNCHANGED <<runs, approvals>>
       \/ /\ \E s \in 1..Len(steps) : s \notin approvals /\ approvals' = approvals \cup {s}
          /\ UNCHANGED <<runs, steps>>
    /\ UNCHANGED <<export, projects, default, runTables, call, import, imports, alone, chosen, lost>>

(* build_export_payload: the tables are read one after the other; children   *)
(* are kept if their run was read.                                          *)
ExportRuns ==
    /\ export.pc \in {"idle", "done"} /\ AllIdle
    /\ \E wanted \in {1..runs} \cup {{r} : r \in 1..runs} :
          export' = [NoFile EXCEPT !.pc = "steps", !.runs = wanted]
    /\ UNCHANGED <<source, projects, default, runTables, call, import, imports, alone, chosen, lost>>

Within(reading) == {s \in DOMAIN steps : steps[s] \in reading.runs}

ExportSteps ==
    /\ export.pc = "steps"
    /\ export' = [export EXCEPT !.pc = "approvals", !.steps = Within(export)]
    /\ UNCHANGED <<source, projects, default, runTables, call, import, imports, alone, chosen, lost>>

ExportApprovals ==
    /\ export.pc = "approvals"
    /\ export' = [export EXCEPT !.pc = "done", !.approvals = approvals \cap Within(export)]
    /\ UNCHANGED <<source, projects, default, runTables, call, import, imports, alone, chosen, lost>>

(* An approval was read whose step was not there yet when steps were. *)
Torn == export.approvals \ export.steps # {}

--------------------------------------------------------------------------------
(* Projects.  A new row gets the id after the highest one in use (INTEGER   *)
(* PRIMARY KEY), so an id that was the highest is used again.               *)

Rows == {i \in Id : projects[i] # "none"}
Named(name) == {i \in Rows : projects[i] = name}
NextId == IF Rows = {} THEN 1 ELSE 1 + CHOOSE i \in Rows : \A j \in Rows : j <= i

(* INSERT: refused by the unique index on the name; MaxId is the bound. *)
Insert(name) ==
    /\ Named(name) = {} /\ NextId \in Id
    /\ projects' = [projects EXCEPT ![NextId] = name]

At(a, pc) == call[a].pc = pc
Become(a, to) == call' = [call EXCEPT ![a] = to]
Return(a) == Become(a, Idle)

CreateCheck(a, name) ==
    /\ At(a, "idle") /\ Named(name) = {}
    /\ Become(a, [pc |-> "create", name |-> name])
    /\ UNCHANGED <<source, export, projects, default, runTables, import, imports, alone, chosen, lost>>

CreateInsert(a) ==
    /\ At(a, "create")
    /\ IF Named(call[a].name) = {} THEN Insert(call[a].name) ELSE UNCHANGED projects
    /\ Return(a)
    /\ UNCHANGED <<source, export, default, runTables, import, imports, alone, chosen, lost>>

DefaultGet(a, i) ==
    /\ At(a, "idle") /\ i \in Rows
    /\ Become(a, [pc |-> "default", id |-> i, name |-> projects[i]])
    /\ UNCHANGED <<source, export, projects, default, runTables, import, imports, alone, chosen, lost>>

DefaultSet(a) ==
    /\ At(a, "default")
    /\ default' = call[a].id /\ chosen' = call[a].name /\ lost' = FALSE
    /\ Return(a)
    /\ UNCHANGED <<source, export, projects, runTables, import, imports, alone>>

DeleteGet(a, i) ==
    /\ At(a, "idle") /\ i \in Rows
    /\ Become(a, [pc |-> "delete", id |-> i])
    /\ UNCHANGED <<source, export, projects, default, runTables, import, imports, alone, chosen, lost>>

(* A worktree or an imported run that refers to the project keeps it: the    *)
(* foreign key fails the statement, and the route ends there.               *)
DeleteRefused(a) ==
    /\ At(a, "delete")
    /\ Return(a)
    /\ UNCHANGED <<source, export, projects, default, runTables, import, imports, alone, chosen, lost>>

(* delete_project removes the row, then compares the setting and clears it. *)
DeleteRow(a) ==
    /\ At(a, "delete")
    /\ projects' = [projects EXCEPT ![call[a].id] = "none"]
    /\ chosen' = IF projects[call[a].id] = chosen THEN "none" ELSE chosen
    /\ Become(a, [pc |-> "compare", id |-> call[a].id])
    /\ UNCHANGED <<source, export, default, runTables, import, imports, alone, lost>>

(* Mutant: the setting is left to dangle. *)
LeaveDefault(a) ==
    /\ At(a, "compare")
    /\ Return(a)
    /\ UNCHANGED <<source, export, projects, default, runTables, import, imports, alone, chosen, lost>>

CompareDefault(a) ==
    /\ At(a, "compare")
    /\ IF default = call[a].id THEN Become(a, [pc |-> "clear", id |-> default]) ELSE Return(a)
    /\ UNCHANGED <<source, export, projects, default, runTables, import, imports, alone, chosen, lost>>

ClearDefault(a) ==
    /\ At(a, "clear")
    /\ default' = 0
    /\ Return(a)
    /\ UNCHANGED <<source, export, projects, runTables, import, imports, alone, chosen, lost>>

AdminDies(a) ==
    /\ MayDie /\ ~At(a, "idle")
    /\ lost' = (lost \/ At(a, "compare") \/ At(a, "clear"))
    /\ Return(a)
    /\ UNCHANGED <<source, export, projects, default, runTables, import, imports, alone, chosen>>

--------------------------------------------------------------------------------
(* import_export_payload: projects, runs, steps, approvals, each row in a    *)
(* transaction of its own; the maps from the file's ids to the new ones live *)
(* in the call.                                                             *)
Least(S) == CHOOSE x \in S : \A y \in S : x <= y

Proceed(i, to) == import' = [import EXCEPT ![i] = to]
Goto(i, pc) == Proceed(i, [import[i] EXCEPT !.pc = pc])

Opened(mode, known) ==
    [pc |-> "project", mode |-> mode, known |-> known,
     runs |-> export.runs, steps |-> export.steps, approvals |-> export.approvals,
     runMap |-> [r \in export.runs |-> 0], stepMap |-> [s \in export.steps |-> 0]]

(* Mutant: only what an earlier skip_existing brought is known. *)
ImportBeginForgetting(i, mode) ==
    /\ export.pc = "done" /\ import[i] = Idle /\ imports < MaxImports
    /\ imports' = imports + 1 /\ alone' = AllIdle
    /\ Proceed(i, Opened(mode, {copies[r].from : r \in {q \in DOMAIN copies : copies[q].mode = mode}}))
    /\ UNCHANGED <<source, export, projects, default, runTables, call, chosen, lost>>

(* existing_run_sigs is read once, at the start. *)
ImportBegin(i, mode) ==
    /\ export.pc = "done" /\ import[i] = Idle /\ imports < MaxImports
    /\ imports' = imports + 1 /\ alone' = AllIdle
    /\ Proceed(i, Opened(mode, {copies[r].from : r \in DOMAIN copies}))
    /\ UNCHANGED <<source, export, projects, default, runTables, call, chosen, lost>>

(* "p" is the project in the file.  One of the same name is taken for the same and left alone. *)
ImportProjectCheck(i) ==
    /\ import[i].pc = "project"
    /\ Goto(i, IF Named("p") = {} THEN "insert" ELSE "runs")
    /\ UNCHANGED <<source, export, projects, default, runTables, call, imports, alone, chosen, lost>>

ImportProjectInsert(i) ==
    /\ import[i].pc = "insert"
    /\ IF Named("p") = {} THEN Insert("p") /\ Goto(i, "runs")
       ELSE UNCHANGED projects /\ Proceed(i, [pc |-> "refused", torn |-> FALSE])
    /\ UNCHANGED <<source, export, default, runTables, call, imports, alone, chosen, lost>>

ImportRun(i) ==
    /\ import[i].pc = "runs" /\ import[i].runs # {}
    /\ LET r == Least(import[i].runs)
           skip == import[i].mode = "skip_existing" /\ r \in import[i].known
       IN  /\ copies' = IF skip THEN copies
                        ELSE Append(copies, [from |-> r, mode |-> import[i].mode, alone |-> alone])
           /\ Proceed(i, [import[i] EXCEPT !.runs = @ \ {r},
                            !.runMap[r] = IF skip THEN 0 ELSE Len(copies) + 1])
    /\ UNCHANGED <<source, export, projects, default, stepCopies, approvalCopies, call,
                   imports, alone, chosen, lost>>

(* Mutant: a step is filed under its run's id in the file. *)
ImportStepUnmapped(i) ==
    /\ import[i].pc = "runs" /\ import[i].runs = {} /\ import[i].steps # {}
    /\ LET s == Least(import[i].steps)
           r == IF steps[s] \in DOMAIN copies THEN steps[s] ELSE import[i].runMap[steps[s]]
       IN  /\ stepCopies' = IF r = 0 THEN stepCopies ELSE Append(stepCopies, [run |-> r, from |-> s])
           /\ Proceed(i, [import[i] EXCEPT !.steps = @ \ {s},
                            !.stepMap[s] = IF r = 0 THEN 0 ELSE Len(stepCopies) + 1])
    /\ UNCHANGED <<source, export, projects, default, copies, approvalCopies, call,
                   imports, alone, chosen, lost>>

ImportStep(i) ==
    /\ import[i].pc = "runs" /\ import[i].runs = {} /\ import[i].steps # {}
    /\ LET s == Least(import[i].steps)
           r == import[i].runMap[steps[s]]
       IN  /\ stepCopies' = IF r = 0 THEN stepCopies ELSE Append(stepCopies, [run |-> r, from |-> s])
           /\ Proceed(i, [import[i] EXCEPT !.steps = @ \ {s},
                            !.stepMap[s] = IF r = 0 THEN 0 ELSE Len(stepCopies) + 1])
    /\ UNCHANGED <<source, export, projects, default, copies, approvalCopies, call,
                   imports, alone, chosen, lost>>

(* An approval, named by its step s, must have a step: the insert of one     *)
(* whose step is not in the map is refused, and the import ends there.       *)
PlaceApproval(i, s) ==
    LET r == import[i].runMap[steps[s]]
        step == IF s \in DOMAIN import[i].stepMap THEN import[i].stepMap[s] ELSE 0
    IN  IF r # 0 /\ step = 0
        THEN Proceed(i, [pc |-> "refused", torn |-> TRUE]) /\ UNCHANGED approvalCopies
        ELSE /\ Proceed(i, [import[i] EXCEPT !.approvals = @ \ {s}])
             /\ approvalCopies' = IF r = 0 THEN approvalCopies
                   ELSE Append(approvalCopies, [run |-> r, step |-> step, from |-> s])

(* Mutant: approvals are inserted without waiting for the steps. *)
ImportApprovalEarly(i) ==
    /\ import[i].pc = "runs" /\ import[i].runs = {} /\ import[i].approvals # {}
    /\ PlaceApproval(i, Least(import[i].approvals))
    /\ UNCHANGED <<source, export, projects, default, copies, stepCopies, call,
                   imports, alone, chosen, lost>>

ImportApproval(i) ==
    /\ import[i].pc = "runs" /\ import[i].runs = {} /\ import[i].steps = {}
    /\ import[i].approvals # {}
    /\ PlaceApproval(i, Least(import[i].approvals))
    /\ UNCHANGED <<source, export, projects, default, copies, stepCopies, call,
                   imports, alone, chosen, lost>>

ImportEnd(i) ==
    /\ \/ import[i].pc = "refused"
       \/ import[i].pc = "runs" /\ import[i].runs \cup import[i].steps \cup import[i].approvals = {}
       \/ MayDie /\ import[i] # Idle
    /\ Proceed(i, Idle)
    /\ UNCHANGED <<source, export, projects, default, runTables, call, imports, alone, chosen, lost>>

--------------------------------------------------------------------------------
Admins == \E a \in Admin :
    \/ \E name \in Name : CreateCheck(a, name)
    \/ \E i \in Id : DefaultGet(a, i) \/ DeleteGet(a, i)
    \/ CreateInsert(a) \/ DefaultSet(a)
    \/ DeleteRow(a) \/ DeleteRefused(a) \/ CompareDefault(a) \/ ClearDefault(a) \/ AdminDies(a)

Export == ExportRuns \/ ExportSteps \/ ExportApprovals

Import(i) ==
    \/ \E mode \in Modes : ImportBegin(i, mode)
    \/ ImportProjectCheck(i) \/ ImportProjectInsert(i)
    \/ ImportRun(i) \/ ImportStep(i) \/ ImportApproval(i) \/ ImportEnd(i)

Next == Work \/ Admins \/ Export \/ \E i \in Importer : Import(i)

Spec == Init /\ [][Next]_vars

--------------------------------------------------------------------------------
(* The default project is one that somebody made the default, although ids   *)
(* are used again: a project created or imported later never inherits the    *)
(* setting of a deleted one, except after a deletion that died before it     *)
(* cleared the setting (storage.py: delete_project).                        *)
DefaultIsChosen ==
    /\ default \in Rows
    /\ ~lost /\ \A a \in Admin : call[a].pc \notin {"compare", "clear"}
    => projects[default] = chosen

(* Copies hang together as the originals do: a step under a copy of its run, *)
(* an approval with a copy of its step and under the same run, whatever was  *)
(* imported before and whichever import stopped halfway (the id maps of     *)
(* import_export_payload).                                                  *)
CopiesHangTogether ==
    /\ \A s \in DOMAIN stepCopies : copies[stepCopies[s].run].from = steps[stepCopies[s].from]
    /\ \A a \in DOMAIN approvalCopies :
          LET c == approvalCopies[a] IN
          /\ stepCopies[c.step].from = c.from
          /\ stepCopies[c.step].run = c.run

(* skip_existing brings no second copy of a run, also after imports that     *)
(* died or used another mode: unless another import was under way with it.   *)
SkipMakesNoDuplicate ==
    \A r, q \in DOMAIN copies :
        r < q /\ copies[r].from = copies[q].from => copies[q].mode # "skip_existing" \/ ~copies[q].alone

(* An import of rows is refused only if the export was taken beside a        *)
(* running agent and holds an approval without its step: a payload of a      *)
(* database at rest can always be imported.                                 *)
RefusedOnlyIfTorn ==
    \A i \in Importer : import[i].pc = "refused" /\ import[i].torn => Torn

--------------------------------------------------------------------------------
(* "skip_existing additionally skips a run that already exists": whichever    *)
(* imports are under way.  The code does not keep it.                       *)
SkipsWhatExists ==
    \A r, q \in DOMAIN copies :
        r < q /\ copies[r].from = copies[q].from => copies[q].mode # "skip_existing"
================================================================================
