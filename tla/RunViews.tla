-------------------------------- MODULE RunViews --------------------------------
(***************************************************************************)
(* What the read-only views make of the rows of a run: the prompt chain     *)
(* (chains.py), the comparison of two runs (compare.py), the logs a panel   *)
(* polls (storage.get_run_logs), search pages (search.py); and the text and *)
(* seeds of templates (templates.py).  Pure operators, no state.            *)
(*                                                                         *)
(* A view is several statements, each a transaction of its own, while the   *)
(* run goes on: it is an operator on what each statement read, and the      *)
(* tables are prefixes of the sequence of writes the run makes.  Step ids   *)
(* are loop indices from 1; the output of a step is its id, 0 is no output. *)
(* Previews, caps on lengths and full texts are left out.                   *)
(***************************************************************************)
EXTENDS Integers, Sequences, FiniteSets, SequencesExt

--------------------------------------------------------------------------------
(* The rows of one run, and the writes that make them.                       *)

Empty == [status |-> "CREATED", steps |-> <<>>, approvals |-> <<>>, artifacts |-> <<>>]

Written(t, w) ==
    CASE w.table = "run" -> [t EXCEPT !.status = w.row]
      [] w.table = "decide" -> [t EXCEPT !.approvals[Len(t.approvals)].status = w.row]
      [] OTHER -> [t EXCEPT ![w.table] = Append(@, w.row)]

Tables(writes, n) == FoldLeft(Written, Empty, SubSeq(writes, 1, n))

Put(table, row) == [table |-> table, row |-> row]

(* _record_step: the row of the step, then its artifacts one by one.         *)
RecordStep(i, status, files) ==
    <<Put("steps", [id |-> i, status |-> status, exit_code |-> IF status = "FAILED" THEN 1 ELSE 0])>>
    \o [k \in 1..3 |-> Put("artifacts",
            [step |-> i, type |-> <<"changed_files", "runner_stdout", "runner_stderr">>[k],
             content |-> IF k = 1 THEN files ELSE i])]

Gate(i) == <<Put("approvals", [step |-> i, status |-> "PENDING"]), Put("run", "WAITING_APPROVAL"),
             Put("decide", "APPROVED"), Put("run", "RUNNING")>>

(* _drive: n steps, each followed by its approval if gated; the last one     *)
(* ends the run as DONE or FAILED, or a cancellation was faster than it.     *)
Drive(n, gated, end, files) ==
    LET last == RecordStep(n, end, files[n]) IN
    <<Put("run", "RUNNING")>>
    \o FlattenSeq([i \in 1..n - 1 |-> RecordStep(i, "DONE", files[i]) \o (IF gated THEN Gate(i) ELSE <<>>)])
    \o (IF end = "STOPPED" THEN <<Put("run", end)>> \o last ELSE Append(last, Put("run", end)))

--------------------------------------------------------------------------------
(* build_prompt_chain.  read: what each of its six statements read, the run  *)
(* first, by the name of what it is used for.                                *)

ChainReads == <<"run", "steps", "approvals", "total", "counts", "changed">>

Failed(step) == step.status = "FAILED" \/ step.exit_code # 0
OfStep(rows, i) == SelectSeq(rows, LAMBDA row : row.step = i)
OfType(rows, type) == SelectSeq(rows, LAMBDA row : row.type = type)

ApprovalOf(approvals, i) ==
    LET own == OfStep(approvals, i) IN IF own = <<>> THEN "none" ELSE Last(own).status

ChangedFilesOf(artifacts, i) ==
    UNION {row.content : row \in ToSet(OfStep(OfType(artifacts, "changed_files"), i))}

ChainNode(step, read) ==
    [step |-> step.id, failed |-> Failed(step), status |-> step.status,
     approval |-> ApprovalOf(read.approvals.approvals, step.id),
     artifacts |-> Len(OfStep(read.counts.artifacts, step.id)),
     changed |-> ChangedFilesOf(read.changed.artifacts, step.id)]

SummarizeChain(nodes, read) ==
    [run_status |-> read.run.status, step_count |-> Len(nodes),
     approval_count |-> Len(read.approvals.approvals),
     pending_approval |-> \E n \in ToSet(nodes) : n.approval = "PENDING",
     failed_step_count |-> Cardinality({n \in ToSet(nodes) : n.failed}),
     total_artifact_count |-> Len(read.total.artifacts)]

ChainNodes(read) ==
    LET steps == read.steps.steps IN [k \in DOMAIN steps |-> ChainNode(steps[k], read)]

(* errors_only filters the nodes, never the summary. *)
PromptChain(read, errors_only) ==
    LET nodes == ChainNodes(read) IN
    [summary |-> SummarizeChain(nodes, read),
     nodes |-> IF errors_only THEN SelectSeq(nodes, LAMBDA n : n.failed) ELSE nodes]

--------------------------------------------------------------------------------
(* get_run_logs: the run, its latest step, the latest output of each kind.   *)

LogReads == <<"run", "step", "stdout", "stderr">>

LatestStep(t) == IF t.steps = <<>> THEN 0 ELSE Last(t.steps).id
LatestOf(t, type) == OfType(t.artifacts, type)

ShownOutput(t, type, step) ==
    IF LatestOf(t, type) # <<>> THEN Last(LatestOf(t, type)).content ELSE step

RunLogs(read) ==
    [status |-> read.run.status, step |-> LatestStep(read.step),
     stdout |-> ShownOutput(read.stdout, "runner_stdout", LatestStep(read.step)),
     stderr |-> ShownOutput(read.stderr, "runner_stderr", LatestStep(read.step))]

(* The reads of a view, each after `at` writes of the run. *)
Reads(names, writes, at) ==
    [name \in ToSet(names) |-> LET k == CHOOSE j \in DOMAIN names : names[j] = name
                               IN Tables(writes, at[k])]
AtEnd(names, writes) == Reads(names, writes, [k \in DOMAIN names |-> Len(writes)])

--------------------------------------------------------------------------------
(* compare_runs: two runs by id; runs that are not stored are not in world.  *)

ChangedPaths(t) == UNION {row.content : row \in ToSet(OfType(t.artifacts, "changed_files"))}
HasChangedFiles(t) == OfType(t.artifacts, "changed_files") # <<>>

CompareChangedFiles(a, b) ==
    [only_a |-> ChangedPaths(a) \ ChangedPaths(b), only_b |-> ChangedPaths(b) \ ChangedPaths(a),
     common |-> ChangedPaths(a) \cap ChangedPaths(b),
     missing |-> {side \in {"run A", "run B"} :
                    \/ side = "run A" /\ ~HasChangedFiles(a)
                    \/ side = "run B" /\ ~HasChangedFiles(b)}]

FailedSteps(t) == Len(SelectSeq(t.steps, Failed))
CompareSteps(a, b) ==
    [step_count_a |-> Len(a.steps), step_count_b |-> Len(b.steps),
     failed_steps_a |-> FailedSteps(a), failed_steps_b |-> FailedSteps(b)]

CompareRuns(world, i, j) ==
    IF i = j THEN [error |-> "same_run"]
    ELSE IF {i, j} \subseteq DOMAIN world
    THEN [steps |-> CompareSteps(world[i], world[j]), files |-> CompareChangedFiles(world[i], world[j]),
          same_status |-> world[i].status = world[j].status]
    ELSE [error |-> "not_found"]

--------------------------------------------------------------------------------
(* Search: ORDER BY id DESC LIMIT ? OFFSET ?, over ids that match.           *)

ClampLimit(limit, default, most) ==
    IF limit < 1 THEN default ELSE IF limit > most THEN most ELSE limit
ClampOffset(offset) == IF offset < 0 THEN 0 ELSE offset

(* The rows of a page: those with at least offset, and fewer than offset +   *)
(* limit, newer rows that match.                                             *)
SearchPage(ids, limit, offset) ==
    {i \in ids : LET newer == Cardinality({j \in ids : j > i}) IN offset <= newer /\ newer < offset + limit}

SearchRuns(ids, limit, offset, default, most) ==
    SearchPage(ids, ClampLimit(limit, default, most), ClampOffset(offset))

--------------------------------------------------------------------------------
(* render_template: one placeholder after the other is replaced everywhere,  *)
(* in the text and in what was put into it.  A text is a sequence of words,  *)
(* some of them placeholders.                                                *)

Placeholders == <<"project_name", "workspace", "goal", "changed_files", "last_error", "extra_context">>

Replace(text, key, value) ==
    FlattenSeq([k \in DOMAIN text |-> IF text[k] = key THEN value ELSE <<text[k]>>])

RenderTemplate(body, values) ==
    FoldLeft(LAMBDA text, key : Replace(text, key, IF key \in DOMAIN values THEN values[key] ELSE <<>>),
             body, Placeholders)

(* seed_templates and seed_default_provider_profiles, on a table by name.    *)
Seed(table, specs, overwrite) ==
    [name \in DOMAIN table \cup DOMAIN specs |->
        IF name \in DOMAIN specs /\ (overwrite \/ name \notin DOMAIN table) THEN specs[name] ELSE table[name]]
Missing(table, specs) == Cardinality(DOMAIN specs \ DOMAIN table)
SeedTemplates(table, specs, overwrite) ==
    LET seeded == IF overwrite THEN Cardinality(DOMAIN specs) ELSE Missing(table, specs)
    IN  [table |-> Seed(table, specs, overwrite), seeded |-> seeded,
         skipped |-> Cardinality(DOMAIN specs) - seeded]
(* A profile that force resets counts as skipped. *)
SeedProfiles(table, specs, force) ==
    [table |-> Seed(table, specs, force), seeded |-> Missing(table, specs),
     skipped |-> Cardinality(DOMAIN specs \cap DOMAIN table)]

--------------------------------------------------------------------------------
(* A view that reads a run as DONE or FAILED reads all of it: the status is  *)
(* read first and written last.  A STOPPED run may still get the step that   *)
(* was under way (run_service.py:744-753).                                   *)
ChainCompleteWhenEnded(writes, at) ==
    LET read == Reads(ChainReads, writes, at) IN
    read.run.status \in {"DONE", "FAILED"} =>
        PromptChain(read, FALSE) = PromptChain(AtEnd(ChainReads, writes), FALSE)

LogsCompleteWhenEnded(writes, at) ==
    LET read == Reads(LogReads, writes, at) IN
    read.run.status \in {"DONE", "FAILED"} => RunLogs(read) = RunLogs(AtEnd(LogReads, writes))

(* The output shown with a step is at most one step behind it: the step      *)
(* whose artifacts are still being written (storage.py:3079-3080).           *)
LogsOneStepBehind(writes, at) ==
    LET logs == RunLogs(Reads(LogReads, writes, at)) IN
    logs.stdout >= logs.step - 1 /\ logs.stderr >= logs.step - 1

(* An approval a chain shows as pending was pending, and the run was about   *)
(* to wait for it; errors_only leaves the summary alone.                     *)
ChainIsSound(writes, at) ==
    LET read == Reads(ChainReads, writes, at)
        chain == PromptChain(read, FALSE)
    IN  /\ chain.summary.pending_approval =>
              \E row \in ToSet(read.approvals.approvals) : row.status = "PENDING"
        /\ PromptChain(read, TRUE).summary = chain.summary
        /\ Len(PromptChain(read, TRUE).nodes) = chain.summary.failed_step_count

(* Comparing the other way round says the same, and every path is on exactly *)
(* one of the three lists.                                                   *)
CompareIsEven(world, i, j) ==
    LET there == CompareRuns(world, i, j)
        back  == CompareRuns(world, j, i)
    IN  "files" \in DOMAIN there =>
            /\ there.files.only_a = back.files.only_b /\ there.files.common = back.files.common
            /\ there.steps.failed_steps_a = back.steps.failed_steps_b
            /\ there.files.only_a \cup there.files.only_b \cup there.files.common
                  = ChangedPaths(world[i]) \cup ChangedPaths(world[j])
            /\ there.files.only_a \cap there.files.only_b = {}

(* A client that turns pages of `limit` rows, the k-th when the rows are     *)
(* tables[k], sees every row that was there when it began.                   *)
PagesMissNothing(tables, limit, default, most) ==
    tables[1] \subseteq
        UNION {SearchRuns(tables[k], limit, (k - 1) * limit, default, most) : k \in DOMAIN tables}

(* All placeholders replaced at once: what "literal" would mean. *)
AtOnce(body, values) ==
    FlattenSeq([k \in DOMAIN body |->
        IF body[k] \in ToSet(Placeholders)
        THEN IF body[k] \in DOMAIN values THEN values[body[k]] ELSE <<>>
        ELSE <<body[k]>>])

(* Seeding keeps what the user changed unless told otherwise, and seeding    *)
(* twice is seeding once.                                                    *)
SeedKeepsRows(table, specs, overwrite) ==
    LET after == Seed(table, specs, overwrite) IN
    /\ ~overwrite => \A name \in DOMAIN table : after[name] = table[name]
    /\ Seed(after, specs, overwrite) = after
    /\ SeedTemplates(after, specs, FALSE).seeded = 0
================================================================================
