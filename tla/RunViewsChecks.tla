----------------------------- MODULE RunViewsChecks -----------------------------
(***************************************************************************)
(* The properties of RunViews over small runs, read at every combination of *)
(* moments, evaluated when a model that extends this module is checked.     *)
(***************************************************************************)
EXTENDS RunViews, TLC

FilesChecked == <<{"f"}, {"f", "g"}>>

RunsChecked ==
    {Drive(n, gated, end, FilesChecked) : n \in 1..2, gated \in BOOLEAN, end \in {"DONE", "FAILED", "STOPPED"}}

(* Non-decreasing moments of k reads of a run of `last` writes. *)
Moments(k, last) == {at \in [1..k -> 0..last] : \A j \in 1..k - 1 : at[j] <= at[j + 1]}

(* Three kinds of moments suffice for the six reads of a chain. *)
ChainMoments(last) == {<<a, b, b, c, c, d>> : a, b, c, d \in 0..last}
Rising(at) == \A j \in 1..Len(at) - 1 : at[j] <= at[j + 1]

(* Chains and logs have the properties stated with them. *)
ASSUME ViewsAreRight ==
    \A writes \in RunsChecked :
        /\ \A at \in ChainMoments(Len(writes)) : Rising(at) =>
              ChainCompleteWhenEnded(writes, at) /\ ChainIsSound(writes, at)
        /\ \A at \in Moments(4, Len(writes)) :
              LogsCompleteWhenEnded(writes, at) /\ LogsOneStepBehind(writes, at)

(* Torn reads are seen: a chain that counts an approval it does not show     *)
(* (chains.py:179-180), logs of one step under the number of the next, and a *)
(* STOPPED run whose last step is still to come.                             *)
ASSUME ViewsAreTorn ==
    LET gated == Drive(2, TRUE, "DONE", FilesChecked)
        cut == Drive(1, FALSE, "STOPPED", FilesChecked)
    IN  /\ LET s == PromptChain(Reads(ChainReads, gated, <<1, 1, 6, 6, 6, 6>>), FALSE).summary
           IN  s.approval_count = 1 /\ s.step_count = 0 /\ ~s.pending_approval
        /\ \E n \in 1..Len(gated) :
              LET logs == RunLogs(Reads(LogReads, gated, <<n, n, n, n>>))
              IN  logs.step = 2 /\ logs.stdout = 1
        /\ PromptChain(Reads(ChainReads, cut, [k \in 1..6 |-> 2]), FALSE).summary.run_status = "STOPPED"
        /\ PromptChain(Reads(ChainReads, cut, [k \in 1..6 |-> 2]), FALSE).summary.step_count = 0

ASSUME CompareIsRight ==
    \A v, w \in RunsChecked :
        \A i, j \in 1..3 : CompareIsEven(<<Tables(v, Len(v)), Tables(w, 5)>>, i, j)

(* Rows that only arrive are never missed; a limit above the maximum, and a  *)
(* status filter a row falls out of between two pages, miss one.             *)
Arriving == {t \in [1..3 -> {1..n : n \in 0..5}] : t[1] \subseteq t[2] /\ t[2] \subseteq t[3]}
ASSUME SearchIsRight ==
    /\ \A t \in Arriving, limit \in 1..2 :
          Cardinality(t[3]) <= 3 * limit => PagesMissNothing(t, limit, 2, 2)
    /\ ~PagesMissNothing([k \in 1..3 |-> 1..4], 3, 2, 2)
    /\ ~PagesMissNothing(<<{1, 2, 3}, {1, 2}, {1, 2}>>, 1, 2, 2)

(* Replacing one after the other is replacing at once if no value has a      *)
(* placeholder whose turn comes later; otherwise it may not be.              *)
Words == {"x", "workspace", "goal", "last_error"}
Turn(word) == IF word \in ToSet(Placeholders) THEN CHOOSE k \in 1..6 : Placeholders[k] = word ELSE 0
ASSUME RenderingIsRight ==
    /\ \A body \in [1..2 -> Words], v, w \in [1..1 -> Words] :
          LET values == "workspace" :> v @@ "goal" :> w IN
          Turn(v[1]) <= 2 /\ Turn(w[1]) <= 3 => RenderTemplate(body, values) = AtOnce(body, values)
    /\ RenderTemplate(<<"workspace">>, "workspace" :> <<"goal">> @@ "goal" :> <<"x">>) = <<"x">>

ASSUME SeedingIsRight ==
    \A table \in UNION {[names -> {"own", "built-in"}] : names \in SUBSET {"a", "b", "c"}}, overwrite \in BOOLEAN :
        LET specs == [name \in {"a", "b"} |-> "built-in"] IN
        /\ SeedKeepsRows(table, specs, overwrite)
        /\ \A seeds \in {SeedTemplates(table, specs, overwrite), SeedProfiles(table, specs, overwrite)} :
              seeds.seeded + seeds.skipped = 2
================================================================================
