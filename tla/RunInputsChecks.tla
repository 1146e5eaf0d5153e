---------------------------- MODULE RunInputsChecks -----------------------------
(***************************************************************************)
(* The properties of RunInputs over small worlds, evaluated when a model    *)
(* that extends this module is checked.                                    *)
(***************************************************************************)
EXTENDS RunInputs, TLC

(* Functions on any part of the keys. *)
Optional(keys, values) == UNION {[ks -> values] : ks \in SUBSET keys}

RequestsChecked ==
    {Overlay(numbers, Overlay(names, [no_approval |-> no])) :
        numbers \in Optional({"max_loops"}, {1, 9}) \cup Optional({"timeout_seconds"}, {0, 1800}),
        names \in {Overlay(prompt, Overlay(project, Overlay(provider, place))) :
            prompt \in {Nothing, [prompt |-> "p"], [template |-> "T"], [prompt |-> "p", template |-> "T"]},
            project \in {Nothing, [project |-> "P"], [project |-> "?"]},
            provider \in {Nothing, [provider |-> "codex"], [provider |-> "X"]},
            place \in {Nothing, [workspace |-> "/w"], [worktree |-> "W"]}},
        no \in BOOLEAN}

ProjectsChecked ==
    {[name |-> "P"]} \cup
    {Overlay([name |-> "P", require_approval |-> TRUE], p) :
        p \in {Nothing, [repo_path |-> "/r", provider |-> "codex", require_approval |-> FALSE],
               [repo_path |-> "/w", max_loops |-> 3, timeout_seconds |-> 9000]}}

SettingsChecked ==
    {LoadSettings([ok |-> TRUE, values |-> f], [ok |-> TRUE, values |-> e]) :
        f \in {Nothing, [require_approval |-> FALSE, provider |-> "X", workspace |-> "/w"]},
        e \in {Nothing, [max_loops |-> 9], [max_loops_hard_limit |-> 9, timeout_seconds |-> 60]}}

WorldsChecked ==
    {[projects |-> "P" :> project, default |-> IF default THEN project ELSE Nothing,
      worktrees |-> "W" :> [path |-> "/w", status |-> status], templates |-> "T" :> "text",
      profiles |-> profiles, loads |-> TRUE, settings |-> s, directories |-> {"/w"}, allowed |-> {"/w", "/r"},
      limits |-> [max_loops |-> s.max_loops_hard_limit, timeout_seconds |-> s.timeout_seconds_hard_limit]] :
        project \in ProjectsChecked, default \in BOOLEAN, status \in {"ACTIVE", "ARCHIVED"},
        profiles \in {Nothing, "X" :> [type |-> "codex", enabled |-> TRUE, available |-> TRUE],
                      "X" :> [type |-> "mock", enabled |-> FALSE, available |-> FALSE]},
        s \in SettingsChecked}

(* The operators have the properties stated with them. *)
ASSUME ResolutionIsRight ==
    \A world \in WorldsChecked, request \in RequestsChecked :
        /\ AcceptedIsCreatable(request, world)
        /\ Found("project", request, world.projects) /\ Found("worktree", request, world.worktrees) =>
              /\ Stable(request, world)
              /\ GateOpenedByRequest(request, world)
              /\ ValidConfigSuffices(request, world)
              /\ ProjectShields(request, world, BuiltInSettings)
              /\ LikeIsCreatable(Settings(request, world), world)

(* The cases are there: runs accepted for every reason, refused for each.    *)
ASSUME ResolutionIsChecked ==
    /\ \A world \in WorldsChecked, request \in RequestsChecked :
          Verdict(request, [world EXCEPT !.loads = FALSE]) \in {"invalid", "config"}
    /\ \A v \in {"accepted", "invalid", "not_found"} :
          \E world \in WorldsChecked, request \in RequestsChecked : Verdict(request, world) = v
    /\ \E world \in WorldsChecked, request \in RequestsChecked :
          /\ Verdict(request, world) = "accepted"
          /\ Given("workspace", Settings(request, world)) /\ ~Settings(request, world).require_approval

(* What an import takes for limits does not depend on a --config flag: valid *)
(* settings of such a file can be refused (config.py:24).                    *)
ASSUME FlagComesTooLate ==
    LET file == [ok |-> TRUE, values |-> [max_loops |-> 30, max_loops_hard_limit |-> 40]]
        nothing == [ok |-> TRUE, values |-> Nothing]
    IN  /\ ValidSettings(LoadSettings(file, nothing))
        /\ ~LoopsAllowed(LoadSettings(file, nothing).max_loops, HardLimits(nothing, nothing))
        /\ ConfigPath([flag |-> "f"], {"f"}) = "f" /\ ConfigPath([env |-> "e"], {"f"}) = "error"
================================================================================
