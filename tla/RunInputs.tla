------------------------------- MODULE RunInputs --------------------------------
(***************************************************************************)
(* What a run is created with: the settings of the program (settings.py,    *)
(* config.py), the profile of the project (projects.py), the provider       *)
(* (providers.py), and the request, put together and checked by             *)
(* resolve_run_inputs (run_service.py) for the command line and the routes. *)
(* Pure operators, no state.                                                *)
(*                                                                         *)
(* A set of optional values is a function on the keys that are given: a key *)
(* outside its domain is None, or the empty string where the code treats    *)
(* both alike.  Only the keys a run depends on are kept; text is a model    *)
(* value, and a path is equal to another or inside it only by being a       *)
(* member of the sets that say which exist and which are allowed.           *)
(***************************************************************************)
EXTENDS Integers

Given(k, f) == k \in DOMAIN f
Nothing == [k \in {} |-> 0]

(* The values of `over` where it has them, those of `under` elsewhere. *)
Overlay(under, over) ==
    [k \in DOMAIN under \cup DOMAIN over |-> IF Given(k, over) THEN over[k] ELSE under[k]]

Only(keys, f) == [k \in keys \cap DOMAIN f |-> f[k]]
Without(keys, f) == [k \in DOMAIN f \ keys |-> f[k]]

--------------------------------------------------------------------------------
(* Settings: built-in values, the config file over them, the environment     *)
(* over both.  A source that does not parse is not `ok`.                     *)

BuiltInSettings ==
    [provider |-> "mock", max_loops |-> 5, timeout_seconds |-> 1800, require_approval |-> TRUE,
     max_loops_hard_limit |-> 20, timeout_seconds_hard_limit |-> 7200]

(* There is no default workspace, and no variable for the approval default.  *)
SettingsKeys == DOMAIN BuiltInSettings \cup {"workspace"}
EnvKeys == SettingsKeys \ {"require_approval"}

(* _resolve_config_path: a file that is named must exist, the usual places   *)
(* are tried.                                                                *)
ConfigPath(named, existing) ==
    CASE Given("flag", named) -> IF named.flag \in existing THEN named.flag ELSE "error"
      [] ~Given("flag", named) /\ Given("env", named) ->
            IF named.env \in existing THEN named.env ELSE "error"
      [] OTHER -> IF "autoprompt.toml" \in existing THEN "autoprompt.toml"
                  ELSE IF ".autoprompt/config.toml" \in existing THEN ".autoprompt/config.toml"
                  ELSE "none"

FromFile(file) == Overlay(BuiltInSettings, Only(SettingsKeys, file.values))
FromEnv(settings, env) == Overlay(settings, Only(EnvKeys, env.values))
Loads(file, env) == file.ok /\ env.ok
LoadSettings(file, env) == FromEnv(FromFile(file), env)

ValidSettings(s) ==
    /\ s.max_loops >= 1 /\ s.max_loops_hard_limit >= 1 /\ s.max_loops <= s.max_loops_hard_limit
    /\ s.timeout_seconds >= 1 /\ s.timeout_seconds_hard_limit >= 1
    /\ s.timeout_seconds <= s.timeout_seconds_hard_limit

(* The limits of a process: taken once, when config.py is imported, from the *)
(* usual places - a --config flag comes too late - or built in.              *)
HardLimits(file, env) ==
    LET s == IF Loads(file, env) THEN LoadSettings(file, env) ELSE BuiltInSettings
    IN  [max_loops |-> s.max_loops_hard_limit, timeout_seconds |-> s.timeout_seconds_hard_limit]

LoopsAllowed(n, limits) == 1 <= n /\ n <= limits.max_loops
TimeoutAllowed(n, limits) == 1 <= n /\ n <= limits.timeout_seconds

--------------------------------------------------------------------------------
(* resolve_run_settings: the request over the project over the built-in.     *)
(* A project without name is none.                                           *)

BuiltInRun == [provider |-> "mock", max_loops |-> 1, timeout_seconds |-> 1800, require_approval |-> TRUE]
RunKeys == {"provider", "max_loops", "timeout_seconds"}

IsProject(project) == Given("name", project)

(* A profile from before the column has NULL there, which reads as FALSE.    *)
RequiresApproval(project) ==
    IsProject(project) => Given("require_approval", project) /\ project.require_approval

RunSettings(project, explicit, workspace, no_approval) ==
    LET own == Overlay(BuiltInRun, Only(DOMAIN BuiltInRun, project))
        run == Overlay(own, [k \in {"require_approval"} |-> ~no_approval /\ RequiresApproval(project)])
        s   == Overlay(run, Only(RunKeys, explicit))
    IN  IF Given("path", workspace) THEN Overlay(s, [workspace |-> workspace.path])
        ELSE IF s.provider # "mock" /\ Given("repo_path", project)
        THEN Overlay(s, [workspace |-> project.repo_path])
        ELSE s

--------------------------------------------------------------------------------
(* Provider profiles: a name with a profile is its type, the others must be  *)
(* a built-in type.                                                          *)

BuiltInTypes == {"mock", "claude-code", "codex"}
NeedsWorkspace == {"claude-code", "codex"}

Runnable(profile) == profile.enabled /\ (profile.type = "mock" \/ profile.available)
ProviderType(name, profiles) == IF Given(name, profiles) THEN profiles[name].type ELSE name
ProviderRuns(name, profiles) ==
    IF Given(name, profiles) THEN Runnable(profiles[name]) ELSE name \in BuiltInTypes

(* build_runner_for_profile: a run always has a timeout, the profile's own   *)
(* is only for callers without one.                                          *)
RunnerTimeout(run, profile) ==
    IF Given("timeout_seconds", run) THEN run.timeout_seconds ELSE profile.default_timeout

--------------------------------------------------------------------------------
(* resolve_run_inputs.  The request: prompt, template, project, worktree,    *)
(* workspace, provider and limits where given, and no_approval.  The world:  *)
(* the tables by name, the default project (Nothing: none), the settings and *)
(* the limits, the directories that exist and those that are allowed; `loads`*)
(* is FALSE if the config file or a variable is refused (SettingsError).     *)

Selected(request, world) ==
    IF Given("project", request) THEN world.projects[request.project] ELSE world.default

(* Config defaults count only where no project is selected. *)
Explicit(request, world) ==
    IF IsProject(Selected(request, world)) THEN Only(RunKeys, request)
    ELSE Overlay(Only(RunKeys, world.settings), Only(RunKeys, request))

(* --workspace over --worktree over, without a project, the config default. *)
Workspace(request, world) ==
    IF Given("workspace", request) THEN [path |-> request.workspace]
    ELSE IF Given("worktree", request) THEN [path |-> world.worktrees[request.worktree].path]
    ELSE IF ~IsProject(Selected(request, world)) /\ Given("workspace", world.settings)
    THEN [path |-> world.settings.workspace]
    ELSE Nothing

Settings(request, world) ==
    RunSettings(Selected(request, world), Explicit(request, world), Workspace(request, world),
                request.no_approval)

OnePrompt(request) == Given("prompt", request) # Given("template", request)
Found(key, request, rows) == Given(key, request) => Given(request[key], rows)
TemplateRenders(request, world) ==
    Given("template", request) => world.templates[request.template] # "blank"
WorktreeOpen(request, world) ==
    Given("worktree", request) => world.worktrees[request.worktree].status # "ARCHIVED"

(* A workspace that is None passes the allowlist. *)
WorkspaceFits(s, world) ==
    /\ ProviderType(s.provider, world.profiles) \in NeedsWorkspace =>
          Given("workspace", s) /\ s.workspace \in world.directories
    /\ Given("workspace", s) => s.workspace \in world.allowed

(* The first check that fails decides what the caller is told. *)
Verdict(request, world) ==
    IF ~OnePrompt(request) THEN "invalid"
    ELSE IF ~world.loads THEN "config"
    ELSE IF ~Found("project", request, world.projects) THEN "not_found"
    ELSE IF ~Found("worktree", request, world.worktrees) THEN "not_found"
    ELSE IF ~WorktreeOpen(request, world) THEN "invalid"
    ELSE IF ~Found("template", request, world.templates) THEN "not_found"
    ELSE IF ~TemplateRenders(request, world) THEN "invalid"
    ELSE LET s == Settings(request, world) IN
         IF /\ ProviderRuns(s.provider, world.profiles)
            /\ LoopsAllowed(s.max_loops, world.limits)
            /\ TimeoutAllowed(s.timeout_seconds, world.limits)
            /\ WorkspaceFits(s, world)
         THEN "accepted" ELSE "invalid"

(* create_run_only: the backstop behind it, by name and limits only. *)
Creates(s, world) ==
    /\ s.provider \in BuiltInTypes \/ Given(s.provider, world.profiles)
    /\ LoopsAllowed(s.max_loops, world.limits) /\ TimeoutAllowed(s.timeout_seconds, world.limits)

(* create_run_only_like: a recovery's run has the settings of its source. *)
Like(run) == Overlay([timeout_seconds |-> 1800], run)

(* The request that asks for given settings in so many words. *)
AskFor(s, request) ==
    Overlay(Overlay(Without({"require_approval"}, s), Only({"project"}, request)),
            [prompt |-> "p", no_approval |-> ~s.require_approval])

(* POST /runs asks for approval or not, the command line has --no-approval.  *)
FromBody(body) == Overlay(Without({"require_approval"}, body),
                          [no_approval |-> ~body.require_approval])

--------------------------------------------------------------------------------
(* What is accepted can be created: resolve_run_inputs and the backstop in   *)
(* create_run_only agree, so a route that answered "accepted" does not fail  *)
(* one line later (run_service.py:181-210 against create_run_only).          *)
AcceptedIsCreatable(request, world) ==
    Verdict(request, world) = "accepted" => Creates(Settings(request, world), world)

(* With a project selected, a run has nothing from the config file or the    *)
(* environment but the limits (run_service.py:130-132).                      *)
ProjectShields(request, world, other) ==
    IsProject(Selected(request, world)) =>
        LET elsewhere == [world EXCEPT !.settings = other] IN
        /\ Settings(request, elsewhere) = Settings(request, world)
        /\ Verdict(request, elsewhere) = Verdict(request, world)

(* Asking for the settings of an accepted run, for the same project, gives   *)
(* an accepted run with the same settings: nothing is resolved twice.        *)
Stable(request, world) ==
    Verdict(request, world) = "accepted" =>
        LET s == Settings(request, world)
            again == AskFor(s, request)
        IN  Verdict(again, world) = "accepted" /\ Settings(again, world) = s

(* The approval gate is only ever open if the request waives it or a project *)
(* is selected that does not hold TRUE for it: no config file and no variable*)
(* opens it (projects.py:72-77).  That a row with NULL opens it, although    *)
(* nobody asked, is storage.py:424 and 3102.                                 *)
GateOpenedByRequest(request, world) ==
    ~Settings(request, world).require_approval =>
        \/ request.no_approval
        \/ IsProject(Selected(request, world)) /\ ~RequiresApproval(Selected(request, world))

(* Settings that pass validate_settings are never the reason for a refusal   *)
(* over limits, in a process that has its limits from the same settings.     *)
ValidConfigSuffices(request, world) ==
    /\ ValidSettings(world.settings)
    /\ world.limits.max_loops = world.settings.max_loops_hard_limit
    /\ world.limits.timeout_seconds = world.settings.timeout_seconds_hard_limit
    /\ ~IsProject(Selected(request, world))
    /\ ~Given("max_loops", request) /\ ~Given("timeout_seconds", request)
    => LET s == Settings(request, world) IN
       LoopsAllowed(s.max_loops, world.limits) /\ TimeoutAllowed(s.timeout_seconds, world.limits)

(* The run of a recovery can be created wherever its source could.           *)
LikeIsCreatable(s, world) == Creates(s, world) => Creates(Like(s), world)
================================================================================
