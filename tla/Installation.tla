---------------------------- MODULE Installation ----------------------------
(***************************************************************************)
(* What the commands that set Sieve up and take it away do to a machine:   *)
(* sieve-install with its rollback hooks (_installer.py), the systemd user *)
(* service (_autostart.py), `sieve init`, `sieve config set | reset |      *)
(* edit` and `sieve uninstall --hard` (cli.py, cli_config.py,              *)
(* cli_uninstall.py), over the configuration file, the store and the unit  *)
(* file.  One command runs at a time, one after another; each may be       *)
(* interrupted or killed between any two steps, and systemctl may fail.    *)
(***************************************************************************)
EXTENDS Naturals, Sequences, SequencesExt

CONSTANTS
    Runs,       \* how many commands are run
    Hits,       \* how many SIGINTs, SIGTERMs and SIGKILLs they get
    Faults      \* how many calls of systemctl fail

ASSUME InstallationAssumption == Runs \in Nat /\ Hits \in Nat /\ Faults \in Nat

VARIABLES
    config,     \* ~/.sieve/sieve.yaml: what it holds
    store,      \* the encrypted store
    unit,       \* the unit file, and what systemd knows of it
    host,       \* what no command changes: SIEVE_MODE, a sieve.yaml in the
                \*   current directory, whether there are user services
    run,        \* the command that runs, or the last one
    runs, hits, faults

vars == <<config, store, unit, host, run, runs, hits, faults>>

Asking   == <<"provider", "lan", "model", "writer", "autostart", "startnow", "confirm">>
Applying == <<"write", "text", "register", "embed", "store", "unit", "reload", "enable",
              "registerUnit", "status", "disable", "unlink", "start", "clear", "panel">>
Editing  == <<"set", "reset", "edit", "truncate", "raw", "validate">>
Commands == {"install", "init", "set", "reset", "edit", "uninstall"}
Places   == {"idle", "over", "check", "rollback", "wipe"}
            \cup Range(Asking) \cup Range(Applying) \cup Range(Editing)

(* What a configuration holds: keys the daemon takes, a key of the         *)
(* advanced surface, something no loader takes, nothing because somebody   *)
(* left it so, or nothing because a write is under way, or was cut off.    *)
Texts == {"good", "advanced", "broken", "empty", "torn"}

(* The calls of systemctl, `systemctl --user --version` being the probe.   *)
Calls == {"probe", "reload", "enable", "is-enabled", "disable"}

(* _build_config takes advanced keys.                                      *)
Builds(text) == text # "broken"

(* load_config_for_mode enforces the surface of the mode; a mode it does   *)
(* not know raises.                                                        *)
LoadsInMode(text) == \/ host.mode = "production" /\ text \in {"none", "empty", "torn", "good"}
                     \/ host.mode = "test" /\ Builds(text)

(* RecallConfig.load: a sieve.yaml in the current directory goes first.    *)
Loads == LoadsInMode(IF host.here # "none" THEN host.here ELSE config)

(* Mutant: a configuration with advanced keys is never an installed one.   *)
InstalledPlain == config = "good" /\ Loads

(* _is_already_installed.                                                  *)
Installed == config # "none" /\ Loads

NewRun(kind, at) ==
    [kind |-> kind, at |-> at, input |-> FALSE, agreed |-> "none", autostart |-> FALSE,
     hooks |-> <<>>, todo |-> <<>>, wrote |-> FALSE, enabled |-> FALSE,
     missed |-> {}, failed |-> FALSE, cut |-> {},
     began |-> [config |-> config, loads |-> Loads, unit |-> unit]]

Go(place) == run' = [run EXCEPT !.at = place]

(* An exception, or _InstallerExit: main runs the hooks, last one first.   *)
Fail == run' = [run EXCEPT !.at = "rollback", !.failed = TRUE, !.todo = Reverse(run.hooks)]

Files == <<config, store, unit>>
World == <<host, runs, hits>>

(* The calls of systemctl all succeed ("none"), or this one fails or runs  *)
(* into its timeout; one that runs into its timeout may have done its work.*)
Systemctl(call) == \/ call = "none" /\ UNCHANGED faults
                   \/ call # "none" /\ faults < Faults /\ faults' = faults + 1

Missing(call) == run.missed \cup ({call} \ {"none"})
GoOn(place, call) == run' = [run EXCEPT !.at = place, !.missed = Missing(call)]

---------------------------------------------------------------------------
(* sieve-install: the questions.                                           *)

Begin(kind) ==
    /\ run.at \in {"idle", "over"} /\ runs < Runs
    /\ runs' = runs + 1
    /\ run' = NewRun(kind, CASE kind = "install"   -> "check"
                             [] kind = "uninstall" -> "status"
                             [] kind = "init"      -> "embed"
                             [] OTHER              -> kind)
    /\ UNCHANGED <<Files, host, hits, faults>>

Check ==
    /\ run.at = "check"
    /\ \E noInput \in BOOLEAN :
         run' = [run EXCEPT !.at = IF Installed THEN "over" ELSE "provider",
                            !.input = ~noInput]
    /\ UNCHANGED <<Files, World, faults>>

(* The endpoint has answered a probe, or is taken without: for its key, or *)
(* because the user says so.                                               *)
Asked(place) == run.at = place /\ UNCHANGED <<Files, World, faults>>
Agree(how)   == run' = [run EXCEPT !.at = "model", !.agreed = how]

(* --provider: one that does not answer is refused.                        *)
UseOverride ==
    /\ Asked("provider")
    /\ Agree("probed") \/ Fail

(* A key in the environment, or an Ollama that answers.                    *)
AutoDetect ==
    /\ Asked("provider")
    /\ Agree("taken") \/ Agree("probed") \/ (~run.input /\ Fail)

SetupCloud ==
    /\ Asked("provider") /\ run.input
    /\ Agree("taken") \/ Fail

SetupOpenAICompat ==
    /\ Asked("provider") /\ run.input
    /\ Agree("probed") \/ Agree("taken") \/ Fail

SetupOllama ==
    /\ Asked("provider") /\ run.input
    /\ Agree("probed") \/ Agree("taken") \/ Go("lan") \/ Fail

PickLanOllama ==
    /\ Asked("lan")
    /\ Agree("probed") \/ Agree("taken")

SetupCustom ==
    /\ Asked("provider") /\ run.input
    /\ Agree("taken") \/ Fail

(* The endpoint may list no model.                                         *)
PickModel ==
    /\ Asked("model")
    /\ Go("writer") \/ Fail

PickWriter == Asked("writer") /\ Go("autostart")

PickAutostart ==
    /\ Asked("autostart")
    /\ \E yes \in IF host.systemd /\ run.input THEN BOOLEAN ELSE {FALSE} :
         run' = [run EXCEPT !.at = "startnow", !.autostart = yes]

(* Whether `sieve start` is called makes no difference: see StartNow.       *)
PickStartNow ==
    /\ Asked("startnow")
    /\ run' = [run EXCEPT !.at = IF run.input THEN "confirm" ELSE "write",
                          !.input = FALSE]

Confirm ==
    /\ Asked("confirm")
    /\ Go("write") \/ Fail

Ask == \/ UseOverride \/ AutoDetect \/ SetupCloud \/ SetupOpenAICompat
       \/ SetupOllama \/ PickLanOllama \/ SetupCustom \/ PickModel \/ PickWriter
       \/ PickAutostart \/ PickStartNow \/ Confirm

---------------------------------------------------------------------------
(* _apply_plan.                                                            *)

Installing(place) == run.kind = "install" /\ run.at = place

(* write_text truncates the file ...                                       *)
WriteYaml ==
    /\ Installing("write")
    /\ config' = "torn"
    /\ run' = [run EXCEPT !.at = "text", !.wrote = TRUE]
    /\ UNCHANGED <<store, unit, World, faults>>

(* ... and writes it, or raises before there is a hook.                    *)
WriteText ==
    /\ Installing("text")
    /\ \/ config' = "good" /\ Go("register")
       \/ /\ run' = [run EXCEPT !.at = "rollback", !.failed = TRUE, !.todo = Reverse(run.hooks),
                                !.cut = @ \cup {"text"}]
          /\ UNCHANGED config
    /\ UNCHANGED <<store, unit, World, faults>>

(* chmod, then the hook.                                                   *)
RegisterRemove ==
    /\ Installing("register")
    /\ run' = [run EXCEPT !.at = "embed", !.hooks = Append(@, "removeYaml")]
    /\ UNCHANGED <<Files, World, faults>>

(* The embedding model is loaded, or cannot be.                            *)
Embed ==
    /\ Installing("embed")
    /\ Go("store") \/ Fail
    /\ UNCHANGED <<Files, World, faults>>

(* _init_store loads the configuration as the daemon does.                 *)
InitStore ==
    /\ Installing("store")
    /\ \/ /\ Loads
          /\ store' = "ready"
          /\ Go(IF run.autostart THEN "unit" ELSE "status")
       \/ /\ Fail
          /\ UNCHANGED store
    /\ UNCHANGED <<config, unit, World, faults>>

(* enable_autostart: a call that fails is reported, the rest is left out,  *)
(* and what was done stays.  First the probe, then the unit file.          *)
Skip(call) == GoOn("start", call)

WriteUnit ==
    /\ run.at = "unit"
    /\ \E call \in {"none", "probe"} :
         /\ Systemctl(call)
         /\ IF call = "probe" THEN Skip(call) /\ UNCHANGED unit
            ELSE Go("reload") /\ unit' = [unit EXCEPT !.file = TRUE]
    /\ UNCHANGED <<config, store, World>>

DaemonReload ==
    /\ run.at = "reload"
    /\ \E call \in {"none", "reload"} :
         /\ Systemctl(call)
         /\ IF call = "reload" THEN Skip(call) ELSE Go("enable")
    /\ UNCHANGED <<Files, World>>

EnableNow ==
    /\ run.at = "enable"
    /\ \/ /\ Systemctl("none")
          /\ unit' = [unit EXCEPT !.enabled = TRUE]
          /\ run' = [run EXCEPT !.at = "registerUnit", !.enabled = TRUE]
       \/ /\ Systemctl("enable")
          /\ \E took \in BOOLEAN : unit' = [unit EXCEPT !.enabled = @ \/ took]
          /\ Skip("enable")
    /\ UNCHANGED <<config, store, World>>

(* Mutant: the hook that disables the service is not registered.           *)
RegisterNothing ==
    /\ run.at = "registerUnit"
    /\ Go("start")
    /\ UNCHANGED <<Files, World, faults>>

RegisterDisable ==
    /\ run.at = "registerUnit"
    /\ run' = [run EXCEPT !.at = "start", !.hooks = Append(@, "disable")]
    /\ UNCHANGED <<Files, World, faults>>

(* Mutant: a service of an earlier install is left alone.                  *)
AutostartIgnored ==
    /\ run.at = "status"
    /\ IF run.kind = "uninstall" THEN Go("wipe") ELSE Go("start")
    /\ UNCHANGED <<Files, World, faults>>

(* The answer was no, or all goes: is the service enabled?  A call that    *)
(* fails counts as no; an uninstall looks for the unit file even then.     *)
AutostartStatus ==
    /\ run.at = "status"
    /\ \E call \in IF host.systemd THEN {"none", "probe", "is-enabled"} ELSE {"none"} :
         /\ Systemctl(call)
         /\ GoOn(IF call = "none" /\ host.systemd /\ unit.enabled THEN "disable"
                 ELSE IF run.kind = "uninstall" THEN "unlink" ELSE "start", call)
    /\ UNCHANGED <<Files, World>>

(* disable_autostart: nothing is done where the probe fails or there is no *)
(* unit file; whether `disable` fails is not looked at ...                 *)
Disabling == {"none", "probe"} \cup {call \in {"disable"} : unit.file}
Stopped(call) == IF call = "probe" \/ ~unit.file THEN {unit}
                 ELSE {[unit EXCEPT !.enabled = on] :
                          on \in {FALSE, unit.enabled /\ call = "disable"}}
Disabled(call) == IF call = "probe" THEN {unit}
                  ELSE {[u EXCEPT !.file = FALSE] : u \in Stopped(call)}

DisableNow ==
    /\ run.at = "disable"
    /\ \E call \in Disabling :
         /\ Systemctl(call)
         /\ unit' \in Stopped(call)
         /\ GoOn(IF call = "probe" /\ run.kind = "install" THEN "start" ELSE "unlink", call)
    /\ UNCHANGED <<config, store, World>>

(* ... and the unit file goes.                                             *)
UnlinkUnit ==
    /\ run.at = "unlink"
    /\ unit' = [unit EXCEPT !.file = FALSE]
    /\ Go(IF run.kind = "uninstall" THEN "wipe" ELSE "start")
    /\ UNCHANGED <<config, store, World, faults>>

(* `sieve start` comes back without having started anything, or exits with *)
(* an error that is not looked at.                                         *)
StartNow == Installing("start") /\ Go("clear") /\ UNCHANGED <<Files, World, faults>>

ClearHooks ==
    /\ Installing("clear")
    /\ run' = [run EXCEPT !.at = "panel", !.hooks = <<>>]
    /\ UNCHANGED <<Files, World, faults>>

ReadyPanel ==
    /\ Installing("panel")
    /\ IF Loads THEN Go("over") ELSE Fail
    /\ UNCHANGED <<Files, World, faults>>

Apply == \/ WriteYaml \/ WriteText \/ RegisterRemove \/ Embed \/ InitStore
         \/ WriteUnit \/ DaemonReload \/ EnableNow \/ RegisterDisable
         \/ AutostartStatus \/ DisableNow \/ UnlinkUnit \/ StartNow \/ ClearHooks \/ ReadyPanel

(* _run_rollback: one hook after the other, no error stops it.  The hooks  *)
(* are disable_autostart and _remove_yaml.                                 *)
Rollback ==
    /\ run.at = "rollback"
    /\ \/ /\ run.todo = <<>>
          /\ Go("over")
          /\ UNCHANGED <<config, unit, faults>>
       \/ /\ run.todo # <<>> /\ Head(run.todo) = "removeYaml"
          /\ run' = [run EXCEPT !.todo = Tail(@)]
          /\ config' = "none"
          /\ UNCHANGED <<unit, faults>>
       \/ /\ run.todo # <<>> /\ Head(run.todo) = "disable"
          /\ \E call \in Disabling :
               /\ Systemctl(call)
               /\ unit' \in Disabled(call)
               /\ run' = [run EXCEPT !.todo = Tail(@), !.missed = Missing(call)]
          /\ UNCHANGED config
    /\ UNCHANGED <<store, World>>

---------------------------------------------------------------------------
(* `sieve init`: nothing is written before the embedding model is there,   *)
(* and nothing is undone.                                                  *)

Initialising(place) == run.kind = "init" /\ run.at = place
Stop == run' = [run EXCEPT !.at = "over", !.failed = TRUE]

InitEmbed ==
    /\ Initialising("embed")
    /\ Go("write") \/ Stop
    /\ UNCHANGED <<Files, World, faults>>

InitWrite ==
    /\ Initialising("write")
    /\ config' = "torn"
    /\ Go("text")
    /\ UNCHANGED <<store, unit, World, faults>>

InitText ==
    /\ Initialising("text")
    /\ \/ config' = "good" /\ Go("store")
       \/ Stop /\ UNCHANGED config
    /\ UNCHANGED <<store, unit, World, faults>>

InitReady ==
    /\ Initialising("store")
    /\ \/ store' = "ready" /\ Go("over")
       \/ Stop /\ UNCHANGED store
    /\ UNCHANGED <<config, unit, World, faults>>

Initialise == InitEmbed \/ InitWrite \/ InitText \/ InitReady

---------------------------------------------------------------------------
(* `sieve config set | reset | edit`.                                      *)

(* set_path takes only keys of the production surface; validate_raw loads  *)
(* the result by its path, which asks for no surface.                      *)
ConfigSet ==
    /\ run.at = "set"
    /\ IF Builds(config) THEN Go("truncate") \/ Stop ELSE Stop
    /\ UNCHANGED <<Files, World, faults>>

(* Confirmed or not; a text that is no YAML raises.                        *)
ConfigReset ==
    /\ run.at = "reset"
    /\ Go("truncate") \/ Stop
    /\ UNCHANGED <<Files, World, faults>>

(* write_raw: write_text truncates the file ...                            *)
Truncate ==
    /\ run.at = "truncate"
    /\ config' = "torn"
    /\ Go("raw")
    /\ UNCHANGED <<store, unit, World, faults>>

(* ... and writes it.                                                      *)
WriteRaw ==
    /\ run.at = "raw"
    /\ config' = IF run.kind = "set" /\ run.began.config = "advanced" THEN "advanced" ELSE "good"
    /\ Go("over")
    /\ UNCHANGED <<store, unit, World, faults>>

(* The editor works on the file itself.                                    *)
ConfigEdit ==
    /\ run.at = "edit"
    /\ config' \in (Texts \ {"torn"}) \cup {config}
    /\ Go("validate")
    /\ UNCHANGED <<store, unit, World, faults>>

(* What does not load by its path is replaced by what was there before.    *)
Validate ==
    /\ run.at = "validate"
    /\ IF config # "none" /\ Builds(config)
       THEN Go("over") /\ UNCHANGED config
       ELSE /\ Stop
            /\ config' = IF run.began.config = "none" THEN "empty" ELSE run.began.config
    /\ UNCHANGED <<store, unit, World, faults>>

Edit == ConfigSet \/ ConfigReset \/ Truncate \/ WriteRaw \/ ConfigEdit \/ Validate

---------------------------------------------------------------------------
(* `sieve uninstall --hard` ends with the removal of ~/.sieve.             *)

Wipe ==
    /\ run.at = "wipe"
    /\ config' = "none" /\ store' = "none"
    /\ Go("over")
    /\ UNCHANGED <<unit, World, faults>>

Step == Check \/ Ask \/ Apply \/ Rollback \/ Initialise \/ Edit \/ Wipe

---------------------------------------------------------------------------

Cut(place, how) == /\ run.at \notin {"idle", "over"}
              /\ hits < Hits /\ hits' = hits + 1
              /\ run' = [run EXCEPT !.at = place, !.cut = @ \cup {run.at} \cup how, !.failed = TRUE,
                                    !.todo = IF place = "rollback" THEN Reverse(run.hooks)
                                             ELSE <<>>]
              /\ UNCHANGED <<unit, host, runs, faults>>

(* SIGINT.  It ends a rollback; `sieve start`, called as a function, turns *)
(* it into an exception that is not looked at.                             *)
Interrupt ==
    /\ IF run.kind = "install" /\ run.at \notin {"rollback", "start"}
       THEN Cut("rollback", {})
       ELSE run.at # "start" /\ Cut("over", {})
    /\ UNCHANGED <<config, store>>

(* SIGTERM: the handler runs the hooks and exits; in `sieve start` the     *)
(* exit is taken for the one of a command that succeeded.                  *)
Term ==
    /\ run.kind = "install"
    /\ IF run.at = "start"
       THEN /\ hits < Hits /\ hits' = hits + 1
            /\ config' = "none"
            /\ \E call \in IF run.enabled THEN Disabling ELSE {"none"} :
                 /\ Systemctl(call)
                 /\ unit' \in IF run.enabled THEN Disabled(call) ELSE {unit}
                 /\ run' = [run EXCEPT !.at = "clear", !.cut = @ \cup {"start"},
                                       !.missed = Missing(call)]
            /\ UNCHANGED <<host, runs>>
       ELSE Cut("rollback", {}) /\ UNCHANGED config
    /\ UNCHANGED store

(* SIGKILL, or a signal to a command that handles none; the removal of     *)
(* ~/.sieve may be cut in its middle.                                      *)
Kill ==
    /\ Cut("over", {"kill"})
    /\ IF run.at = "wipe"
       THEN config' \in {config, "none"} /\ store' \in {store, "none"}
       ELSE UNCHANGED <<config, store>>

---------------------------------------------------------------------------

Init ==
    /\ config \in (Texts \ {"torn"}) \cup {"none"}
    /\ store \in {"none", "ready"}
    /\ unit \in {u \in [file : BOOLEAN, enabled : BOOLEAN] : u.enabled => u.file}
    /\ host \in [mode : {"production", "test", "unknown"},
                 here : {"none", "good", "broken"}, systemd : BOOLEAN]
    /\ unit.enabled => host.systemd
    /\ runs = 0 /\ hits = 0 /\ faults = 0
    /\ run = NewRun("install", "idle")

Next == (\E kind \in Commands : Begin(kind)) \/ Step \/ Interrupt \/ Term \/ Kill

Spec == Init /\ [][Next]_vars

---------------------------------------------------------------------------

(* An install that fails or is cancelled leaves neither the configuration  *)
(* it wrote nor a service it enabled, unless it is killed, or hit in one   *)
(* of five windows: while the configuration is written (also when the      *)
(* write itself fails), between a step and the registration of its hook,   *)
(* during the rollback, and after the hooks are cleared.  systemctl may    *)
(* spoil the rest: where the probe fails, the rollback leaves unit file    *)
(* and service; where `disable` fails, the service; and an `enable` that   *)
(* fails may leave a service for which there is no hook.                   *)
RolledBack ==
    /\ run.kind = "install" /\ run.at = "over" /\ run.failed
    /\ run.cut \cap {"text", "register", "registerUnit", "rollback", "panel", "kill"} = {}
    => /\ run.wrote => config = "none"
       /\ run.enabled /\ "probe" \notin run.missed => ~unit.file
       /\ unit.enabled => \/ run.began.unit.enabled /\ ~run.enabled
                         \/ run.missed \cap {"enable", "probe", "disable"} # {}

(* An installer that runs where a configuration loads changes nothing,     *)
(* however it ends.                                                        *)
ValidConfigKept ==
    run.kind = "install" /\ run.began.loads /\ run.began.config # "none"
    => config = run.began.config /\ unit = run.began.unit

(* No service is left enabled, with its unit file, over a machine without  *)
(* a configuration, where it would fail and be restarted for ever: unless  *)
(* it was so before, an install found a configuration that does not load   *)
(* under an enabled service, or was hit before it had registered the hook  *)
(* that disables; or systemctl failed it, in the `enable` that registers   *)
(* no hook then, or in the probe without which the hook does nothing.      *)
NoServiceWithoutConfig ==
    unit.file /\ unit.enabled /\ config = "none"
    => \/ (run.began.unit.enabled /\ (run.began.config = "none" \/ run.kind = "install"))
       \/ run.cut \cap {"registerUnit", "rollback"} # {}
       \/ run.missed \cap {"enable", "probe"} # {}

=============================================================================
