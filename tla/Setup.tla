------------------------------- MODULE Setup --------------------------------
(***************************************************************************)
(* `modelmeld setup` and `modelmeld doctor` on the operator's machine.     *)
(*                                                                         *)
(* A setup writes the files its tool needs, one after the other:           *)
(*                                                                         *)
(*   claude      setup-claude-code.sh, gateway-models.json                 *)
(*   codex       setup-codex.sh, ~/.codex/config.toml or a snippet of it   *)
(*   selfhost    modelmeld-gateway.env, setup-claude-code.sh, then boots a *)
(*               transient gateway, and with it gateway-models.json        *)
(*                                                                         *)
(* and ends with a smoke test.  It may fail at any step, be interrupted    *)
(* (KeyboardInterrupt: `finally` runs) or be killed (it does not).  The    *)
(* operator runs setups one after the other, sources what they wrote into  *)
(* the shell the next one is started from, and asks the doctor.            *)
(*                                                                         *)
(* What a gateway and a provider answer is chosen at each call.  A key is  *)
(* good or bad: whether its provider accepts it.                           *)
(***************************************************************************)
EXTENDS Integers, FiniteSets

CONSTANTS BaseUrls,           \* values of --base-url, see UrlKinds
          OssProviders,       \* providers of open models the gateway can route to
          FrontierProviders,  \* providers of frontier models
          MaxSetups           \* bound on the setups the operator runs

\* What _validate_base_url tells apart; hosts are "modelmeld", "local" (loopback or
\* RFC1918), "other" or "" (none).
UrlKinds ==
    [scheme : {"http", "https", "ftp"}, host : {"modelmeld", "local", "other", ""}]

ASSUME SetupAssumption ==
    /\ BaseUrls \subseteq UrlKinds
    /\ OssProviders \cap FrontierProviders = {}
    /\ MaxSetups \in Nat

VARIABLES command,    \* the setup that runs, or the last one: its arguments and environment
          step,       \* the step it is at, "idle" when none runs
          writing,    \* how far _atomic_write_text is in a step that writes
          disk,       \* the files
          transient,  \* the gateway self-host boots for its smoke test
          warned,     \* a warning said that something is not set up
          verified,   \* the smoke test was made, and passed
          exit,       \* the exit code; "none" while it runs
          shell,      \* the environment of the operator's shell
          setups      \* how many setups were started

setupVars ==
    <<command, step, writing, disk, transient, warned, verified, exit, shell, setups>>

-----------------------------------------------------------------------------
(* Arguments, files, environment *)

Providers == OssProviders \cup FrontierProviders
KeyRings == [Providers -> {"none", "good", "bad"}]
NoKeys == [p \in Providers |-> "none"]
Given(keys) == {p \in Providers : keys[p] # "none"}

NoUrl == [scheme |-> "", host |-> ""]

\* keys are the provider keys of self-host, env those the environment exports.  BYOK keys
\* of a hosted gateway are headers of the client and decide nothing here.
Commands ==
    [tool : {"claude", "codex", "selfhost"}, url : BaseUrls \cup {NoUrl},
     keys : KeyRings, env : KeyRings]

Files == {"script", "cache", "gateway", "codexScript", "codexConfig", "snippet"}
Contents ==
    [state : {"absent", "torn", "whole"}, url : BaseUrls \cup {NoUrl}, keys : KeyRings]
Content(state, url, keys) == [state |-> state, url |-> url, keys |-> keys]
Absent == Content("absent", NoUrl, NoKeys)
Torn == Content("torn", NoUrl, NoKeys)
\* A config.toml of the operator's own, without a modelmeld provider block.
Foreign == Content("whole", NoUrl, NoKeys)

\* The variables that count; `sourced`: the script was sourced since the last setup ran.
Shells ==
    [url : BaseUrls \cup {NoUrl}, token : BOOLEAN, keys : KeyRings, sourced : BOOLEAN]

\* Keys are sent in clear text to this machine or its network only, and to unknown hosts
\* only with --allow-custom-host.
Accepted(url, allowCustom) ==
    /\ url.scheme \in {"http", "https"}
    /\ url.host # ""
    /\ url.scheme = "http" => url.host = "local"
    /\ url.host = "other" => allowCustom

\* Exit code 2, before anything is written: the key is missing and may not be asked for,
\* or there is no provider to route to.
Refused(tool, url, keys, allowCustom, key) ==
    \/ ~Accepted(url, allowCustom)
    \/ tool = "selfhost" /\ Given(keys) = {}
    \/ tool # "selfhost" /\ ~key

\* Mutant: the cache is written for the gateway that was probed.
WrittenForProbe(f) ==
    CASE f = "gateway" -> Content("whole", NoUrl, command.keys)
      [] f = "cache" /\ command.tool = "selfhost" -> Content("whole", NoUrl, NoKeys)
      [] f = "codexScript" -> Foreign
      [] OTHER -> Content("whole", command.url, NoKeys)

\* What the setup writes into a file.
Written(f) ==
    CASE f = "gateway" -> Content("whole", NoUrl, command.keys)
      [] f = "codexScript" -> Foreign
      [] OTHER -> Content("whole", command.url, NoKeys)

\* The steps, in the order they are taken.
First(tool) ==
    CASE tool = "claude" -> "script" [] tool = "codex" -> "codexScript"
      [] tool = "selfhost" -> "gateway"
After(f) ==
    CASE f = "gateway" -> "script"
      [] f = "script" -> IF command.tool = "selfhost" THEN "boot" ELSE "fetch"
      [] f = "codexScript" -> "config"
      [] OTHER -> "smoke"

SetupInit ==
    /\ command = [tool |-> "claude", url |-> NoUrl, keys |-> NoKeys, env |-> NoKeys]
    /\ step = "idle" /\ writing = "open"
    /\ \E config \in {Absent, Foreign} :
         disk = [f \in Files |-> IF f = "codexConfig" THEN config ELSE Absent]
    /\ transient = "none" /\ warned = FALSE /\ verified = FALSE /\ exit = "none"
    /\ \E token \in BOOLEAN :
         shell = [url |-> NoUrl, token |-> token, keys |-> NoKeys, sourced |-> FALSE]
    /\ setups = 0

-----------------------------------------------------------------------------
(* Ending, and starting *)

GatewayRuns == transient \in {"booting", "up"}

\* Mutant: a gateway that does not come up is left to itself.
LeaveBooting(code) ==
    /\ exit' = code
    /\ step' = IF transient = "up" THEN "stop" ELSE "idle"

\* The setup ends; the `finally` of self-host comes first while its gateway runs.
Leave(code) ==
    /\ exit' = code
    /\ step' = IF GatewayRuns THEN "stop" ELSE "idle"

\* run_setup; only self-host takes provider keys.  A gateway that a kill left behind is
\* no concern of this setup.
Start(tool, url, keys, allowCustom, key) ==
    /\ step = "idle" /\ setups < MaxSetups
    /\ tool # "selfhost" => keys = NoKeys
    /\ setups' = setups + 1
    /\ writing' = "open" /\ transient' = "none"
    /\ warned' = FALSE /\ verified' = FALSE
    /\ shell' = [shell EXCEPT !.sourced = FALSE]
    /\ IF Refused(tool, url, keys, allowCustom, key)
       THEN exit' = "2" /\ step' = "idle" /\ UNCHANGED command
       ELSE /\ exit' = "none" /\ step' = First(tool)
            /\ command' = [tool |-> tool, url |-> url, keys |-> keys, env |-> shell.keys]
    /\ UNCHANGED disk

-----------------------------------------------------------------------------
(* Writing a file: _atomic_write_text *)

\* Mutant: the bytes go to the file itself.
OpenInPlace ==
    /\ step \in Files /\ writing = "open"
    /\ disk' = [disk EXCEPT ![step] = Torn]
    /\ writing' = "write"
    /\ UNCHANGED <<command, step, transient, warned, verified, exit, shell, setups>>

\* The bytes go to a temporary sibling, which then takes the file's place; what a killed
\* setup leaves of the sibling is overwritten before it is used.
OpenTemp ==
    /\ step \in Files /\ writing = "open"
    /\ writing' = "write"
    /\ UNCHANGED <<command, step, disk, transient, warned, verified, exit, shell, setups>>

WriteTemp ==
    /\ step \in Files /\ writing = "write"
    /\ writing' = "replace"
    /\ UNCHANGED <<command, step, disk, transient, warned, verified, exit, shell, setups>>

\* os.replace, chmod, and the bytes read back are those that were written.
ReplaceFile ==
    /\ step \in Files /\ writing = "replace"
    /\ disk' = [disk EXCEPT ![step] = Written(step)]
    /\ writing' = "open" /\ step' = After(step)
    /\ UNCHANGED <<command, transient, warned, verified, exit, shell, setups>>

\* An OSError or RuntimeError ends the setup; of the cache it is only warned.
WriteFails ==
    /\ step \in Files
    /\ writing' = "open"
    /\ IF step = "cache"
       THEN warned' = TRUE /\ step' = "smoke" /\ UNCHANGED exit
       ELSE Leave("1") /\ UNCHANGED warned
    /\ UNCHANGED <<command, disk, transient, verified, shell, setups>>

-----------------------------------------------------------------------------
(* The other steps *)

\* _setup_codex never overwrites a config.toml: with a modelmeld block it stays as it
\* is, without one the block goes into a snippet to merge.
ChooseConfig ==
    /\ step = "config"
    /\ LET config == disk["codexConfig"]
       IN  /\ step' = IF config.state = "absent" THEN "codexConfig"
                      ELSE IF config.url = NoUrl THEN "snippet" ELSE "smoke"
           /\ warned' = (warned \/ config.state # "absent")
    /\ UNCHANGED <<command, writing, disk, transient, verified, exit, shell, setups>>

\* _boot_transient_gateway.  Its environment is the setup's with the given keys over it.
Boot ==
    /\ step = "boot"
    /\ transient' = "booting" /\ step' = "healthz"
    /\ UNCHANGED <<command, writing, disk, warned, verified, exit, shell, setups>>

\* _wait_for_healthz, and the gateway it waits for.
GatewayComesUp ==
    /\ transient = "booting" /\ step = "healthz"
    /\ transient' = "up"
    /\ UNCHANGED <<command, step, writing, disk, warned, verified, exit, shell, setups>>

GatewayDies ==
    /\ GatewayRuns
    /\ transient' = "exited"
    /\ UNCHANGED <<command, step, writing, disk, warned, verified, exit, shell, setups>>

SeesHealthz ==
    /\ step = "healthz" /\ transient = "up"
    /\ step' = "fetch"
    /\ UNCHANGED <<command, writing, disk, transient, warned, verified, exit, shell, setups>>

HealthzTimesOut ==
    /\ step = "healthz"
    /\ Leave("1")
    /\ UNCHANGED <<command, writing, disk, transient, warned, verified, shell, setups>>

\* GET /v1/models succeeds, is refused, or raises.
Fetch ==
    /\ step = "fetch"
    /\ \/ /\ transient # "exited"
          /\ step' = "cache" /\ UNCHANGED <<warned, exit>>
       \/ /\ command.tool = "claude"
          /\ Leave("1") /\ UNCHANGED warned
       \/ /\ step' = "smoke" /\ warned' = TRUE /\ UNCHANGED exit
    /\ UNCHANGED <<command, writing, disk, transient, verified, shell, setups>>

\* Mutant: what the environment exports wins.
EffectiveSwapped ==
    [p \in Providers |-> IF command.env[p] # "none" THEN command.env[p]
                         ELSE command.keys[p]]

\* The keys the transient gateway runs with.
Effective ==
    [p \in Providers |-> IF command.keys[p] # "none" THEN command.keys[p]
                         ELSE command.env[p]]

\* Of each kind of provider that was given a key, one that accepts it serves requests.
Serves(keys) ==
    \A kind \in {OssProviders, FrontierProviders} :
        Given(command.keys) \cap kind # {} => \E p \in kind : keys[p] = "good"

\* _smoke_test_self_host: -saver must be served by an open model, -quality by a frontier
\* one, where such keys were given.
SmokeCanPass ==
    command.tool = "selfhost" => transient = "up" /\ Serves(Effective)

SmokePasses ==
    /\ step = "smoke" /\ SmokeCanPass
    /\ verified' = TRUE
    /\ Leave("0")
    /\ UNCHANGED <<command, writing, disk, transient, warned, shell, setups>>

\* A test fails, or the connection does and nothing catches it.
SmokeFails ==
    /\ step = "smoke"
    /\ Leave("1")
    /\ UNCHANGED <<command, writing, disk, transient, warned, verified, shell, setups>>

\* --skip-smoke-test
SmokeSkipped ==
    /\ step = "smoke"
    /\ Leave("0")
    /\ UNCHANGED <<command, writing, disk, transient, warned, verified, shell, setups>>

\* The `finally`: terminate, wait for five seconds, kill.
Terminate ==
    /\ step = "stop"
    /\ IF GatewayRuns
       THEN transient' = "terminating" /\ step' = "wait"
       ELSE step' = "idle" /\ UNCHANGED transient
    /\ UNCHANGED <<command, writing, disk, warned, verified, exit, shell, setups>>

\* It stopped in time, or is killed.
GatewayStops ==
    /\ step = "wait"
    /\ transient' = "exited" /\ step' = "idle"
    /\ UNCHANGED <<command, writing, disk, warned, verified, exit, shell, setups>>

\* Ctrl-C; during the wait it leaves a gateway that was told to stop.
Interrupt ==
    /\ step \notin {"idle", "stop"}
    /\ Leave("interrupted") /\ writing' = "open"
    /\ UNCHANGED <<command, disk, transient, warned, verified, shell, setups>>

\* The process is killed or its terminal closed.  Files keep what was written to them, as
\* they do not when the machine loses power: nothing calls fsync.
Kill ==
    /\ step # "idle"
    /\ step' = "idle" /\ exit' = "killed" /\ writing' = "open"
    /\ UNCHANGED <<command, disk, transient, warned, verified, shell, setups>>

-----------------------------------------------------------------------------
(* The operator between setups *)

\* `source setup-claude-code.sh`
SourceScript ==
    /\ step = "idle" /\ disk["script"].state = "whole"
    /\ LET script == disk["script"]
       IN  shell' = [shell EXCEPT !.url = script.url, !.token = FALSE, !.sourced = TRUE]
    /\ UNCHANGED <<command, step, writing, disk, transient, warned, verified, exit, setups>>

\* `source modelmeld-gateway.env`, in the shell the next setup may be started from.
SourceGateway ==
    /\ step = "idle" /\ disk["gateway"].state = "whole"
    /\ LET keys == disk["gateway"].keys
       IN  shell' = [shell EXCEPT !.keys = [p \in Providers |->
                        IF keys[p] # "none" THEN keys[p] ELSE @[p]]]
    /\ UNCHANGED <<command, step, writing, disk, transient, warned, verified, exit, setups>>

SetupStep ==
    \/ OpenTemp \/ WriteTemp \/ ReplaceFile \/ WriteFails
    \/ ChooseConfig \/ Boot \/ SeesHealthz \/ HealthzTimesOut \/ Fetch
    \/ SmokePasses \/ SmokeFails \/ SmokeSkipped \/ Terminate \/ GatewayStops

SetupNext ==
    \/ \E tool \in {"claude", "codex", "selfhost"}, url \in BaseUrls, keys \in KeyRings,
          allowCustom \in BOOLEAN, key \in BOOLEAN :
            Start(tool, url, keys, allowCustom, key)
    \/ SetupStep
    \/ GatewayComesUp \/ GatewayDies \/ Interrupt \/ Kill
    \/ SourceScript \/ SourceGateway

SetupSpec == SetupInit /\ [][SetupNext]_setupVars

-----------------------------------------------------------------------------
(* What must hold *)

Succeeded == step = "idle" /\ exit = "0"

\* Section 1 of `modelmeld doctor`: the variables of the shell.
EnvironmentIsClean == shell.url # NoUrl /\ ~shell.token

\* Section 2: the cache is whole, and for the gateway that the shell names.
CacheIsGood == disk["cache"].state = "whole" /\ disk["cache"].url = shell.url

(* A setup that ends well and warned of nothing leaves files that agree with each other,
   whatever earlier setups left half done for another gateway: once the script is sourced
   the doctor finds nothing wrong with them, and Codex is pointed at the gateway asked
   for.  And wherever a setup is killed, every file is whole ("partial writes can't leave
   half-state"). *)
ReadyAfterSetup ==
    /\ \A f \in Files : disk[f].state # "torn"
    /\ Succeeded /\ ~warned =>
         /\ shell.sourced /\ command.tool # "codex" =>
              EnvironmentIsClean /\ CacheIsGood
         /\ command.tool = "codex" => disk["codexConfig"].url = command.url

(* A self-host setup that says it verified routing wrote a gateway.env with which the
   gateway routes, if its own environment exported no key of a provider it was given
   none for: such a key reaches the transient gateway, and not the file. *)
VerifiedConfigRoutes ==
    /\ Succeeded /\ command.tool = "selfhost" /\ verified
    /\ Given(command.env) \subseteq Given(command.keys)
    => Serves(disk["gateway"].keys)

(* However a setup ends, the gateway it booted is gone or was told to stop; only a kill
   leaves it behind. *)
NothingLeftRunning == step = "idle" /\ exit # "killed" => ~GatewayRuns

SetupTypeOK ==
    /\ command \in Commands
    /\ step \in Files \cup {"idle", "config", "boot", "healthz", "fetch", "smoke", "stop",
                           "wait"}
    /\ writing \in {"open", "write", "replace"}
    /\ disk \in [Files -> Contents]
    /\ transient \in {"none", "booting", "up", "terminating", "exited"}
    /\ warned \in BOOLEAN /\ verified \in BOOLEAN
    /\ exit \in {"none", "0", "1", "2", "interrupted", "killed"}
    /\ shell \in Shells
    /\ setups \in 0..MaxSetups
=============================================================================
