---------------------------- MODULE KitToolchain ----------------------------
(***************************************************************************)
(* The kit toolchain smoke: kit-toolchain-e2b/run.sh prepares a Python     *)
(* environment and starts kit_toolchain_e2b.py, which creates one cloud    *)
(* sandbox, stages a repository, clears the base image of the toolchain,   *)
(* installs it again as the kit's manifest says, builds and tests the      *)
(* repository with it, and kills the sandbox.  Only then may it claim to   *)
(* have proved that the kit works.                                         *)
(*                                                                         *)
(* One run of the script at a time; the Python environment and sandboxes   *)
(* that were not killed outlast a run.  A command in a sandbox may exit    *)
(* non-zero or raise (its timeout, the provider, a sandbox whose time is   *)
(* up), an operator may interrupt the run, and the process may be killed.  *)
(***************************************************************************)
EXTENDS Naturals

CONSTANTS
  Sandboxes,  \* bound: the sandboxes the provider hands out over all runs
  NoSandbox,
  Installs,   \* commands under provide.toolchain_install.linux
  Posts       \* post_acquire commands

ASSUME SandboxAssumption == NoSandbox \notin Sandboxes
ASSUME CommandsAssumption == Installs \in Nat \ {0} /\ Posts \in Nat \ {0}

VARIABLES
  pc,       \* where the script or the driver is; "idle" between runs
  code,     \* how the last run ended, "none" during one
  kit,      \* --kit
  url,      \* TS_FIXTURE_REPO: "unset", or does the kit's [detect] match it?
  todo,     \* commands left in the list being run
  mine,     \* the local variable sandbox of run_real
  evidence, \* evidence is not None
  cleaned,  \* cleanup_succeeded
  pending,  \* a KeyboardInterrupt is on its way out
  redacting,\* _RUN_REDACTIONS holds the sandbox's identifier
  venv,     \* the Python environment of run.sh: "none", "bare" without packages, "full"
  alive,    \* the sandboxes that run and cost money
  born,     \* those of them, or of the gone ones, this run created
  used,     \* those any run created
  repo,     \* what REPO_DIR of mine holds
  path,     \* where the toolchains on the PATH of mine come from
  built,    \* the toolchain the build ran with
  tested,   \* the toolchain the test ran with
  kills     \* how often this run called kill

local == <<kit, url, todo, evidence, redacting>>
ended == <<cleaned, kills>>
world == <<venv, used, born>>
inside == <<repo, path, built, tested>>
vars == <<pc, code, pending, mine, alive, local, ended, world, inside>>

Kits == {"ts-next", "swift"}
Urls == {"unset", "matching", "foreign"}

(* preload: in the places establish_clean_base removes.  manager: node, or *)
(* swiftly, elsewhere on PATH.  compiler: a swift outside of swiftly.      *)
(* kit: installed by the manifest's commands.                              *)
Origins == {"preload", "manager", "compiler", "kit"}
BaseImages(k) ==
  SUBSET ({"preload", "manager"} \cup (IF k = "swift" THEN {"compiler"} ELSE {}))

(* What a command finds on PATH: whatever came with the image shadows the  *)
(* kit, but for a compiler, as SWIFT_ENV puts swiftly in front of it.      *)
Finds(p) ==
  IF p \cap {"preload", "manager"} # {} THEN p \cap {"preload", "manager"}
  ELSE IF "kit" \in p THEN {"kit"} ELSE p

Provisioning == {"install", "post"}
Verifying    == {"version", "build", "test"}
Executing    == {"stage", "local", "base"} \cup Provisioning \cup Verifying
Driving      == {"create", "created"} \cup Executing  \* in run_real's first try
Stops        == {"idle", "venv", "pip", "dry", "plan", "kill", "verdict"} \cup Driving
Codes        == {"none", "ok", "fail", "setup", "planned", "skip", "script",
                 "interrupted", "died"}

Init ==
  /\ pc = "idle" /\ code = "none" /\ kit = "ts-next" /\ url = "unset" /\ todo = 0
  /\ mine = NoSandbox /\ evidence = FALSE /\ cleaned = FALSE
  /\ pending = FALSE /\ redacting = FALSE
  /\ venv \in {"none", "full"}
  /\ alive = {} /\ born = {} /\ used = {}
  /\ repo = "none" /\ path = {} /\ built = "none" /\ tested = "none" /\ kills = 0

Goto(p) == pc' = p /\ UNCHANGED <<code, pending>>
Exit(c) == pc' = "idle" /\ code' = c /\ UNCHANGED pending

(* A new run of the script; its driver starts with nothing. *)
Fresh ==
  /\ pending' = FALSE /\ todo' = 0 /\ evidence' = FALSE /\ redacting' = FALSE
  /\ cleaned' = FALSE /\ kills' = 0 /\ mine' = NoSandbox /\ born' = {}
  /\ repo' = "none" /\ path' = {} /\ built' = "none" /\ tested' = "none"
  /\ UNCHANGED <<alive, venv, used>>

(* run.sh without E2B_API_KEY. *)
SkipWithoutKey ==
  /\ pc = "idle"
  /\ code' = "skip"
  /\ Fresh
  /\ UNCHANGED <<pc, kit, url>>

(* run.sh with a key, or as a dry run. *)
Start(k, u, dry) ==
  /\ pc = "idle"
  /\ used # Sandboxes
  /\ pc' = IF dry THEN "dry" ELSE IF venv = "none" THEN "venv" ELSE "plan"
  /\ code' = "none"
  /\ kit' = k /\ url' = u
  /\ Fresh

(* python3 -m venv.  It writes bin/python early, so a failure may leave    *)
(* the very file that the script looks for.                                *)
MakeVenv ==
  /\ pc = "venv"
  /\ \/ venv' = "bare" /\ Goto("pip")
     \/ venv' \in {"none", "bare"} /\ Exit("script")
  /\ UNCHANGED <<mine, alive, local, ended, used, born, inside>>

(* The two calls of pip; set -e ends the script when one fails. *)
PipInstall ==
  /\ pc = "pip"
  /\ \/ venv' = "full" /\ Goto("plan")
     \/ UNCHANGED venv /\ Exit("script")
  /\ UNCHANGED <<mine, alive, local, ended, used, born, inside>>

(* --dry-run: build_plan and nothing else. *)
RenderDryRun ==
  /\ pc = "dry"
  /\ Exit("planned") \/ Exit("setup")
  /\ UNCHANGED <<mine, alive, local, ended, world, inside>>

(* build_plan and resolve_timeouts; main turns their ValueError, or an     *)
(* OSError, into exit status 2.                                            *)
BuildPlan ==
  /\ pc = "plan"
  /\ Goto("create") \/ Exit("setup")
  /\ UNCHANGED <<mine, alive, local, ended, world, inside>>

(* An exception within the first try of run_real: logged, then the finally.*)
Raise == Goto("kill")

CreateFails ==
  /\ pc = "create"
  /\ Raise
  /\ UNCHANGED <<mine, alive, local, ended, world, inside>>

Obtained(s) ==
  /\ pc = "create"
  /\ venv = "full"
  /\ s \in Sandboxes \ used
  /\ used' = used \cup {s} /\ born' = born \cup {s} /\ alive' = alive \cup {s}

(* The factory: without the SDK it raises; the provider may refuse; its    *)
(* answer may be lost after it has created the sandbox, also because an    *)
(* interrupt comes before the assignment.                                  *)
Create(s) ==
  /\ Obtained(s)
  /\ mine' = s
  /\ path' \in BaseImages(kit)
  /\ Goto("created")
  /\ UNCHANGED <<local, ended, venv, repo, built, tested>>

(* A slip in CreateLost: a creation that nobody acknowledged is tried      *)
(* again.                                                                  *)
CreateRetried(s) ==
  /\ Obtained(s)
  /\ Goto("create")
  /\ UNCHANGED <<mine, local, ended, venv, inside>>

CreateLost(s) ==
  /\ Obtained(s)
  /\ pc' = "kill" /\ pending' \in BOOLEAN /\ UNCHANGED code
  /\ UNCHANGED <<mine, local, ended, venv, inside>>

(* _RUN_REDACTIONS.set: from here on the identifier is scrubbed.           *)
RegisterName ==
  /\ pc = "created"
  /\ redacting' = TRUE
  /\ Goto("stage")
  /\ UNCHANGED <<mine, alive, kit, url, todo, evidence, ended, world, inside>>

(* Any step of execute_in_sandbox that raises: a command that exits        *)
(* non-zero under require_zero, times out or finds the sandbox gone, a     *)
(* check of its output that fails, a local file that cannot be read.       *)
StepRaises ==
  /\ pc \in Executing
  /\ Raise
  /\ UNCHANGED <<mine, alive, local, ended, world, inside>>

Succeeds == mine \in alive /\ UNCHANGED <<mine, alive, ended, world>>

(* stage_fixture: only ts-next clones; a clone that exits non-zero falls   *)
(* back to the local fixture.                                              *)
StageFixture ==
  /\ pc = "stage"
  /\ Succeeds
  /\ IF kit = "ts-next" /\ url # "unset"
       THEN \/ Goto("base") /\ repo' = "remote"
            \/ Goto("local") /\ UNCHANGED repo
       ELSE Goto("local") /\ UNCHANGED repo
  /\ UNCHANGED <<local, path, built, tested>>

StageLocal ==
  /\ pc = "local"
  /\ Succeeds
  /\ Goto("base") /\ repo' = "local"
  /\ UNCHANGED <<local, path, built, tested>>

(* A slip in EstablishCleanBase: trust the removal.                        *)
CleanBaseUnchecked ==
  /\ pc = "base"
  /\ Succeeds
  /\ path' \in {path, path \ {"preload"}}
  /\ Goto("install") /\ todo' = Installs
  /\ UNCHANGED <<kit, url, evidence, redacting, repo, built, tested>>

(* establish_clean_base: the removal may not take, so what is left is      *)
(* looked at.  A swift outside of swiftly may stay.  The detection that    *)
(* follows reads the plan's files again and cannot come out differently.   *)
EstablishCleanBase ==
  /\ pc = "base"
  /\ Succeeds
  /\ path' \in {path, path \ {"preload"}}
  /\ path' \cap {"preload", "manager"} = {}
  /\ Goto("install") /\ todo' = Installs
  /\ UNCHANGED <<kit, url, evidence, redacting, repo, built, tested>>

(* provision.  A command may exit 0 and leave no usable toolchain behind   *)
(* (curl into a shell): the version check is there for that.               *)
ToolchainInstall ==
  /\ pc = "install"
  /\ Succeeds
  /\ path' \in {path, path \cup {"kit"}}
  /\ IF todo > 1 THEN Goto("install") /\ todo' = todo - 1
                 ELSE Goto("post") /\ todo' = Posts
  /\ UNCHANGED <<kit, url, evidence, redacting, repo, built, tested>>

PostAcquire ==
  /\ pc = "post"
  /\ Succeeds
  /\ IF todo > 1 THEN Goto("post") /\ todo' = todo - 1
                 ELSE Goto("version") /\ todo' = 0
  /\ UNCHANGED <<kit, url, evidence, redacting, inside>>

(* A slip in VerifyVersion: only the version is looked at.                 *)
VersionAnywhere ==
  /\ pc = "version"
  /\ Succeeds
  /\ Finds(path) # {}
  /\ Goto("build")
  /\ UNCHANGED <<local, inside>>

(* The version command and validate_version_output: the pattern may not    *)
(* match, and swift has to be found below swiftly.                         *)
VerifyVersion ==
  /\ pc = "version"
  /\ Succeeds
  /\ \E tool \in Finds(path) : tool # "compiler"
  /\ Goto("build")
  /\ UNCHANGED <<local, inside>>

VerifyBuild ==
  /\ pc = "build"
  /\ Succeeds
  /\ built' \in Finds(path)
  /\ Goto("test")
  /\ UNCHANGED <<local, repo, path, tested>>

(* The test, its marker, and the ProofEvidence that is returned.           *)
VerifyTest ==
  /\ pc = "test"
  /\ Succeeds
  /\ tested' \in Finds(path)
  /\ evidence' = TRUE
  /\ Goto("kill")
  /\ UNCHANGED <<kit, url, todo, redacting, repo, path, built>>

(* Where the finally ends: with an exception on its way out the rest of    *)
(* run_real does not happen.                                               *)
Unwind == IF pending THEN Exit("interrupted") ELSE Goto("verdict")

NothingToKill ==
  /\ pc = "kill"
  /\ mine = NoSandbox
  /\ Unwind
  /\ UNCHANGED <<mine, alive, local, ended, world, inside>>

Kill ==
  /\ pc = "kill"
  /\ mine # NoSandbox
  /\ alive' = alive \ {mine}
  /\ cleaned' = TRUE /\ kills' = kills + 1
  /\ Unwind
  /\ UNCHANGED <<mine, local, world, inside>>

(* A slip in KillRaises: cleaning up is claimed all the same.             *)
KillClaimed ==
  /\ pc = "kill"
  /\ mine # NoSandbox
  /\ alive' \in {alive, alive \ {mine}}
  /\ kills' = kills + 1 /\ cleaned' = TRUE
  /\ Unwind
  /\ UNCHANGED <<mine, local, world, inside>>
(* kill raises, with or without the sandbox gone. *)
KillRaises ==
  /\ pc = "kill"
  /\ mine # NoSandbox
  /\ alive' \in {alive, alive \ {mine}}
  /\ kills' = kills + 1 /\ UNCHANGED cleaned
  /\ Unwind
  /\ UNCHANGED <<mine, local, world, inside>>

(* A slip in Verdict: a teardown that failed is tried again, without end.  *)
VerdictRetries ==
  /\ pc = "verdict"
  /\ IF evidence /\ ~cleaned
       THEN Goto("kill") /\ kills' = 0 /\ UNCHANGED redacting
       ELSE Exit(IF evidence THEN "ok" ELSE "fail") /\ redacting' = FALSE /\ UNCHANGED kills
  /\ UNCHANGED <<mine, alive, kit, url, todo, evidence, cleaned, world, inside>>

(* The summary, or FAIL; then the redactions are reset. *)
Verdict ==
  /\ pc = "verdict"
  /\ Exit(IF evidence /\ cleaned THEN "ok" ELSE "fail")
  /\ redacting' = FALSE
  /\ UNCHANGED <<mine, alive, kit, url, todo, evidence, ended, world, inside>>

(* A KeyboardInterrupt, which except Exception does not catch: inside the  *)
(* first try it runs the finally, inside the finally it ends that too.     *)
Interrupt ==
  /\ \/ pc \in Driving /\ pc' = "kill" /\ pending' = TRUE /\ UNCHANGED <<code, redacting>>
     \/ pc \in {"venv", "pip", "dry", "plan", "kill"} /\ Exit("interrupted") /\ UNCHANGED redacting
     \/ pc = "verdict" /\ Exit("interrupted") /\ redacting' = FALSE
  /\ UNCHANGED <<mine, alive, kit, url, todo, evidence, ended, world, inside>>

(* SIGKILL, or the machine. *)
Dies ==
  /\ pc # "idle"
  /\ Exit("died")
  /\ UNCHANGED <<mine, alive, local, ended, world, inside>>

(* The time a sandbox was created with is up. *)
Expires(s) ==
  /\ s \in alive
  /\ alive' = alive \ {s}
  /\ UNCHANGED <<pc, code, pending, mine, local, ended, world, inside>>

(* What the script and the driver do of their own accord.                 *)
Step ==
  \/ MakeVenv \/ PipInstall \/ RenderDryRun \/ BuildPlan
  \/ CreateFails \/ \E s \in Sandboxes : Create(s) \/ CreateLost(s)
  \/ RegisterName
  \/ StepRaises
  \/ StageFixture \/ StageLocal \/ EstablishCleanBase
  \/ ToolchainInstall \/ PostAcquire
  \/ VerifyVersion \/ VerifyBuild \/ VerifyTest
  \/ NothingToKill \/ Kill \/ KillRaises \/ Verdict

Next ==
  \/ SkipWithoutKey
  \/ \E k \in Kits, u \in Urls, dry \in BOOLEAN : Start(k, u, dry)
  \/ Step
  \/ Interrupt \/ Dies
  \/ \E s \in Sandboxes : Expires(s)

Spec == Init /\ [][Next]_vars

(* Every command has a timeout, and so has every sandbox. *)
Fairness ==
  /\ WF_vars(Step)
  /\ \A s \in Sandboxes : WF_vars(Expires(s))

FairSpec == Spec /\ Fairness

-----------------------------------------------------------------------------
(* Every variable keeps its type.                                          *)
TypeOK ==
  /\ pc \in Stops /\ code \in Codes /\ kit \in Kits /\ url \in Urls
  /\ todo \in Nat
  /\ mine \in Sandboxes \cup {NoSandbox}
  /\ evidence \in BOOLEAN /\ cleaned \in BOOLEAN /\ pending \in BOOLEAN
  /\ redacting \in BOOLEAN
  /\ venv \in {"none", "bare", "full"}
  /\ alive \in SUBSET Sandboxes /\ born \in SUBSET Sandboxes /\ used \in SUBSET Sandboxes
  /\ repo \in {"none", "local", "remote"}
  /\ path \in SUBSET Origins
  /\ built \in Origins \cup {"none"} /\ tested \in Origins \cup {"none"}
  /\ kills \in {0, 1}

(* The sandbox of a run from its creation to the teardown.                 *)
SandboxInv ==
  /\ born \subseteq used /\ alive \subseteq used
  /\ mine # NoSandbox => born = {mine}
  /\ pc \in {"venv", "pip", "dry", "plan", "create"} => mine = NoSandbox /\ born = {}
  /\ pc \in {"created"} \cup Executing => mine # NoSandbox
  /\ pc \in {"venv", "pip", "dry", "plan"} \cup Driving => ~evidence
  /\ pc \notin {"idle", "verdict"} => kills = 0 /\ ~cleaned
  /\ pc = "verdict" => (kills = 1 <=> mine # NoSandbox)
  /\ pc \notin {"idle", "kill"} => ~pending
  /\ cleaned => mine # NoSandbox /\ mine \notin alive

(* What has been done in it, by where the driver is.                       *)
ProgressInv ==
  /\ pc \in {"base"} \cup Provisioning \cup Verifying => repo # "none"
  /\ pc \in Provisioning \cup Verifying => path \subseteq {"compiler", "kit"}
  /\ pc \in {"build", "test"} => "kit" \in path
  /\ pc = "test" => built = "kit"
  /\ evidence => mine # NoSandbox /\ repo # "none" /\ built = "kit" /\ tested = "kit"

CodeInv ==
  /\ pc # "idle" => code = "none"
  /\ code = "ok" => evidence /\ cleaned
  /\ code \in {"ok", "fail"} => (kills = 1 <=> mine # NoSandbox)
  /\ code \in {"setup", "planned", "skip", "script"} => born = {} /\ mine = NoSandbox

(* The redactions are set whenever the driver may print an error of the    *)
(* provider about its sandbox, up to the end of the verdict, and reset     *)
(* when run_real returns: text that names the sandbox is never printed as  *)
(* it is.  The exception is an interrupt, which may come before they are.  *)
RedactionScope ==
  /\ pc \in Executing => redacting
  /\ pc \in {"kill", "verdict"} /\ mine # NoSandbox /\ ~pending => redacting
  /\ code \in {"ok", "fail"} => ~redacting

(* The inductive invariant.                                                *)
IInv == TypeOK /\ SandboxInv /\ ProgressInv /\ CodeInv /\ RedactionScope

(* PASS is claimed only for a repository that was built and tested with    *)
(* the toolchain the kit installed, not one that came with the image, and  *)
(* only when the sandbox is gone.                                          *)
ProofIsReal ==
  code = "ok" =>
    /\ repo # "none" /\ built = "kit" /\ tested = "kit"
    /\ born = {mine} /\ mine \notin alive

(* A run that returns has called kill exactly once for the sandbox it      *)
(* knew of; one that it leaves running is one whose kill raised or one     *)
(* whose creation was never acknowledged, and the run says FAIL.           *)
NothingLeftRunning ==
  code \in {"ok", "fail"} =>
    /\ mine # NoSandbox => kills = 1
    /\ born \cap alive # {} => code = "fail" /\ (mine = NoSandbox \/ ~cleaned)

(* Status 2, and every exit of run.sh itself, mean that nothing was        *)
(* created: a failure inside a sandbox is never reported as one of setup.  *)
SetupCreatesNothing ==
  code \in {"setup", "planned", "skip", "script"} => born = {}

(* What costs money: a run creates one sandbox at most, also when the      *)
(* provider's answer was lost or an interrupt came in between (run_real).  *)
OneSandboxPerRun == \A s, r \in born : s = r

(* How much of the script and its driver is still to come, at most.        *)
StopsLeft ==
  [idle |-> 0, dry |-> 1, verdict |-> 1, kill |-> 2, test |-> 3, build |-> 4,
   version |-> 5, post |-> 5, install |-> 5 + Posts, base |-> 6 + Posts + Installs,
   local |-> 7 + Posts + Installs, stage |-> 8 + Posts + Installs,
   created |-> 9 + Posts + Installs, create |-> 10 + Posts + Installs,
   plan |-> 11 + Posts + Installs, pip |-> 12 + Posts + Installs,
   venv |-> 13 + Posts + Installs]

Left == StopsLeft[pc] + (IF pc \in Provisioning THEN todo ELSE 0)

(* No command, clean-up or verdict is tried again: whatever raises and     *)
(* whenever the operator interrupts, each step of a run leaves less of it, *)
(* and only the expiry of a sandbox leaves the run where it is.            *)
RunsGoDown ==
  [][pc # "idle" => Left' < Left \/ \E s \in Sandboxes : Expires(s)]_vars

(* Whatever fails, a run ends, and so does every sandbox: the one that     *)
(* nobody killed when its time is up.                                      *)
RunsAndSandboxesEnd ==
  /\ pc # "idle" ~> pc = "idle"
  /\ \A s \in Sandboxes : s \in alive ~> s \notin alive

(* "kit no longer matches staged fixture files" (kit_toolchain_e2b.py):    *)
(* what is provisioned for is a repository that the kit was detected in.   *)
DetectedBeforeProvision ==
  pc \in Provisioning /\ repo = "remote" => url = "matching"

=============================================================================
