------------------------------ MODULE HostStep ------------------------------
(***************************************************************************)
(* A step that works on the daemon of the host it runs on, as the harness  *)
(* package has its callers write one: DaemonAvailable tells how the daemon *)
(* is reached, WaitFor waits for it, and RunCleanups tears down what the   *)
(* step and earlier runs left, the daemon among it.  The process may die   *)
(* at any point, and be run again for the cleanup alone.                   *)
(*                                                                         *)
(* Every command goes through os/exec with a context that kills the child  *)
(* at its deadline; Run still waits until whoever inherited the child's    *)
(* output lets it go, since no WaitDelay is set.                           *)
(***************************************************************************)
EXTENDS WaitFor, Sequences

CONSTANTS
  Leftovers,  \* what the caller's own hooks tear down, one each
  Daemon,     \* the hook that calls StopAndUninstallDaemon
  NilHook,    \* a nil in the list of hooks
  Hooks,      \* the list
  Hosts,      \* the machines and callers to look at
  NoWait,     \* a caller that does not wait
  MaxRuns     \* bound: how often the step is run

Cleanups == {"stop", "uninstall", "legacy"}
Commands == {"probe"} \cup Cleanups

(* cli: what the CLI on PATH is like: none, one that does not advertise    *)
(* the daemon subcommand, one that does.  legacy: the standalone binary is *)
(* named and on PATH.  argvs: the commands that the caller gave; an empty  *)
(* one is not run.  wait: the arguments of WaitFor.                        *)
Host == [cli : {"absent", "old", "serves"}, legacy : BOOLEAN,
         argvs : SUBSET Cleanups, dry : BOOLEAN, wait : {NoWait} \cup (Nat \X Nat)]

ASSUME HostAssumption ==
  /\ Daemon \notin Leftovers /\ NilHook \notin Leftovers /\ Daemon # NilHook
  /\ Hooks \in Seq(Leftovers \cup {Daemon, NilHook})
  /\ \A h \in Leftovers \cup {Daemon} : \E i \in DOMAIN Hooks : Hooks[i] = h
  /\ Hosts \subseteq Host
  /\ NoWait \notin Nat \X Nat
  /\ MaxRuns \in Nat

VARIABLES
  host,   \* the machine and the caller
  left,   \* the leftovers that are still there
  unit,   \* the shape the daemon is installed in, or "none"
  runs,   \* how often the step was run
  pc,     \* what the process is about, "idle" when there is none
  mode,   \* the DaemonMode that was detected
  hook,   \* the hook RunCleanups is at
  errs,   \* the hooks that returned an error
  report, \* what RunCleanups returned
  proc,   \* the command under way: "none", "runs", "exited"
  held,   \* a descendant of it holds its output
  code,   \* whether it succeeded
  failed  \* the commands that have failed in this run

hostVars == <<left, unit>>
pass      == <<mode, hook, errs, report>>
command   == <<proc, held, code, failed>>
vars      == <<host, hostVars, runs, pc, pass, command, waitVars>>

Init ==
  /\ host \in Hosts
  /\ left \in SUBSET Leftovers
  /\ unit \in {"none", "cli", "legacy"}
  /\ runs = 0 /\ pc = "idle"
  /\ mode = "absent" /\ hook = 1 /\ errs = {} /\ report = "none"
  /\ proc = "none" /\ held = FALSE /\ code = "ok" /\ failed = {}
  /\ w = "off" /\ now = 0 /\ end = 0 /\ nap = 0 /\ lastErr = FALSE
  /\ from = 0 /\ saw = FALSE /\ since = 0 /\ ready \in BOOLEAN

Start ==
  /\ pc = "idle" /\ runs < MaxRuns
  /\ runs' = runs + 1 /\ pc' = "detect"
  /\ mode' = "absent" /\ hook' = 1 /\ errs' = {} /\ report' = "none"
  /\ failed' = {}
  /\ UNCHANGED <<host, hostVars, proc, held, code, waitVars>>

-----------------------------------------------------------------------------
(* Commands.                                                               *)

Spawns(c) == pc' = c /\ proc' = "runs" /\ code' = "ok" /\ UNCHANGED <<held, failed>>

(* What command c leaves of a daemon installed as u. *)
After(c, u) ==
  IF <<c, u>> \in {<<"uninstall", "cli">>, <<"legacy", "legacy">>} THEN "none" ELSE u

(* The child exits; one that fails may have done its work.                 *)
Exits ==
  /\ proc = "runs"
  /\ proc' = "exited"
  /\ \/ code' = "ok"  /\ unit' = After(pc, unit)
     \/ code' = "err" /\ unit' \in {unit, After(pc, unit)}
  /\ UNCHANGED <<host, left, runs, pc, pass, held, failed, waitVars>>

(* A slip in Expires: Run takes exec.Command, as the probe does not.       *)
OnlyProbeExpires ==
  /\ proc = "runs" /\ pc = "probe"
  /\ proc' = "exited" /\ code' = "err"
  /\ UNCHANGED <<host, hostVars, runs, pc, pass, held, failed, waitVars>>

(* The deadline of the context: the child is killed. *)
Expires ==
  /\ proc = "runs"
  /\ proc' = "exited" /\ code' = "err"
  /\ UNCHANGED <<host, hostVars, runs, pc, pass, held, failed, waitVars>>

Forks ==
  /\ proc = "runs" /\ ~held
  /\ held' = TRUE
  /\ UNCHANGED <<host, hostVars, runs, pc, pass, proc, code, failed, waitVars>>

LetsGo ==
  /\ held
  /\ held' = FALSE
  /\ UNCHANGED <<host, hostVars, runs, pc, pass, proc, code, failed, waitVars>>

(* Run returns to the caller at c. *)
Returned(c) == pc = c /\ proc = "exited" /\ ~held
Failed(c)   == IF code = "ok" THEN failed ELSE failed \cup {c}
Closes(c)   == proc' = "none" /\ failed' = Failed(c) /\ UNCHANGED <<held, code>>

-----------------------------------------------------------------------------
(* DaemonAvailable, which knows neither DryRun nor BinaryOverride.         *)

Fallback == IF host.legacy THEN "binary" ELSE "absent"

(* The wait belongs to the step proper, which a re-run for the cleanup     *)
(* leaves out.                                                             *)
AfterDetection == IF host.wait # NoWait /\ runs = 1 THEN "wait" ELSE "hooks"

Detect ==
  /\ pc = "detect"
  /\ IF host.cli = "absent"
       THEN mode' = Fallback /\ pc' = AfterDetection /\ UNCHANGED command
       ELSE Spawns("probe") /\ UNCHANGED mode
  /\ UNCHANGED <<host, hostVars, runs, hook, errs, report, waitVars>>

ProbeReturns ==
  /\ Returned("probe")
  /\ Closes("probe")
  /\ mode' = IF code = "ok" /\ host.cli = "serves" THEN "subcommand" ELSE Fallback
  /\ pc' = AfterDetection
  /\ UNCHANGED <<host, hostVars, runs, hook, errs, report, waitVars>>

(* WaitFor; whether it found the daemon or gave up, the step cleans up.    *)
Waits ==
  /\ pc = "wait"
  /\ WaitBegin(host.wait[1], host.wait[2]) \/ WaitStep
  /\ UNCHANGED <<host, hostVars, runs, pc, pass, command>>
DaemonComesOrGoes ==
  /\ Flips
  /\ UNCHANGED <<host, hostVars, runs, pc, pass, command>>
WaitOver ==
  /\ pc = "wait" /\ w \in {"nil", "timeout"}
  /\ pc' = "hooks" /\ Off
  /\ UNCHANGED <<host, hostVars, runs, pass, command, ready>>

-----------------------------------------------------------------------------
(* RunCleanups.                                                            *)

At(h) == pc = "hooks" /\ hook \in DOMAIN Hooks /\ Hooks[hook] = h
NextHook == pc' = "hooks" /\ hook' = hook + 1

SkipNil ==
  /\ At(NilHook)
  /\ NextHook
  /\ UNCHANGED <<host, hostVars, runs, mode, errs, report, command, waitVars>>

(* A slip in RunHook: the first error ends the loop.                       *)
ErrorEndsLoop(h) ==
  /\ At(h)
  /\ \/ NextHook /\ UNCHANGED errs /\ left' = IF host.dry THEN left ELSE left \ {h}
     \/ pc' = "hooks" /\ hook' = Len(Hooks) + 1 /\ errs' = errs \cup {h}
        /\ left' \in {left, left \ {h}}
  /\ UNCHANGED <<host, unit, runs, mode, report, command, waitVars>>

(* A hook of the caller's returns nil, its leftover gone, or an error.  In *)
(* a dry run its commands return nil and do nothing.                       *)
RunHook(h) ==
  /\ At(h)
  /\ NextHook
  /\ \/ UNCHANGED errs /\ left' = IF host.dry THEN left ELSE left \ {h}
     \/ errs' = errs \cup {h} /\ left' \in {left, left \ {h}}
  /\ UNCHANGED <<host, unit, runs, mode, report, command, waitVars>>

(* StopAndUninstallDaemon: neither error is passed on. *)
Issued == IF host.dry THEN {} ELSE host.argvs
UninstallCmd ==
  IF mode = "binary" /\ "legacy" \in host.argvs THEN "legacy" ELSE "uninstall"

DaemonHook ==
  /\ At(Daemon)
  /\ IF "stop" \in Issued THEN Spawns("stop") /\ UNCHANGED hook
     ELSE IF UninstallCmd \in Issued THEN Spawns(UninstallCmd) /\ UNCHANGED hook
     ELSE NextHook /\ UNCHANGED command
  /\ UNCHANGED <<host, hostVars, runs, mode, errs, report, waitVars>>

(* A slip in StopReturns: no uninstall after a stop that failed.           *)
FailedStopReturns ==
  /\ Returned("stop")
  /\ failed' = Failed("stop")
  /\ IF UninstallCmd \in Issued /\ code = "ok"
       THEN pc' = UninstallCmd /\ proc' = "runs" /\ UNCHANGED hook
       ELSE NextHook /\ proc' = "none"
  /\ code' = "ok"
  /\ UNCHANGED <<host, hostVars, runs, mode, errs, report, held, waitVars>>

StopReturns ==
  /\ Returned("stop")
  /\ failed' = Failed("stop")
  /\ IF UninstallCmd \in Issued
       THEN pc' = UninstallCmd /\ proc' = "runs" /\ UNCHANGED hook
       ELSE NextHook /\ proc' = "none"
  /\ code' = "ok"
  /\ UNCHANGED <<host, hostVars, runs, mode, errs, report, held, waitVars>>

UninstallReturns ==
  /\ \E c \in {"uninstall", "legacy"} : Returned(c) /\ Closes(c)
  /\ NextHook
  /\ UNCHANGED <<host, hostVars, runs, mode, errs, report, waitVars>>

RunCleanupsReturns ==
  /\ pc = "hooks" /\ hook \notin DOMAIN Hooks
  /\ report' = IF errs = {} THEN "nil" ELSE "error"
  /\ pc' = "idle"
  /\ UNCHANGED <<host, hostVars, runs, mode, hook, errs, command, waitVars>>

(* The process dies; a command under way may still do its work.            *)
Crash ==
  /\ pc # "idle"
  /\ pc' = "idle" /\ proc' = "none" /\ held' = FALSE
  /\ unit' \in IF proc = "runs" THEN {unit, After(pc, unit)} ELSE {unit}
  /\ Off
  /\ UNCHANGED <<host, left, runs, pass, code, failed, ready>>

(* What the program does by itself, and the end of every command.          *)
Step ==
  \/ Detect \/ Expires \/ ProbeReturns \/ Waits \/ WaitOver
  \/ SkipNil \/ (\E h \in Leftovers : RunHook(h)) \/ DaemonHook
  \/ StopReturns \/ UninstallReturns \/ RunCleanupsReturns

Next ==
  \/ Start \/ Step \/ Exits \/ Forks \/ LetsGo \/ DaemonComesOrGoes \/ Crash
  \/ pc = "idle" /\ runs = MaxRuns /\ UNCHANGED vars

(* The process is scheduled, fn and the hooks return, the context's timer  *)
(* fires.  Nothing makes a descendant let go, or anyone run the step again.*)
Spec == Init /\ [][Next]_vars /\ WF_vars(Step)

-----------------------------------------------------------------------------
(* Properties.                                                             *)

TypeOK ==
  /\ host \in Hosts /\ left \in SUBSET Leftovers
  /\ unit \in {"none", "cli", "legacy"}
  /\ runs \in Nat
  /\ pc \in {"idle", "detect", "wait", "hooks"} \cup Commands
  /\ mode \in {"absent", "subcommand", "binary"}
  /\ hook \in Nat \ {0} /\ errs \in SUBSET Leftovers
  /\ report \in {"none", "nil", "error"}
  /\ proc \in {"none", "runs", "exited"} /\ held \in BOOLEAN
  /\ code \in {"ok", "err"} /\ failed \in SUBSET Commands
  /\ WaitType

(* The mode is the one of the host, unless the probe has failed. *)
Serves == host.cli = "serves"
ModeInv ==
  (pc \notin {"idle", "detect", "probe"} \/ report # "none") =>
    mode = IF Serves /\ "probe" \notin failed THEN "subcommand" ELSE Fallback

(* The command that ought to remove the unit has failed, or the failed     *)
(* probe has sent the uninstall to the legacy command.                     *)
Excused ==
  /\ unit = "cli" /\ Serves /\ "uninstall" \in host.argvs =>
       \/ "uninstall" \in failed
       \/ host.legacy /\ "legacy" \in host.argvs /\ "probe" \in failed
  /\ unit = "legacy" /\ ~Serves /\ host.legacy /\ "legacy" \in host.argvs =>
       "legacy" \in failed

(* What the hooks behind RunCleanups have achieved.                        *)
BehindInv ==
  \A i \in DOMAIN Hooks :
    i < hook /\ ~host.dry =>
      /\ Hooks[i] \in Leftovers /\ Hooks[i] \in left => Hooks[i] \in errs
      /\ Hooks[i] = Daemon => Excused

PcInv ==
  /\ proc # "none" <=> pc \in Commands
  /\ held => proc # "none"
  /\ IF pc = "wait" THEN host.wait # NoWait ELSE w = "off"
  /\ pc \in Cleanups => ~host.dry /\ hook \in DOMAIN Hooks /\ Hooks[hook] = Daemon
  /\ pc \in {"detect", "probe"} => hook = 1 /\ errs = {} /\ failed = {}
  /\ pc \in {"uninstall", "legacy"} => pc = UninstallCmd
  /\ pc # "idle" => report = "none"
  /\ pc \in {"uninstall", "legacy"} /\ proc = "exited" /\ code = "ok" =>
       unit # IF pc = "uninstall" THEN "cli" ELSE "legacy"
  /\ report # "none" => hook \notin DOMAIN Hooks /\ (report = "nil" <=> errs = {})

IInv == TypeOK /\ WaitInv /\ PcInv /\ ModeInv /\ BehindInv

(* When RunCleanups returns, every hook has run: what a hook has failed to *)
(* tear down is named in its error, whatever failed before it and however  *)
(* often the process died and was run again; nil means that it is all gone.*)
ReportNamesLeftovers ==
  report # "none" /\ ~host.dry =>
    /\ left \subseteq errs
    /\ report = "nil" => left = {}

(* A daemon installed in the shape that its host has is left behind only   *)
(* when the uninstall of that shape has itself failed, or the probe has    *)
(* while a legacy binary is about: never for a stop that failed, a hook    *)
(* that failed before it, a daemon already stopped or a crash.             *)
DaemonLeftHasReason ==
  report # "none" /\ ~host.dry => Excused

(* Teardown only takes away, over any number of runs, failures and crashes:*)
(* no leftover comes back and no daemon changes its shape; and a dry run,  *)
(* which probes the CLI all the same, leaves the daemon as it is.          *)
OnlyTearsDown ==
  [][ /\ left' \subseteq left
      /\ unit' \in {unit, "none"}
      /\ host.dry => unit' = unit]_vars

(* What of a run is still to come: the hooks, and in the one it is at how  *)
(* far its commands are.                                                   *)
Slot ==
  CASE pc = "detect" -> 9
    [] pc = "probe" -> IF proc = "runs" THEN 8 ELSE 7
    [] pc = "wait" -> 6
    [] pc = "hooks" -> 5
    [] pc = "stop" -> IF proc = "runs" THEN 4 ELSE 3
    [] OTHER -> IF proc = "runs" THEN 2 ELSE 1

StepLeft == IF pc = "idle" THEN 0 ELSE 5 * (Len(Hooks) + 1 - hook) + Slot

(* No command, hook or wait is gone back to: whatever fails, each step of  *)
(* a run leaves less of it, but for those of the wait (WaitGoesDown) and   *)
(* for a descendant that takes or lets go of the output.                   *)
StepGoesDown ==
  [][pc # "idle" =>
       \/ StepLeft' < StepLeft
       \/ Forks \/ LetsGo \/ DaemonComesOrGoes \/ Waits]_vars

(* A step that was begun comes to its end, or to a crash, unless a         *)
(* descendant of one of its commands keeps the output for ever.            *)
EndsUnlessHeld == []<>~held => (pc # "idle" ~> pc = "idle")

=============================================================================
