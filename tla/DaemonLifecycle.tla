-------------------------- MODULE DaemonLifecycle --------------------------
(***************************************************************************)
(* The life of the daemon processes that smoke tests start and stop        *)
(* through the harness: LiveDaemonWithConfig (harness/live_daemon.go),     *)
(* PickFreePort (harness/port.go), SpawnDaemon and LiveDaemon.Stop         *)
(* (harness/spawn.go), WaitForDaemonHealthz (harness/healthz.go), and the  *)
(* cleanups the testing package runs last-in-first-out.                    *)
(*                                                                         *)
(* Several tests may be under way (go test runs packages in parallel), and *)
(* in each of them several goroutines may call Stop.  Around them run the  *)
(* child processes, workers the children leave behind, and foreign         *)
(* processes that bind loopback ports.  Timers are events that may fire at *)
(* any moment after they are armed: nothing is assumed of their order with *)
(* what they race against.                                                 *)
(***************************************************************************)
EXTENDS SequencesExt

CONSTANTS
  Tests,        \* tests that each start one daemon
  Callers,      \* goroutines of a test that may call Stop
  Cleanup,      \* the member of Callers that is t.Cleanup(live.Stop)
  Ports,        \* loopback ports the kernel hands out
  ForeignPorts, \* the ports processes outside the suite may bind
  Nobody,       \* no process
  Foreign       \* a process the suite did not start

ASSUME CleanupAssumption == Cleanup \in Callers
ASSUME PortAssumption == ForeignPorts \subseteq Ports
ASSUME OwnerAssumption ==
  /\ Nobody \notin Tests
  /\ Foreign \notin Tests
  /\ Nobody # Foreign

VARIABLES
  pc,        \* [Tests -> PC]: where the test is
  port,      \* [Tests -> Ports \cup {Nobody}]: what PickFreePort returned
  owner,     \* [Ports -> Owners]: who listens on a port
  child,     \* [Tests -> Child]: the process behind cmd.Process
  sig,       \* [Tests -> SUBSET Signals]: signals delivered to it
  worker,    \* [Tests -> BOOLEAN]: a descendant holds the log pipe open
  answer,    \* [Tests -> Owners]: who sent the 200 in flight to the poll
  stop,      \* [Tests -> StopPC]: the one call of stopFn
  wait,      \* [Tests -> WaitPC]: the goroutine that runs cmd.Wait
  once,      \* [Tests -> OncePC]: stopOnce; "none" before there is a handle
  caller,    \* [Tests -> [Callers -> CallerPC]]: the calls of Stop
  cleanups,  \* [Tests -> Seq(Hooks)]: registered with t.Cleanup
  home       \* [Tests -> Home]: the test's t.TempDir

testVars  == <<pc, cleanups, home>>
osVars    == <<owner, child, sig, worker>>
spawnVars == <<port, answer>>
stopVars  == <<stop, wait, once, caller>>
vars      == <<testVars, osVars, spawnVars, stopVars>>

PC       == {"idle", "picked", "ready", "polling", "stopping", "failed",
             "live", "cleaning", "done"}
Child    == {"none", "booting", "serving", "zombie", "reaped"}
Alive    == {"booting", "serving"}
Signals  == {"TERM", "KILL"}
StopPC   == {"idle", "called", "select", "killed", "returned"}
WaitPC   == {"none", "blocked", "copying", "sent"}
OncePC   == {"none", "fresh", "running", "done"}
CallerPC == {"idle", "blocked", "inside", "returned"}
Home     == {"none", "present", "removed"}
Hooks    == {"RemoveAll", "Stop"}
Owners   == Tests \cup {Nobody, Foreign}

Init ==
  /\ pc       = [t \in Tests |-> "idle"]
  /\ port     = [t \in Tests |-> Nobody]
  /\ owner    = [p \in Ports |-> Nobody]
  /\ child    = [t \in Tests |-> "none"]
  /\ sig      = [t \in Tests |-> {}]
  /\ worker   = [t \in Tests |-> FALSE]
  /\ answer   = [t \in Tests |-> Nobody]
  /\ stop     = [t \in Tests |-> "idle"]
  /\ wait     = [t \in Tests |-> "none"]
  /\ once     = [t \in Tests |-> "none"]
  /\ caller   = [t \in Tests |-> [c \in Callers |-> "idle"]]
  /\ cleanups = [t \in Tests |-> <<>>]
  /\ home     = [t \in Tests |-> "none"]

-----------------------------------------------------------------------------
(* LiveDaemonWithConfig up to the call of SpawnDaemon.                     *)

(* The kernel hands out a port nobody listens on; the probe listener is    *)
(* closed before the port is returned, so the port is not reserved.        *)
PickFreePort(t) ==
  /\ pc[t] = "idle"
  /\ \E p \in Ports :
       /\ owner[p] = Nobody
       /\ port' = [port EXCEPT ![t] = p]
  /\ pc' = [pc EXCEPT ![t] = "picked"]
  /\ UNCHANGED <<cleanups, home, osVars, answer, stopVars>>

PickFails(t) ==
  /\ pc[t] = "idle"
  /\ pc' = [pc EXCEPT ![t] = "failed"]
  /\ UNCHANGED <<cleanups, home, osVars, spawnVars, stopVars>>

(* t.TempDir registers its own RemoveAll; then daemon.yaml is written,     *)
(* and failing to write it is fatal to the test.                           *)
MakeHome(t) ==
  /\ pc[t] = "picked"
  /\ home' = [home EXCEPT ![t] = "present"]
  /\ cleanups' = [cleanups EXCEPT ![t] = Append(@, "RemoveAll")]
  /\ \E after \in {"ready", "failed"} : pc' = [pc EXCEPT ![t] = after]
  /\ UNCHANGED <<osVars, spawnVars, stopVars>>

-----------------------------------------------------------------------------
(* SpawnDaemon.                                                            *)

StartChild(t) ==
  /\ pc[t] = "ready"
  /\ child' = [child EXCEPT ![t] = "booting"]
  /\ pc' = [pc EXCEPT ![t] = "polling"]
  /\ UNCHANGED <<cleanups, home, owner, sig, worker, spawnVars, stopVars>>

(* A rejected option or a failing cmd.Start: nothing was started.          *)
StartFails(t) ==
  /\ pc[t] = "ready"
  /\ pc' = [pc EXCEPT ![t] = "failed"]
  /\ UNCHANGED <<cleanups, home, osVars, spawnVars, stopVars>>

(* One /healthz request of the poll loop is answered 200 by whoever is     *)
(* listening on the port at that moment.  A refused connection, a foreign  *)
(* answer other than 200 and the ticker leave the loop as it is.           *)
ProbeAnswered(t) ==
  /\ pc[t] = "polling"
  /\ owner[port[t]] # Nobody
  /\ answer' = [answer EXCEPT ![t] = owner[port[t]]]
  /\ UNCHANGED <<testVars, osVars, port, stopVars>>

(* A slip in HealthzOK: the home is registered for removal after Stop was. *)
StopHookedFirst(t) ==
  /\ pc[t] = "polling"
  /\ answer[t] # Nobody
  /\ pc' = [pc EXCEPT ![t] = "live"]
  /\ once' = [once EXCEPT ![t] = "fresh"]
  /\ cleanups' = [cleanups EXCEPT ![t] = <<"Stop">> \o @]
  /\ UNCHANGED <<home, osVars, spawnVars, stop, wait, caller>>

(* WaitForDaemonHealthz returns nil: SpawnDaemon builds the handle and     *)
(* LiveDaemonWithConfig registers t.Cleanup(live.Stop).                    *)
HealthzOK(t) ==
  /\ pc[t] = "polling"
  /\ answer[t] # Nobody
  /\ pc' = [pc EXCEPT ![t] = "live"]
  /\ once' = [once EXCEPT ![t] = "fresh"]
  /\ cleanups' = [cleanups EXCEPT ![t] = Append(@, "Stop")]
  /\ UNCHANGED <<home, osVars, spawnVars, stop, wait, caller>>

(* A slip in HealthzTimeout: the error returned without stopFn.            *)
TimeoutLeavesChild(t) ==
  /\ pc[t] = "polling"
  /\ pc' = [pc EXCEPT ![t] = "failed"]
  /\ UNCHANGED <<cleanups, home, osVars, spawnVars, stopVars>>

(* The health deadline fires, or the caller's context is cancelled, also   *)
(* while an answer is on its way: stopFn is called inline.                 *)
HealthzTimeout(t) ==
  /\ pc[t] = "polling"
  /\ pc' = [pc EXCEPT ![t] = "stopping"]
  /\ stop' = [stop EXCEPT ![t] = "called"]
  /\ UNCHANGED <<cleanups, home, osVars, spawnVars, wait, once, caller>>

(* stopFn has returned: SpawnDaemon returns its error, t.Fatalf follows.   *)
SpawnFails(t) ==
  /\ pc[t] = "stopping"
  /\ stop[t] = "returned"
  /\ pc' = [pc EXCEPT ![t] = "failed"]
  /\ UNCHANGED <<cleanups, home, osVars, spawnVars, stopVars>>

-----------------------------------------------------------------------------
(* stopFn.  os.Process delivers a signal to a live child, drops it on a    *)
(* zombie, and answers ErrProcessDone once the child has been reaped; the  *)
(* code ignores all three results.                                         *)
Deliver(t, s) ==
  IF child[t] \in Alive THEN sig' = [sig EXCEPT ![t] = @ \cup {s}]
                        ELSE UNCHANGED sig

(* SIGTERM, then the goroutine that calls cmd.Wait.                        *)
StopSignals(t) ==
  /\ stop[t] = "called"
  /\ Deliver(t, "TERM")
  /\ wait' = [wait EXCEPT ![t] = "blocked"]
  /\ stop' = [stop EXCEPT ![t] = "select"]
  /\ UNCHANGED <<testVars, owner, child, worker, spawnVars, once, caller>>

(* select: cmd.Wait has reported.                                          *)
StopGraceful(t) ==
  /\ stop[t] = "select"
  /\ wait[t] = "sent"
  /\ stop' = [stop EXCEPT ![t] = "returned"]
  /\ UNCHANGED <<testVars, osVars, spawnVars, wait, once, caller>>

(* A slip in StopGraceExpires: the branch waits on without the kill.       *)
GraceWithoutKill(t) ==
  /\ stop[t] = "select"
  /\ stop' = [stop EXCEPT ![t] = "killed"]
  /\ UNCHANGED <<testVars, osVars, spawnVars, wait, once, caller>>

(* select: the grace timer fires, also when cmd.Wait has just reported.    *)
StopGraceExpires(t) ==
  /\ stop[t] = "select"
  /\ Deliver(t, "KILL")
  /\ stop' = [stop EXCEPT ![t] = "killed"]
  /\ UNCHANGED <<testVars, owner, child, worker, spawnVars, wait, once, caller>>

(* A slip in StopAfterKill: the final <-done is missing.                   *)
KillWithoutWait(t) ==
  /\ stop[t] = "killed"
  /\ stop' = [stop EXCEPT ![t] = "returned"]
  /\ UNCHANGED <<testVars, osVars, spawnVars, wait, once, caller>>

(* <-done after the kill, with no second deadline.                         *)
StopAfterKill(t) ==
  /\ stop[t] = "killed"
  /\ wait[t] = "sent"
  /\ stop' = [stop EXCEPT ![t] = "returned"]
  /\ UNCHANGED <<testVars, osVars, spawnVars, wait, once, caller>>

(* cmd.Wait reaps the child ...                                            *)
WaitReaps(t) ==
  /\ wait[t] = "blocked"
  /\ child[t] = "zombie"
  /\ child' = [child EXCEPT ![t] = "reaped"]
  /\ wait' = [wait EXCEPT ![t] = "copying"]
  /\ UNCHANGED <<testVars, owner, sig, worker, spawnVars, stop, once, caller>>

(* ... and, LogSink being a pipe and WaitDelay unset, returns only at the  *)
(* end of the child's output, when no descendant holds the pipe.           *)
WaitReturns(t) ==
  /\ wait[t] = "copying"
  /\ ~worker[t]
  /\ wait' = [wait EXCEPT ![t] = "sent"]
  /\ UNCHANGED <<testVars, osVars, spawnVars, stop, once, caller>>

-----------------------------------------------------------------------------
(* LiveDaemon.Stop: stopOnce.Do(stopFn).                                   *)

(* Slips in Stop: a boolean guard set before stopFn instead of sync.Once,  *)
(* and no guard at all.                                                    *)
StopBooleanGuard(t, c) ==
  /\ caller[t][c] = "idle"
  /\ once[t] # "none"
  /\ IF once[t] = "fresh"
       THEN /\ caller' = [caller EXCEPT ![t][c] = "inside"]
            /\ once' = [once EXCEPT ![t] = "running"]
            /\ stop' = [stop EXCEPT ![t] = "called"]
       ELSE /\ caller' = [caller EXCEPT ![t][c] = "returned"]
            /\ UNCHANGED <<once, stop>>
  /\ UNCHANGED <<testVars, osVars, spawnVars, wait>>

StopUnguarded(t, c) ==
  /\ caller[t][c] = "idle"
  /\ once[t] # "none"
  /\ caller' = [caller EXCEPT ![t][c] = "inside"]
  /\ once' = [once EXCEPT ![t] = "running"]
  /\ stop' = [stop EXCEPT ![t] = "called"]
  /\ UNCHANGED <<testVars, osVars, spawnVars, wait>>

(* A call of Stop: the first one runs stopFn, one that arrives while it    *)
(* runs waits for it, a later one returns at once.                         *)
Stop(t, c) ==
  /\ caller[t][c] = "idle"
  /\ once[t] # "none"
  /\ caller' = [caller EXCEPT ![t][c] =
                  CASE once[t] = "fresh"   -> "inside"
                    [] once[t] = "running" -> "blocked"
                    [] once[t] = "done"    -> "returned"]
  /\ IF once[t] = "fresh"
       THEN /\ once' = [once EXCEPT ![t] = "running"]
            /\ stop' = [stop EXCEPT ![t] = "called"]
       ELSE UNCHANGED <<once, stop>>
  /\ UNCHANGED <<testVars, osVars, spawnVars, wait>>

(* The caller that ran stopFn leaves Do.                                   *)
StopDone(t, c) ==
  /\ caller[t][c] = "inside"
  /\ stop[t] = "returned"
  /\ caller' = [caller EXCEPT ![t][c] = "returned"]
  /\ once' = [once EXCEPT ![t] = "done"]
  /\ UNCHANGED <<testVars, osVars, spawnVars, stop, wait>>

(* The callers that waited for it leave too.                               *)
StopWaited(t, c) ==
  /\ caller[t][c] = "blocked"
  /\ once[t] = "done"
  /\ caller' = [caller EXCEPT ![t][c] = "returned"]
  /\ UNCHANGED <<testVars, osVars, spawnVars, stop, wait, once>>

(* Stop called by the body of the test, in whatever goroutine of it.       *)
BodyStops(t, c) ==
  /\ pc[t] \in {"live", "cleaning"}
  /\ c # Cleanup
  /\ Stop(t, c)

-----------------------------------------------------------------------------
(* The end of a test.                                                      *)

(* The body returns, or a t.Fatalf ends it.                                *)
TestEnds(t) ==
  /\ pc[t] \in {"live", "failed"}
  /\ pc' = [pc EXCEPT ![t] = "cleaning"]
  /\ UNCHANGED <<cleanups, home, osVars, spawnVars, stopVars>>

CleanupStops(t) ==
  /\ pc[t] = "cleaning"
  /\ cleanups[t] # <<>>
  /\ Last(cleanups[t]) = "Stop"
  /\ Stop(t, Cleanup)

CleanupStopped(t) ==
  /\ pc[t] = "cleaning"
  /\ cleanups[t] # <<>>
  /\ Last(cleanups[t]) = "Stop"
  /\ caller[t][Cleanup] = "returned"
  /\ cleanups' = [cleanups EXCEPT ![t] = Front(@)]
  /\ UNCHANGED <<pc, home, osVars, spawnVars, stopVars>>

CleanupRemovesHome(t) ==
  /\ pc[t] = "cleaning"
  /\ cleanups[t] # <<>>
  /\ Last(cleanups[t]) = "RemoveAll"
  /\ home' = [home EXCEPT ![t] = "removed"]
  /\ cleanups' = [cleanups EXCEPT ![t] = Front(@)]
  /\ UNCHANGED <<pc, osVars, spawnVars, stopVars>>

TestDone(t) ==
  /\ pc[t] = "cleaning"
  /\ cleanups[t] = <<>>
  /\ pc' = [pc EXCEPT ![t] = "done"]
  /\ UNCHANGED <<cleanups, home, osVars, spawnVars, stopVars>>

-----------------------------------------------------------------------------
(* The processes around the harness.                                       *)

(* The child binds its port if it is still free and then serves /healthz;  *)
(* a child that finds it taken stays unhealthy or exits.                   *)
ChildBinds(t) ==
  /\ child[t] = "booting"
  /\ owner[port[t]] = Nobody
  /\ owner' = [owner EXCEPT ![port[t]] = t]
  /\ child' = [child EXCEPT ![t] = "serving"]
  /\ UNCHANGED <<testVars, sig, worker, spawnVars, stopVars>>

(* A serving child starts a worker that inherits its stdout.               *)
ChildForks(t) ==
  /\ child[t] = "serving"
  /\ ~worker[t]
  /\ worker' = [worker EXCEPT ![t] = TRUE]
  /\ UNCHANGED <<testVars, owner, child, sig, spawnVars, stopVars>>

WorkerExits(t) ==
  /\ worker[t]
  /\ worker' = [worker EXCEPT ![t] = FALSE]
  /\ UNCHANGED <<testVars, owner, child, sig, spawnVars, stopVars>>

Dies(t) ==
  /\ child[t] \in Alive
  /\ child' = [child EXCEPT ![t] = "zombie"]
  /\ owner' = [p \in Ports |-> IF owner[p] = t THEN Nobody ELSE owner[p]]
  /\ UNCHANGED <<testVars, sig, worker, spawnVars, stopVars>>

(* On its own account, or in answer to SIGTERM, which it may ignore.       *)
ChildExits(t) == "KILL" \notin sig[t] /\ Dies(t)

ChildKilled(t) == "KILL" \in sig[t] /\ Dies(t)

ForeignBinds(p) ==
  /\ p \in ForeignPorts
  /\ owner[p] = Nobody
  /\ owner' = [owner EXCEPT ![p] = Foreign]
  /\ UNCHANGED <<testVars, child, sig, worker, spawnVars, stopVars>>

ForeignReleases(p) ==
  /\ owner[p] = Foreign
  /\ owner' = [owner EXCEPT ![p] = Nobody]
  /\ UNCHANGED <<testVars, child, sig, worker, spawnVars, stopVars>>

-----------------------------------------------------------------------------
SpawnStep(t) ==
  \/ PickFreePort(t) \/ PickFails(t) \/ MakeHome(t)
  \/ StartChild(t) \/ StartFails(t)
  \/ ProbeAnswered(t) \/ HealthzOK(t) \/ HealthzTimeout(t) \/ SpawnFails(t)

StopStep(t) ==
  \/ StopSignals(t) \/ StopGraceful(t) \/ StopGraceExpires(t) \/ StopAfterKill(t)
  \/ WaitReaps(t) \/ WaitReturns(t)
  \/ \E c \in Callers : StopDone(t, c) \/ StopWaited(t, c)

EndStep(t) ==
  TestEnds(t) \/ CleanupStops(t) \/ CleanupStopped(t)
              \/ CleanupRemovesHome(t) \/ TestDone(t)

ProcessStep(t) ==
  ChildBinds(t) \/ ChildForks(t) \/ WorkerExits(t) \/ ChildExits(t) \/ ChildKilled(t)

Finished == \A t \in Tests : pc[t] = "done"

Next ==
  \/ \E t \in Tests :
       \/ SpawnStep(t) \/ StopStep(t) \/ EndStep(t) \/ ProcessStep(t)
       \/ \E c \in Callers : BodyStops(t, c)
  \/ \E p \in Ports : ForeignBinds(p) \/ ForeignReleases(p)
  \/ Finished /\ UNCHANGED vars

Spec == Init /\ [][Next]_vars

(* The Go scheduler runs every goroutine that can run, armed timers fire,  *)
(* test bodies end (go test -timeout) and the kernel ends a killed child.  *)
(* Nothing is assumed of the child otherwise: it may never bind, ignore    *)
(* SIGTERM and leave a worker for ever.                                    *)
Fairness ==
  \A t \in Tests :
    /\ WF_vars(PickFreePort(t) \/ PickFails(t))
    /\ WF_vars(MakeHome(t))
    /\ WF_vars(StartChild(t) \/ StartFails(t))
    /\ WF_vars(HealthzOK(t) \/ HealthzTimeout(t))
    /\ WF_vars(SpawnFails(t))
    /\ WF_vars(StopStep(t))
    /\ WF_vars(EndStep(t))
    /\ WF_vars(ChildKilled(t))

FairSpec == Spec /\ Fairness

-----------------------------------------------------------------------------
(* Properties.                                                             *)

(* The stacks of cleanups a test can have. *)
NoHooks   == <<>>
HomeHook  == <<"RemoveAll">>
BothHooks == <<"RemoveAll", "Stop">>
Stacks    == {NoHooks, HomeHook, BothHooks}

(* Every variable keeps its type.                                          *)
TypeOK ==
  /\ pc       \in [Tests -> PC]
  /\ port     \in [Tests -> Ports \cup {Nobody}]
  /\ owner    \in [Ports -> Owners]
  /\ child    \in [Tests -> Child]
  /\ sig      \in [Tests -> SUBSET Signals]
  /\ worker   \in [Tests -> BOOLEAN]
  /\ answer   \in [Tests -> Owners]
  /\ stop     \in [Tests -> StopPC]
  /\ wait     \in [Tests -> WaitPC]
  /\ once     \in [Tests -> OncePC]
  /\ caller   \in [Tests -> [Callers -> CallerPC]]
  /\ cleanups \in [Tests -> Stacks]
  /\ home     \in [Tests -> Home]

(* The parts of the inductive invariant, one per mechanism, for a test t.  *)

(* stopOnce: before the handle nobody can call Stop, one caller at a time  *)
(* is inside Do, and nobody has left it before stopFn has returned.        *)
OnceInv(t) ==
  /\ pc[t] = "live" => once[t] # "none"
  /\ pc[t] \notin {"live", "cleaning", "done"} => once[t] = "none"
  /\ once[t] = "fresh" => stop[t] = "idle"
  /\ once[t] = "done" => stop[t] = "returned"
  /\ once[t] = "running" => stop[t] # "idle"
  /\ \A c \in Callers :
       /\ caller[t][c] = "inside" => once[t] = "running"
       /\ caller[t][c] = "blocked" => once[t] \in {"running", "done"}
       /\ caller[t][c] = "returned" => once[t] = "done"
       /\ \A d \in Callers :
            caller[t][c] = "inside" /\ caller[t][d] = "inside" => c = d

(* cmd.Wait: it runs from the SIGTERM on, it and nothing else reaps, and   *)
(* stopFn returns after it has seen the end of the output.                 *)
WaitInv(t) ==
  /\ wait[t] = "none" <=> stop[t] \in {"idle", "called"}
  /\ child[t] = "reaped" <=> wait[t] \in {"copying", "sent"}
  /\ stop[t] # "idle" => child[t] # "none"
  /\ wait[t] = "sent" => ~worker[t]
  /\ stop[t] = "returned" => wait[t] = "sent"

(* SpawnDaemon: a child from cmd.Start on, and stopFn has run to its end   *)
(* before an error is returned.                                            *)
SpawnInv(t) ==
  /\ pc[t] \in {"idle", "picked", "ready"} => child[t] = "none"
  /\ pc[t] \in {"picked", "ready", "polling"} => port[t] \in Ports
  /\ pc[t] = "polling" => child[t] # "none" /\ stop[t] = "idle"
  /\ pc[t] = "stopping" => stop[t] # "idle"
  /\ once[t] # "none" => child[t] # "none"
  /\ pc[t] \in {"failed", "cleaning", "done"} /\ once[t] = "none" =>
       child[t] \in {"none", "reaped"} /\ stop[t] \in {"idle", "returned"}
  /\ child[t] = "none" => ~worker[t]
  /\ \A p \in Ports : owner[p] = t => child[t] = "serving"

(* t.Cleanup: the home goes last, after Stop has returned if there was a   *)
(* handle.                                                                 *)
CleanupInv(t) ==
  /\ pc[t] \in {"idle", "picked", "done"} => cleanups[t] = NoHooks
  /\ pc[t] \in {"ready", "polling", "stopping"} => cleanups[t] = HomeHook
  /\ pc[t] = "failed" => cleanups[t] # BothHooks
  /\ pc[t] = "live" => cleanups[t] = BothHooks
  /\ pc[t] \in {"cleaning", "done"} /\ cleanups[t] # BothHooks =>
       once[t] \in {"none", "done"}
  /\ home[t] = "removed" => pc[t] \in {"cleaning", "done"} /\ cleanups[t] = NoHooks

(* Where every goroutine, child and cleanup is.                            *)
ControlInv ==
  /\ TypeOK
  /\ \A t \in Tests : OnceInv(t) /\ WaitInv(t) /\ SpawnInv(t) /\ CleanupInv(t)

(* Who listens where: a child serves on its own port or not at all, and a  *)
(* 200 the poll took came from whoever held that port when it was asked.   *)
AddressInv(t) ==
  /\ child[t] # "none" => port[t] \in Ports
  /\ child[t] = "serving" => owner[port[t]] = t
  /\ \A p \in Ports : owner[p] = t => port[t] = p
  /\ answer[t] # Nobody => pc[t] \notin {"idle", "picked", "ready"}
  /\ answer[t] = Foreign => port[t] \in ForeignPorts
  /\ answer[t] \in Tests =>
       child[answer[t]] # "none" /\ port[answer[t]] = port[t]
  /\ once[t] # "none" => answer[t] # Nobody

(* The inductive invariant.                                                *)
IInv ==
  /\ ControlInv
  /\ \A t \in Tests : AddressInv(t)
  /\ \A p \in Ports : owner[p] = Foreign => p \in ForeignPorts

(* SpawnDaemon returns an error only when no process of its own is left:   *)
(* none was started, or stopFn has run to its end and the child is reaped. *)
FailedSpawnLeavesNoChild ==
  \A t \in Tests : pc[t] = "failed" => child[t] \in {"none", "reaped"}

(* "Stop returns once the process is reaped": to every caller, the one     *)
(* that ran stopFn and those that raced with it or came later, and the     *)
(* port is then no longer bound by this child.                             *)
StopMeansReaped ==
  \A t \in Tests : \A c \in Callers :
    caller[t][c] = "returned" =>
      /\ child[t] = "reaped"
      /\ \A p \in Ports : owner[p] # t

(* The test's temporary home is deleted only when neither the daemon nor a *)
(* worker that still writes to its log is left to write under it.          *)
HomeRemovedAfterWriters ==
  \A t \in Tests :
    home[t] = "removed" => child[t] \in {"none", "reaped"} /\ ~worker[t]

(* cmd.Wait is called at most once on a daemon, however many goroutines    *)
(* call Stop: a goroutine that has been in Wait never starts over.         *)
WaitOnce ==
  [][\A t \in Tests :
       wait[t] \in {"copying", "sent"} => wait'[t] # "blocked"]_vars

(* How far each of a test's goroutines, its child and its home have come.  *)
PCRank     == [idle |-> 0, picked |-> 1, ready |-> 2, polling |-> 3, stopping |-> 4,
               failed |-> 5, live |-> 6, cleaning |-> 7, done |-> 8]
StopRank   == [idle |-> 0, called |-> 1, select |-> 2, killed |-> 3, returned |-> 4]
WaitRank   == [none |-> 0, blocked |-> 1, copying |-> 2, sent |-> 3]
OnceRank   == [none |-> 0, fresh |-> 1, running |-> 2, done |-> 3]
CallerRank == [idle |-> 0, blocked |-> 1, inside |-> 1, returned |-> 2]
ChildRank  == [none |-> 0, booting |-> 1, serving |-> 2, zombie |-> 3, reaped |-> 4]
HomeRank   == [none |-> 0, present |-> 1, removed |-> 2]

(* A step of the suite leaves each part of test t as it is or moves it on. *)
Advances(rank, from, to) == from = to \/ rank[from] < rank[to]

Forward(t) ==
  /\ Advances(PCRank, pc[t], pc'[t])
  /\ Advances(StopRank, stop[t], stop'[t])
  /\ Advances(WaitRank, wait[t], wait'[t])
  /\ Advances(OnceRank, once[t], once'[t])
  /\ Advances(ChildRank, child[t], child'[t])
  /\ Advances(HomeRank, home[t], home'[t])
  /\ \A c \in Callers : Advances(CallerRank, caller[t][c], caller'[t][c])
  /\ pc[t] \in {"cleaning", "done"} =>
       cleanups'[t] \in {cleanups[t], Front(cleanups[t])}

(* No part of a test, a stop or a child starts over, whatever the order in *)
(* which deadlines, signals and callers of Stop come: stopFn runs once and *)
(* cmd.Wait is called once, a reaped child is not started again, a removed *)
(* home does not come back, and no cleanup is pushed while they run.  As   *)
(* each of these orders is finite, each part can move only so often.       *)
NothingStartsOver == [][\A t \in Tests : Forward(t)]_vars

(* The process answering on LiveDaemon.URL is the child LiveDaemon.Cmd.    *)
UrlServedByChild ==
  \A t \in Tests : once[t] # "none" => answer[t] = t

(* When it is not, somebody took the port between PickFreePort and the     *)
(* bind: a process outside the suite on a port such processes may bind, or *)
(* the child of another test that was handed the same port.                *)
UrlServedByTaker ==
  \A t \in Tests :
    once[t] # "none" =>
      \/ answer[t] = t
      \/ answer[t] = Foreign /\ port[t] \in ForeignPorts
      \/ \E u \in Tests \ {t} : answer[t] = u /\ port[u] = port[t]

(* A test whose daemon ignores SIGTERM, never becomes healthy or crashes   *)
(* still comes to its end, and every call of Stop it made returns; only a  *)
(* descendant that keeps the log pipe open for ever can hold them.         *)
HangsOnlyOnHeldPipe ==
  \A t \in Tests :
    \/ /\ <>(pc[t] = "done")
       /\ \A c \in Callers : <>[](caller[t][c] \in {"idle", "returned"})
    \/ <>[]worker[t]

(* What the tests are promised, in terms of this module's state.           *)
PhaseOf(t) ==
  IF once[t] # "none" THEN "handle"
  ELSE IF pc[t] = "idle" THEN "absent"
  ELSE IF pc[t] \in {"picked", "ready", "polling", "stopping"} THEN "starting"
  ELSE "error"

ProcOf(t) ==
  IF child[t] = "none" THEN "none"
  ELSE IF child[t] = "reaped" THEN "gone"
  ELSE "present"

Session ==
  INSTANCE ManagedProcess WITH
    phase    <- [t \in Tests |-> PhaseOf(t)],
    proc     <- [t \in Tests |-> ProcOf(t)],
    returned <- [t \in Tests |-> {c \in Callers : caller[t][c] = "returned"}]

(* The harness implements ManagedProcess.                                  *)
ImplementsSession == Session!Spec

=============================================================================
