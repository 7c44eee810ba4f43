--------------------------- MODULE ManagedProcess ---------------------------
(***************************************************************************)
(* What a smoke test is promised by SpawnDaemon and LiveDaemon.Stop, with  *)
(* no mention of ports, probes, signals, timers or goroutines:             *)
(*                                                                         *)
(*   - SpawnDaemon ends in a handle or in an error, and an error means     *)
(*     that no child process is left behind;                               *)
(*   - whoever Stop returns to may rely on the child being gone (reaped,   *)
(*     so that its pid answers ESRCH);                                     *)
(*   - a child that is gone stays gone.                                    *)
(*                                                                         *)
(* DaemonLifecycle implements this specification.                          *)
(***************************************************************************)

CONSTANTS
  Tests,     \* the tests that each want one daemon of their own
  Callers    \* the call sites of Stop in a test (deferred, explicit, ...)

VARIABLES
  phase,     \* [Tests -> Phases]: what the test holds
  proc,      \* [Tests -> Procs]: the child process of the test
  returned   \* [Tests -> SUBSET Callers]: the call sites Stop returned to

vars == <<phase, proc, returned>>

Phases == {"absent", "starting", "handle", "error"}
Procs  == {"none", "present", "gone"}

Init ==
  /\ phase    = [t \in Tests |-> "absent"]
  /\ proc     = [t \in Tests |-> "none"]
  /\ returned = [t \in Tests |-> {}]

(* The test asks for a daemon. *)
Begin(t) ==
  /\ phase[t] = "absent"
  /\ phase' = [phase EXCEPT ![t] = "starting"]
  /\ UNCHANGED <<proc, returned>>

(* One child process, once. *)
Launch(t) ==
  /\ phase[t] = "starting"
  /\ proc[t] = "none"
  /\ proc' = [proc EXCEPT ![t] = "present"]
  /\ UNCHANGED <<phase, returned>>

(* The child is reaped, before, while or after it is asked to stop. *)
Reap(t) ==
  /\ proc[t] = "present"
  /\ proc' = [proc EXCEPT ![t] = "gone"]
  /\ UNCHANGED <<phase, returned>>

(* A handle always comes with a child somebody still has to reap. *)
GiveHandle(t) ==
  /\ phase[t] = "starting"
  /\ proc[t] = "present"
  /\ phase' = [phase EXCEPT ![t] = "handle"]
  /\ UNCHANGED <<proc, returned>>

(* An error, also one before anything was started, comes with no child. *)
GiveError(t) ==
  /\ phase[t] \in {"absent", "starting"}
  /\ proc[t] # "present"
  /\ phase' = [phase EXCEPT ![t] = "error"]
  /\ UNCHANGED <<proc, returned>>

(* Stop returns, to any call site, only when the child is gone. *)
StopReturns(t, c) ==
  /\ phase[t] = "handle"
  /\ proc[t] = "gone"
  /\ returned' = [returned EXCEPT ![t] = @ \cup {c}]
  /\ UNCHANGED <<phase, proc>>

Next ==
  \E t \in Tests :
    \/ Begin(t) \/ Launch(t) \/ Reap(t)
    \/ GiveHandle(t) \/ GiveError(t)
    \/ \E c \in Callers : StopReturns(t, c)

Spec == Init /\ [][Next]_vars

=============================================================================
