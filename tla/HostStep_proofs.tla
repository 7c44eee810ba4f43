--------------------------- MODULE HostStep_proofs ---------------------------
(***************************************************************************)
(* Proofs about HostStep, for every list of hooks, every machine and every *)
(* deadline, interval, duration of a call and lag of a sleep.              *)
(***************************************************************************)
EXTENDS HostStep, TLAPS

-----------------------------------------------------------------------------
(* WaitFor.                                                                *)

Waiting == WaitType /\ WaitInv /\ SteadyIsFound /\ GivesUpInTime

(* The call: whatever the caller asks for, the deadline is not 0.          *)
LEMMA WaitingBegins ==
  ASSUME Waiting, NEW d \in Nat, NEW i \in Nat, WaitBegin(d, i)
  PROVE  Waiting'
<1>1. /\ AtLeast(d, MinDeadline) \in Nat \ {0}
      /\ AtLeast(i, MinInterval) \in Nat /\ MinInterval <= AtLeast(i, MinInterval)
  BY WaitAssumption DEF AtLeast
<1>2. PICK deadline \in Nat \ {0}, interval \in Nat :
        end' = deadline /\ nap' = interval /\ MinInterval <= interval
  BY <1>1 DEF WaitBegin
<1>3. /\ w = "off" /\ w' = "check" /\ now' = now /\ lastErr' = lastErr /\ from' = from
      /\ saw' = saw /\ ready' = ready /\ since' = since
  BY DEF WaitBegin, condition
<1>4. now = 0 /\ since = 0 /\ ~lastErr
  BY <1>3 DEF Waiting, WaitInv
<1>5. WaitType'
  BY <1>2, <1>3 DEF Waiting, WaitType
<1>6. SteadyIsFound' /\ GivesUpInTime'
  BY <1>3 DEF SteadyIsFound, GivesUpInTime
<1>7. 0 < deadline + MaxCall + interval + MaxLag /\ 0 <= MaxCall + interval + MaxLag
  BY WaitAssumption
<1>8. /\ 0 < end' /\ now' < end' + MaxCall + nap' + MaxLag
      /\ now' <= since' + MaxCall + nap' + MaxLag /\ now' = 0 /\ since' = 0
      /\ MinInterval <= nap' /\ ~lastErr'
  BY <1>2, <1>3, <1>4, <1>7, WaitAssumption
<1>9. WaitInv'
  BY <1>3, <1>8 DEF WaitInv
<1> QED
  BY <1>5, <1>6, <1>9 DEF Waiting

(* A step of WaitFor and of the world it looks at.                         *)
LEMMA WaitingGoesOn ==
  ASSUME Waiting, NEW d \in Nat, NEW i \in Nat,
         WaitBegin(d, i) \/ WaitStep \/ Flips
  PROVE  Waiting'
<1>1. CASE WaitBegin(d, i)
  BY <1>1, WaitingBegins
<1> USE WaitAssumption DEF Waiting, WaitType, WaitInv, SteadyIsFound, GivesUpInTime, condition
<1>2. CASE Check
  BY <1>2 DEF Check
<1>3. CASE Looks
  BY <1>3 DEF Looks
<1>4. CASE Returns
  <2>1. CASE saw
    BY <1>4, <2>1 DEF Returns
  <2>2. CASE ~saw
    <3>1. /\ w = "looked" /\ w' = "sleep" /\ lastErr' = TRUE /\ from' = now
          /\ UNCHANGED <<now, end, nap, saw, ready, since>>
      BY <1>4, <2>2 DEF Returns
    <3>2. /\ now < end + MaxCall
          /\ ready => now <= since + MaxCall
      BY <2>2, <3>1
    <3> QED
      BY <3>1, <3>2
  <2> QED
    BY <2>1, <2>2
<1>5. CASE Wakes
  BY <1>5 DEF Wakes
<1>6. CASE Tick
  BY <1>6 DEF Tick
<1>7. CASE Flips
  BY <1>7 DEF Flips
<1> QED
  BY <1>1, <1>2, <1>3, <1>4, <1>5, <1>6, <1>7 DEF WaitStep

LEMMA WaitingOff ==
  ASSUME Waiting, Off, ready' \in BOOLEAN
  PROVE  Waiting'
<1>1. /\ w' = "off" /\ now' = 0 /\ end' = 0 /\ nap' = 0
      /\ lastErr' = FALSE /\ from' = 0 /\ saw' = FALSE /\ since' = 0
  BY DEF Off
<1>2. WaitType'
  BY <1>1 DEF WaitType
<1>3. WaitInv'
  BY <1>1 DEF WaitInv
<1>4. SteadyIsFound' /\ GivesUpInTime'
  BY <1>1 DEF SteadyIsFound, GivesUpInTime
<1> QED
  BY <1>2, <1>3, <1>4 DEF Waiting

LEMMA WaitingUnchanged ==
  ASSUME Waiting, UNCHANGED waitVars
  PROVE  Waiting'
BY DEF Waiting, WaitType, WaitInv, SteadyIsFound, GivesUpInTime, waitVars, condition

-----------------------------------------------------------------------------
(* The step.                                                               *)

Types ==
  /\ host \in Hosts /\ left \in SUBSET Leftovers
  /\ unit \in {"none", "cli", "legacy"}
  /\ runs \in Nat
  /\ pc \in {"idle", "detect", "wait", "hooks"} \cup Commands
  /\ mode \in {"absent", "subcommand", "binary"}
  /\ hook \in Nat \ {0} /\ errs \in SUBSET Leftovers
  /\ report \in {"none", "nil", "error"}
  /\ proc \in {"none", "runs", "exited"} /\ held \in BOOLEAN
  /\ code \in {"ok", "err"} /\ failed \in SUBSET Commands

Inv == Types /\ Waiting /\ PcInv /\ ModeInv /\ BehindInv

(* What a hook must have achieved when RunCleanups goes past it.           *)
Achieved(h, l, e) ==
  /\ h \in Leftovers /\ h \in l => h \in e
  /\ h = Daemon => Excused

(* RunCleanups goes on to the next hook.                                   *)
LEMMA BehindNext ==
  ASSUME Types, BehindInv, hook \in DOMAIN Hooks, hook' = hook + 1,
         left' \subseteq left, errs \subseteq errs',
         Excused => Excused', host' = host,
         ~host.dry => /\ Hooks[hook] \in Leftovers /\ Hooks[hook] \in left' => Hooks[hook] \in errs'
                      /\ Hooks[hook] = Daemon => Excused'
  PROVE  BehindInv'
<1>1. DOMAIN Hooks \subseteq Nat
  BY HostAssumption
<1>2. ASSUME NEW i \in DOMAIN Hooks, i < hook + 1, ~host.dry
      PROVE  /\ Hooks[i] \in Leftovers /\ Hooks[i] \in left' => Hooks[i] \in errs'
             /\ Hooks[i] = Daemon => Excused'
  <2>1. i < hook \/ i = hook
    BY <1>1, <1>2 DEF Types
  <2>2. CASE i < hook
    BY <1>2, <2>2 DEF BehindInv
  <2>3. CASE i = hook
    BY <1>2, <2>3
  <2> QED
    BY <2>1, <2>2, <2>3
<1> QED
  BY <1>2 DEF BehindInv

(* It stays where it is.                                                   *)
LEMMA BehindStays ==
  ASSUME BehindInv, hook' = hook, left' = left, errs' = errs,
         Excused => Excused', host' = host
  PROVE  BehindInv'
BY DEF BehindInv

(* A command may take the unit away, and may fail; neither makes a daemon  *)
(* that was excused one that is not.                                       *)
LEMMA ExcusedStays ==
  ASSUME Excused, host' = host, failed \subseteq failed', unit' \in {unit, "none"}
  PROVE  Excused'
BY DEF Excused, Serves

LEMMA AfterIsNone ==
  ASSUME NEW c \in Commands, Types
  PROVE  After(c, unit) \in {unit, "none"}
BY DEF After, Types, Commands, Cleanups

(* The uninstall command that the mode calls for, run to its end or not    *)
(* given by the caller, leaves a daemon only with an excuse.               *)
LEMMA UninstallExcuses ==
  ASSUME Types, NEW u \in {"none", "cli", "legacy"}, NEW f \in SUBSET Commands,
         failed \subseteq f,
         mode = IF Serves /\ "probe" \notin failed THEN "subcommand" ELSE Fallback,
         \/ UninstallCmd \notin host.argvs
         \/ UninstallCmd \in f
         \/ u # IF UninstallCmd = "uninstall" THEN "cli" ELSE "legacy",
         host' = host, unit' = u, failed' = f
  PROVE  Excused'
<1>1. CASE mode = "binary" /\ "legacy" \in host.argvs
  <2>1. host.legacy /\ (Serves => "probe" \in f)
    BY <1>1 DEF Fallback
  <2>2. UninstallCmd = "legacy"
    BY <1>1 DEF UninstallCmd
  <2> QED
    BY <1>1, <2>1, <2>2 DEF Excused, Serves
<1>2. CASE ~(mode = "binary" /\ "legacy" \in host.argvs)
  <2>1. UninstallCmd = "uninstall"
    BY <1>2 DEF UninstallCmd
  <2>2. ~(~Serves /\ host.legacy /\ "legacy" \in host.argvs)
    BY <1>2 DEF Fallback
  <2> QED
    BY <2>1, <2>2 DEF Excused, Serves
<1> QED
  BY <1>1, <1>2

(* The inductive invariant. *)
THEOREM Invariance == Spec => []Inv
<1>1. Init => Inv
  <2> SUFFICES ASSUME Init PROVE Inv
    OBVIOUS
  <2>1. Types
    <3>1. /\ host \in Hosts /\ left \in SUBSET Leftovers /\ unit \in {"none", "cli", "legacy"}
          /\ runs = 0 /\ pc = "idle" /\ mode = "absent" /\ hook = 1 /\ errs = {}
          /\ report = "none"
      BY DEF Init
    <3>2. proc = "none" /\ code = "ok" /\ failed = {}
      BY DEF Init
    <3>3. held \in BOOLEAN
      BY DEF Init
    <3>4. runs \in Nat /\ hook \in Nat \ {0} /\ errs \in SUBSET Leftovers
          /\ failed \in SUBSET Commands
      BY <3>1, <3>2
    <3> QED
      BY <3>1, <3>2, <3>3, <3>4 DEF Types
  <2>2. Waiting
    <3>1. w = "off" /\ now = 0 /\ end = 0 /\ nap = 0 /\ from = 0 /\ since = 0
      BY DEF Init
    <3>2. lastErr = FALSE /\ saw = FALSE /\ ready \in BOOLEAN
      BY DEF Init
    <3>3. WaitType
      BY <3>1, <3>2 DEF WaitType
    <3>4. WaitInv
      BY <3>1, <3>2 DEF WaitInv
    <3>5. SteadyIsFound /\ GivesUpInTime
      BY <3>1 DEF SteadyIsFound, GivesUpInTime
    <3> QED
      BY <3>3, <3>4, <3>5 DEF Waiting
  <2>3. PcInv /\ ModeInv
    BY DEF Init, PcInv, ModeInv, Commands, Cleanups
  <2>4. BehindInv
    BY HostAssumption DEF Init, BehindInv
  <2> QED
    BY <2>1, <2>2, <2>3, <2>4 DEF Inv
<1>2. Inv /\ [Next]_vars => Inv'
  <2> SUFFICES ASSUME Inv, [Next]_vars PROVE Inv'
    OBVIOUS
  <2>0. Types /\ Waiting /\ PcInv /\ ModeInv /\ BehindInv
    BY DEF Inv
  <2> USE <2>0
  <2>1. ASSUME Start PROVE Inv'
    <3>0. /\ pc = "idle" /\ runs' = runs + 1 /\ pc' = "detect" /\ mode' = "absent"
          /\ hook' = 1 /\ errs' = {} /\ report' = "none" /\ failed' = {}
          /\ host' = host /\ left' = left /\ unit' = unit /\ proc' = proc /\ held' = held
          /\ code' = code /\ w' = w
      BY <2>1 DEF Start, hostVars, waitVars
    <3>1. Types' /\ PcInv' /\ ModeInv'
      <4>1. Types'
        BY <3>0 DEF Types
      <4>2. PcInv'
        BY <3>0 DEF PcInv, Commands, Cleanups
      <4>3. ModeInv'
        BY <3>0 DEF ModeInv
      <4> QED
        BY <4>1, <4>2, <4>3
    <3>2. BehindInv'
      BY <2>1, HostAssumption DEF Start, BehindInv
    <3>3. Waiting'
      BY <2>1, WaitingUnchanged DEF Start
    <3> QED
      BY <3>1, <3>2, <3>3 DEF Inv
  <2>2. ASSUME Detect PROVE Inv'
    <3>1. Types'
      BY <2>2 DEF Detect, Spawns, Fallback, AfterDetection, hostVars, command, Types, Commands, Cleanups
    <3>2. PcInv' /\ ModeInv'
      <4>1. /\ pc = "detect" /\ host' = host /\ hook' = hook /\ errs' = errs /\ report' = report
            /\ failed' = failed /\ held' = held /\ w' = w
        BY <2>2 DEF Detect, Spawns, command, waitVars
      <4>2. \/ /\ ~Serves /\ mode' = Fallback /\ proc' = proc
               /\ (pc' = "hooks" \/ (pc' = "wait" /\ host.wait # NoWait))
            \/ pc' = "probe" /\ proc' = "runs"
        BY <2>2 DEF Detect, Spawns, AfterDetection, Serves, command
      <4>3. PcInv'
        BY <4>1, <4>2 DEF PcInv, Commands, Cleanups
      <4>4. ModeInv'
        BY <4>1, <4>2 DEF PcInv, ModeInv, Serves, Fallback
      <4> QED
        BY <4>3, <4>4
    <3>3. Excused => Excused'
      BY <2>2, ExcusedStays DEF Detect, Spawns, hostVars, command
    <3>4. BehindInv'
      BY <2>2, <3>3, BehindStays DEF Detect, hostVars
    <3>5. Waiting'
      BY <2>2, WaitingUnchanged DEF Detect
    <3> QED
      BY <3>1, <3>2, <3>4, <3>5 DEF Inv
  <2>3. ASSUME ProbeReturns PROVE Inv'
    <3>1. Types'
      BY <2>3 DEF ProbeReturns, Returned, Closes, Failed, Fallback, AfterDetection, hostVars, Types,
                  Commands, Cleanups
    <3>2. PcInv' /\ ModeInv'
      <4>1. /\ pc = "probe" /\ host' = host /\ hook' = hook /\ errs' = errs /\ report' = report
            /\ held' = held /\ ~held /\ proc' = "none" /\ w' = w
        BY <2>3 DEF ProbeReturns, Returned, Closes, waitVars
      <4>2. /\ (pc' = "hooks" \/ (pc' = "wait" /\ host.wait # NoWait))
            /\ mode' = IF code = "ok" /\ Serves THEN "subcommand" ELSE Fallback
            /\ failed' = Failed("probe")
        BY <2>3 DEF ProbeReturns, Returned, Closes, AfterDetection, Serves
      <4>3. PcInv'
        BY <4>1, <4>2 DEF PcInv, Commands, Cleanups
      <4>4. failed = {}
        BY <4>1 DEF PcInv
      <4>5. ModeInv'
        BY <4>1, <4>2, <4>4 DEF ModeInv, Serves, Fallback, Failed
      <4> QED
        BY <4>3, <4>5
    <3>3. Excused => Excused'
      BY <2>3, ExcusedStays DEF ProbeReturns, Closes, Failed, hostVars
    <3>4. BehindInv'
      BY <2>3, <3>3, BehindStays DEF ProbeReturns, hostVars
    <3>5. Waiting'
      BY <2>3, WaitingUnchanged DEF ProbeReturns
    <3> QED
      BY <3>1, <3>2, <3>4, <3>5 DEF Inv
  <2>4. ASSUME Exits \/ Expires \/ Forks \/ LetsGo PROVE Inv'
    <3>1. Types' /\ unit' \in {unit, "none"}
      BY <2>4, AfterIsNone DEF Exits, Expires, Forks, LetsGo, pass, hostVars, Types, PcInv
    <3>2. PcInv' /\ ModeInv'
      <4>1. /\ host' = host /\ hook' = hook /\ errs' = errs /\ report' = report /\ pc' = pc
            /\ mode' = mode /\ failed' = failed /\ w' = w /\ proc # "none" /\ proc' # "none"
        BY <2>4 DEF Exits, Expires, Forks, LetsGo, pass, waitVars, PcInv
      <4>2. \/ proc' = proc /\ code' = code /\ unit' = unit
            \/ code' = "err"
            \/ code' = "ok" /\ unit' = After(pc, unit)
        BY <2>4 DEF Exits, Expires, Forks, LetsGo, hostVars
      <4>3. UninstallCmd' = UninstallCmd
        BY <4>1 DEF UninstallCmd
      <4>4. PcInv'
        BY <4>1, <4>2, <4>3 DEF PcInv, After, Commands, Cleanups
      <4>5. ModeInv'
        BY <4>1 DEF ModeInv, Serves, Fallback
      <4> QED
        BY <4>4, <4>5
    <3>3. Excused => Excused'
      BY <2>4, <3>1, ExcusedStays DEF Exits, Expires, Forks, LetsGo
    <3>4. BehindInv'
      BY <2>4, <3>3, BehindStays DEF Exits, Expires, Forks, LetsGo, pass, hostVars
    <3>5. Waiting'
      BY <2>4, WaitingUnchanged DEF Exits, Expires, Forks, LetsGo
    <3> QED
      BY <3>1, <3>2, <3>4, <3>5 DEF Inv
  <2>5. ASSUME Waits \/ DaemonComesOrGoes PROVE Inv'
    <3>1. pc = "wait" /\ UNCHANGED <<host, hostVars, runs, pc, pass, command>>
      BY <2>5 DEF Waits, DaemonComesOrGoes, Flips, PcInv
    <3>2. Types' /\ ModeInv'
      BY <3>1 DEF hostVars, pass, command, Types, ModeInv, Serves, Fallback
    <3>3. PcInv'
      BY <3>1 DEF hostVars, pass, command, PcInv, UninstallCmd, Commands, Cleanups
    <3>4. Excused => Excused'
      BY <3>1, ExcusedStays DEF hostVars, pass, command
    <3>5. BehindInv'
      BY <3>1, <3>4, BehindStays DEF pass, hostVars
    <3>6. host.wait \in Nat \X Nat
      BY <3>1, HostAssumption DEF PcInv, Types, Host
    <3>7. Waiting'
      <4>1. host.wait[1] \in Nat /\ host.wait[2] \in Nat
        BY <3>6
      <4>2. WaitBegin(host.wait[1], host.wait[2]) \/ WaitStep \/ Flips
        BY <2>5 DEF Waits, DaemonComesOrGoes
      <4> QED
        BY <4>1, <4>2, WaitingGoesOn
    <3> QED
      BY <3>2, <3>3, <3>5, <3>7 DEF Inv
  <2>6. ASSUME WaitOver PROVE Inv'
    <3>1. /\ pc = "wait" /\ pc' = "hooks" /\ w' = "off"
          /\ UNCHANGED <<host, hostVars, runs, pass, command, ready>>
      BY <2>6 DEF WaitOver, Off
    <3>2. Types' /\ ModeInv'
      BY <3>1 DEF hostVars, pass, command, Types, ModeInv, Serves, Fallback
    <3>3. PcInv'
      BY <3>1 DEF hostVars, pass, command, PcInv, UninstallCmd, Commands, Cleanups
    <3>4. Excused => Excused'
      BY <3>1, ExcusedStays DEF hostVars, pass, command
    <3>5. BehindInv'
      BY <3>1, <3>4, BehindStays DEF pass, hostVars
    <3>6. Waiting'
      BY <2>6, WaitingOff DEF WaitOver, Waiting, WaitType
    <3> QED
      BY <3>2, <3>3, <3>5, <3>6 DEF Inv
  <2>7. ASSUME SkipNil PROVE Inv'
    <3>1. Types' /\ PcInv' /\ ModeInv'
      <4>1. /\ host' = host /\ unit' = unit /\ runs' = runs /\ pc = "hooks" /\ pc' = "hooks"
            /\ mode' = mode /\ hook' = hook + 1 /\ report' = report /\ proc' = proc
            /\ held' = held /\ code' = code /\ failed' = failed /\ w' = w
        BY <2>7 DEF SkipNil, At, NextHook, hostVars, command, waitVars
      <4>2. left' \in SUBSET Leftovers /\ errs' \in SUBSET Leftovers
        BY <2>7 DEF SkipNil, hostVars, Types
      <4>3. Types'
        BY <4>1, <4>2 DEF Types
      <4>4. PcInv'
        BY <4>1 DEF PcInv, Commands, Cleanups
      <4>5. ModeInv'
        BY <4>1 DEF ModeInv, Serves, Fallback
      <4> QED
        BY <4>3, <4>4, <4>5
    <3>2. Excused => Excused'
      BY <2>7, ExcusedStays DEF SkipNil, hostVars, command
    <3>3. BehindInv'
      BY <2>7, <3>2, BehindNext, HostAssumption DEF SkipNil, At, NextHook, hostVars
    <3>4. Waiting'
      BY <2>7, WaitingUnchanged DEF SkipNil
    <3> QED
      BY <3>1, <3>3, <3>4 DEF Inv
  <2>8. ASSUME NEW h \in Leftovers, RunHook(h) PROVE Inv'
    <3>1. Types' /\ PcInv' /\ ModeInv'
      <4>1. /\ host' = host /\ unit' = unit /\ runs' = runs /\ pc = "hooks" /\ pc' = "hooks"
            /\ mode' = mode /\ hook' = hook + 1 /\ report' = report /\ proc' = proc
            /\ held' = held /\ code' = code /\ failed' = failed /\ w' = w
        BY <2>8 DEF RunHook, At, NextHook, hostVars, command, waitVars
      <4>2. left' \in SUBSET Leftovers /\ errs' \in SUBSET Leftovers
        BY <2>8 DEF RunHook, hostVars, Types
      <4>3. Types'
        BY <4>1, <4>2 DEF Types
      <4>4. PcInv'
        BY <4>1 DEF PcInv, Commands, Cleanups
      <4>5. ModeInv'
        BY <4>1 DEF ModeInv, Serves, Fallback
      <4> QED
        BY <4>3, <4>4, <4>5
    <3>2. Excused => Excused'
      BY <2>8, ExcusedStays DEF RunHook, command
    <3>3. BehindInv'
      BY <2>8, <3>2, BehindNext, HostAssumption DEF RunHook, At, NextHook
    <3>4. Waiting'
      BY <2>8, WaitingUnchanged DEF RunHook
    <3> QED
      BY <3>1, <3>3, <3>4 DEF Inv
  <2>9. ASSUME DaemonHook \/ StopReturns PROVE Inv'
    <3>1. /\ Hooks[hook] = Daemon /\ hook \in DOMAIN Hooks /\ pc \in {"hooks", "stop"}
          /\ UNCHANGED <<host, hostVars, runs, mode, errs, report, held, waitVars>>
          /\ failed' \in {failed, failed \cup {"stop"}} /\ report = "none"
          /\ pc = "stop" => ~host.dry
      BY <2>9 DEF DaemonHook, StopReturns, At, Returned, Failed, Spawns, NextHook, command, PcInv, Cleanups
    <3>2. UninstallCmd \in {"uninstall", "legacy"}
      BY DEF UninstallCmd
    <3>3. \/ hook' = hook /\ pc' \in {"stop", UninstallCmd} /\ proc' = "runs" /\ ~host.dry
          \/ /\ hook' = hook + 1 /\ pc' = "hooks" /\ proc' = "none"
             /\ ~host.dry => UninstallCmd \notin host.argvs
      <4>1. CASE DaemonHook
        BY <4>1 DEF DaemonHook, At, Spawns, NextHook, Issued, command, PcInv, Commands, Cleanups
      <4>2. CASE StopReturns
        BY <4>2 DEF StopReturns, Returned, NextHook, Issued
      <4> QED
        BY <2>9, <4>1, <4>2
    <3>4. code' \in {"ok", "err"} /\ proc' # "exited" /\ UninstallCmd' = UninstallCmd
          /\ held' = FALSE
      BY <2>9, <3>1, <3>3 DEF DaemonHook, StopReturns, Spawns, Returned, command, Types, PcInv,
                             UninstallCmd, At, Commands, Cleanups
    <3>5. Types'
      BY <3>1, <3>2, <3>3, <3>4 DEF Types, hostVars, Commands, Cleanups
    <3>6. PcInv'
      BY <3>1, <3>2, <3>3, <3>4 DEF PcInv, hostVars, waitVars, Commands, Cleanups
    <3>7. ModeInv'
      BY <3>1, <3>2, <3>3 DEF ModeInv, Serves, Fallback
    <3>8. Excused => Excused'
      BY <3>1, ExcusedStays DEF hostVars
    <3>9. CASE hook' = hook
      BY <3>1, <3>5, <3>6, <3>7, <3>8, <3>9, BehindStays, WaitingUnchanged DEF Inv, hostVars
    <3>10. CASE hook' = hook + 1
      <4>1. ~host.dry => UninstallCmd \notin host.argvs
        BY <3>3, <3>10 DEF Types
      <4>2. mode = IF Serves /\ "probe" \notin failed THEN "subcommand" ELSE Fallback
        BY <3>1 DEF ModeInv
      <4>3. ~host.dry => Excused'
        BY <3>1, <3>5, <4>1, <4>2, UninstallExcuses DEF hostVars, Types
      <4>4. BehindInv'
        BY <3>1, <3>8, <3>10, <4>3, BehindNext, HostAssumption DEF hostVars
      <4> QED
        BY <3>1, <3>5, <3>6, <3>7, <4>4, WaitingUnchanged DEF Inv
    <3> QED
      BY <3>3, <3>9, <3>10
  <2>10. ASSUME UninstallReturns PROVE Inv'
    <3>1. /\ Hooks[hook] = Daemon /\ hook \in DOMAIN Hooks /\ pc = UninstallCmd
          /\ pc \in {"uninstall", "legacy"} /\ proc = "exited" /\ ~held
          /\ UNCHANGED <<host, hostVars, runs, mode, errs, report, held, code, waitVars>>
          /\ failed' = Failed(pc) /\ proc' = "none" /\ hook' = hook + 1 /\ pc' = "hooks"
          /\ report = "none"
      BY <2>10 DEF UninstallReturns, Returned, Closes, NextHook, PcInv, Cleanups
    <3>2. failed' \in SUBSET Commands /\ failed \subseteq failed' /\ failed' \subseteq failed \cup {pc}
          /\ (code # "ok" => pc \in failed')
      BY <3>1 DEF Failed, Types, Commands, Cleanups
    <3>3. Types'
      BY <3>1, <3>2 DEF Types, hostVars
    <3>4. PcInv'
      BY <3>1 DEF PcInv, hostVars, waitVars, Commands, Cleanups
    <3>5. ModeInv'
      BY <3>1, <3>2 DEF ModeInv, Serves, Fallback
    <3>6. mode = IF Serves /\ "probe" \notin failed THEN "subcommand" ELSE Fallback
      BY <3>1 DEF ModeInv
    <3>7. \/ UninstallCmd \in failed'
          \/ unit' # IF UninstallCmd = "uninstall" THEN "cli" ELSE "legacy"
      BY <3>1, <3>2 DEF PcInv, hostVars, Types
    <3>8. Excused'
      BY <3>1, <3>2, <3>3, <3>6, <3>7, UninstallExcuses DEF Types
    <3>9. BehindInv'
      BY <3>1, <3>8, BehindNext, HostAssumption DEF hostVars
    <3> QED
      BY <3>1, <3>3, <3>4, <3>5, <3>9, WaitingUnchanged DEF Inv
  <2>11. ASSUME RunCleanupsReturns PROVE Inv'
    <3>1. Types' /\ PcInv' /\ ModeInv'
      BY <2>11 DEF RunCleanupsReturns, hostVars, command, Types, PcInv, ModeInv, Serves, Fallback,
                   Commands, Cleanups, waitVars
    <3>2. Excused => Excused'
      BY <2>11, ExcusedStays DEF RunCleanupsReturns, hostVars, command
    <3>3. BehindInv'
      BY <2>11, <3>2, BehindStays DEF RunCleanupsReturns, hostVars
    <3>4. Waiting'
      BY <2>11, WaitingUnchanged DEF RunCleanupsReturns
    <3> QED
      BY <3>1, <3>3, <3>4 DEF Inv
  <2>12. ASSUME Crash PROVE Inv'
    <3>1. /\ pc # "idle" /\ pc' = "idle" /\ proc' = "none" /\ held' = FALSE /\ w' = "off"
          /\ UNCHANGED <<host, left, runs, pass, code, failed, ready>>
          /\ report = "none"
      BY <2>12 DEF Crash, Off, PcInv
    <3>2. unit' \in {unit, "none"}
      BY <2>12, AfterIsNone DEF Crash, PcInv
    <3>3. Types'
      BY <3>1, <3>2 DEF Types, pass
    <3>4. PcInv' /\ ModeInv'
      BY <3>1 DEF PcInv, ModeInv, pass, Commands, Cleanups
    <3>5. Excused => Excused'
      BY <3>1, <3>2, ExcusedStays
    <3>6. BehindInv'
      BY <3>1, <3>5, BehindStays DEF pass
    <3>7. Waiting'
      BY <2>12, WaitingOff DEF Crash, Waiting, WaitType
    <3> QED
      BY <3>3, <3>4, <3>6, <3>7 DEF Inv
  <2>13. ASSUME UNCHANGED vars PROVE Inv'
    <3>1. Types' /\ ModeInv'
      BY <2>13 DEF vars, hostVars, pass, command, Types, ModeInv, Serves, Fallback
    <3>2. PcInv'
      BY <2>13 DEF vars, hostVars, pass, command, waitVars, PcInv, UninstallCmd, Commands, Cleanups
    <3>3. Excused => Excused'
      BY <2>13, ExcusedStays DEF vars, hostVars, command
    <3>4. BehindInv'
      BY <2>13, <3>3, BehindStays DEF vars, hostVars, pass
    <3>5. Waiting'
      BY <2>13, WaitingUnchanged DEF vars
    <3> QED
      BY <3>1, <3>2, <3>4, <3>5 DEF Inv
  <2> QED
    BY <2>1, <2>2, <2>3, <2>4, <2>5, <2>6, <2>7, <2>8, <2>9, <2>10, <2>11, <2>12, <2>13 DEF Next, Step
<1> QED
  BY <1>1, <1>2, PTL DEF Spec

(* The types and what the runs call IInv.                                  *)
THEOREM StepIInv == Spec => []IInv
<1>1. Inv => IInv
  BY DEF Inv, Types, Waiting, IInv, TypeOK
<1> QED
  BY <1>1, Invariance, PTL

(* Whoever polls with WaitFor misses no condition that has come to stay,   *)
(* but for one call and one interval before the deadline.                  *)
THEOREM SteadyConditionIsFound == Spec => []SteadyIsFound
<1>1. Inv => SteadyIsFound
  BY DEF Inv, Waiting
<1> QED
  BY <1>1, Invariance, PTL

(* WaitFor keeps its deadline to within one call and one interval.         *)
THEOREM WaitIsBounded == Spec => []GivesUpInTime
<1>1. Inv => GivesUpInTime
  BY DEF Inv, Waiting
<1> QED
  BY <1>1, Invariance, PTL

(* Whatever the list of hooks, RunCleanups names every leftover it leaves. *)
THEOREM CleanupReports == Spec => []ReportNamesLeftovers
<1>1. Inv => ReportNamesLeftovers
  <2> SUFFICES ASSUME Inv, report # "none", ~host.dry
               PROVE  left \subseteq errs /\ (report = "nil" => left = {})
    BY DEF ReportNamesLeftovers
  <2>1. hook \notin DOMAIN Hooks /\ hook \in Nat \ {0} /\ DOMAIN Hooks = 1..Len(Hooks)
        /\ Len(Hooks) \in Nat
    BY HostAssumption DEF Inv, PcInv, Types
  <2>2. ASSUME NEW h \in left PROVE h \in errs
    <3>1. h \in Leftovers
      BY DEF Inv, Types
    <3>2. PICK i \in DOMAIN Hooks : Hooks[i] = h
      BY <3>1, HostAssumption
    <3>3. i < hook
      BY <2>1
    <3> QED
      BY <3>1, <3>2, <3>3 DEF Inv, BehindInv
  <2>3. report = "nil" => errs = {}
    BY DEF Inv, PcInv
  <2> QED
    BY <2>2, <2>3
<1> QED
  BY <1>1, Invariance, PTL

(* Whatever fails or dies around it, the daemon is uninstalled unless its  *)
(* own uninstall or the probe failed.                                      *)
THEOREM DaemonIsUninstalled == Spec => []DaemonLeftHasReason
<1>1. Inv => DaemonLeftHasReason
  <2> SUFFICES ASSUME Inv, report # "none", ~host.dry PROVE Excused
    BY DEF DaemonLeftHasReason
  <2>1. hook \notin DOMAIN Hooks /\ hook \in Nat \ {0} /\ DOMAIN Hooks = 1..Len(Hooks)
        /\ Len(Hooks) \in Nat
    BY HostAssumption DEF Inv, PcInv, Types
  <2>2. PICK i \in DOMAIN Hooks : Hooks[i] = Daemon
    BY HostAssumption
  <2>3. i < hook
    BY <2>1
  <2> QED
    BY <2>2, <2>3 DEF Inv, BehindInv
<1> QED
  BY <1>1, Invariance, PTL

-----------------------------------------------------------------------------
(* Which steps concern a wait. *)
LEMMA WaitSteps ==
  ASSUME [Next]_vars
  PROVE  \/ UNCHANGED waitVars
         \/ w' = "off"
         \/ Flips
         \/ WaitBegin(host.wait[1], host.wait[2])
         \/ WaitStep
<1>1. CASE Start \/ Detect \/ Expires \/ ProbeReturns \/ SkipNil \/ \E h \in Leftovers : RunHook(h)
  BY <1>1 DEF Start, Detect, Expires, ProbeReturns, SkipNil, RunHook
<1>2. CASE DaemonHook \/ StopReturns \/ UninstallReturns \/ RunCleanupsReturns
  BY <1>2 DEF DaemonHook, StopReturns, UninstallReturns, RunCleanupsReturns
<1>3. CASE Exits \/ Forks \/ LetsGo \/ UNCHANGED vars
  BY <1>3 DEF Exits, Forks, LetsGo, vars
<1>4. CASE WaitOver \/ Crash
  BY <1>4 DEF WaitOver, Crash, Off
<1>5. CASE Waits \/ DaemonComesOrGoes
  BY <1>5 DEF Waits, DaemonComesOrGoes
<1> QED
  BY <1>1, <1>2, <1>3, <1>4, <1>5 DEF Next, Step

(* "the minimum interval is 200ms": no caller's interval makes fn run more *)
(* often than the minimum allows.                                          *)
THEOREM PollsAreApart == Spec => PollsApart
<1>1. ASSUME Inv, [Next]_vars, w' = "call", w # "call", lastErr, ~UNCHANGED waitVars
      PROVE  from + MinInterval <= now
  <2>1. Check
    BY <1>1, WaitSteps DEF Flips, WaitBegin, WaitStep, Looks, Returns, Wakes, Tick
  <2>2. from + nap <= now /\ MinInterval <= nap
    BY <1>1, <2>1 DEF Inv, Waiting, WaitInv, Check
  <2>3. from \in Nat /\ nap \in Nat /\ now \in Nat /\ MinInterval \in Nat
    BY <1>1, WaitAssumption DEF Inv, Waiting, WaitType
  <2> QED
    BY <2>2, <2>3
<1>2. Inv /\ [Next]_vars =>
        [w' = "call" /\ w # "call" /\ lastErr => from + MinInterval <= now]_waitVars
  BY <1>1
<1> QED
  BY <1>2, Invariance, PTL DEF Spec, PollsApart

(* A measure of two parts goes down with its second part, and with its     *)
(* first whatever the second does.                                         *)
LEMMA TwoParts ==
  ASSUME NEW a \in Int, NEW s \in 0..9, NEW r \in 0..9
  PROVE  /\ r < s => 5 * a + r < 5 * a + s
         /\ r < s + 5 => 5 * (a - 1) + r < 5 * a + s
OBVIOUS

(* A wait has only so much to go. *)
LEMMA WaitLeftType ==
  ASSUME Waiting, w # "off"
  PROVE  WaitLeft \in Nat
<1> DEFINE M == end + MaxCall + nap + MaxLag
<1>1. /\ now \in Nat /\ end \in Nat /\ nap \in Nat /\ from \in Nat /\ M \in Nat
      /\ w \in {"check", "call", "looked", "sleep", "nil", "timeout"}
  BY WaitAssumption DEF Waiting, WaitType
<1>2. now <= M
  <2>1. CASE w \in {"check", "timeout", "nil"}
    BY <1>1, <2>1, WaitAssumption DEF Waiting, WaitInv, GivesUpInTime
  <2>2. CASE w \in {"call", "looked"}
    BY <1>1, <2>2, WaitAssumption DEF Waiting, WaitInv
  <2>3. CASE w = "sleep"
    BY <1>1, <2>3, WaitAssumption DEF Waiting, WaitInv
  <2> QED
    BY <1>1, <2>1, <2>2, <2>3
<1>3. Stage \in Nat
  BY <1>1 DEF Stage
<1> QED
  BY <1>1, <1>2, <1>3 DEF WaitLeft

(* A step of the loop, with the clock. *)
LEMMA LoopGoesDown ==
  ASSUME Waiting, Waiting', w # "off", WaitStep
  PROVE  WaitLeft' < WaitLeft
<1> DEFINE M == end + MaxCall + nap + MaxLag
<1>0. /\ now \in Nat /\ end \in Nat /\ nap \in Nat /\ from \in Nat /\ M \in Nat
      /\ MinInterval \in Nat \ {0}
      /\ Stage \in 0..9 /\ Stage' \in 0..9 /\ Stage' < Stage + 5 /\ now' \in Nat
  BY WaitAssumption DEF Waiting, WaitType, Stage
<1>a. WaitLeft = 5 * (M - now) + Stage
  BY DEF WaitLeft
<1>b. ASSUME UNCHANGED <<end, nap>>
      PROVE  WaitLeft' = 5 * (M - now') + Stage'
  BY <1>b DEF WaitLeft
<1> HIDE DEF M
<1>c. ASSUME UNCHANGED <<now, end, nap>>, Stage' < Stage PROVE WaitLeft' < WaitLeft
  <2>1. WaitLeft' = 5 * (M - now) + Stage'
    BY <1>b, <1>c
  <2>2. M - now \in Int
    BY <1>0
  <2> QED
    BY <1>0, <1>a, <1>c, <2>1, <2>2, TwoParts
<1>d. ASSUME UNCHANGED <<end, nap>>, now' = now + 1 PROVE WaitLeft' < WaitLeft
  <2>1. WaitLeft' = 5 * ((M - now) - 1) + Stage'
    <3>1. M - now' = (M - now) - 1
      BY <1>0, <1>d
    <3> QED
      BY <1>b, <1>d, <3>1
  <2>2. M - now \in Int
    BY <1>0
  <2> QED
    BY <1>0, <1>a, <2>1, <2>2, TwoParts
<1>1. CASE Check
  <2>1. /\ UNCHANGED <<now, end, nap>>
        /\ w = "check" /\ w' \in {"call", "timeout"}
    BY <1>1 DEF Check
  <2>2. Stage = 3 /\ Stage' \in {0, 2}
    BY <2>1 DEF Stage
  <2> QED
    BY <1>c, <2>1, <2>2
<1>2. CASE Looks
  <2>1. /\ UNCHANGED <<now, end, nap>>
        /\ w = "call" /\ w' = "looked"
    BY <1>2 DEF Looks
  <2>2. Stage = 2 /\ Stage' = 1
    BY <2>1 DEF Stage
  <2> QED
    BY <1>c, <2>1, <2>2
<1>3. CASE Returns
  <2>1. /\ UNCHANGED <<now, end, nap>>
        /\ w = "looked"
        /\ w' = "nil" \/ (w' = "sleep" /\ from' = now)
    BY <1>3 DEF Returns
  <2>2. 0 < nap
    BY <1>0 DEF Waiting, WaitInv
  <2>3. w' = "sleep" => ~(from' + nap' <= now')
    BY <1>0, <2>1, <2>2
  <2>4. Stage = 1 /\ Stage' = 0
    BY <2>1, <2>3 DEF Stage
  <2> QED
    BY <1>c, <2>1, <2>4
<1>4. CASE Wakes
  <2>1. /\ UNCHANGED <<now, end, nap>>
        /\ w = "sleep" /\ w' = "check" /\ from + nap <= now
    BY <1>4 DEF Wakes
  <2>2. Stage = 4 /\ Stage' = 3
    BY <2>1 DEF Stage
  <2> QED
    BY <1>c, <2>1, <2>2
<1>5. CASE Tick
  BY <1>5, <1>d DEF Tick
<1> QED
  BY <1>1, <1>2, <1>3, <1>4, <1>5 DEF WaitStep

(* WaitFor cannot loop without the clock getting on: what is left of it,   *)
(* bounded by its deadline, one call and one interval, shrinks at every    *)
(* step of its own and grows at none of the world's.                       *)
THEOREM WaitsOnlyGoDown == Spec => WaitGoesDown
<1>1. ASSUME Inv, Inv', [Next]_vars, w # "off", w' # "off", ~UNCHANGED waitVars
      PROVE  \/ WaitLeft' < WaitLeft
             \/ UNCHANGED <<w, now, end, nap, lastErr, from, saw>>
  <2>1. CASE Flips
    BY <2>1 DEF Flips
  <2>2. CASE WaitStep
    BY <1>1, <2>2, LoopGoesDown DEF Inv
  <2>3. ~WaitBegin(host.wait[1], host.wait[2])
    BY <1>1 DEF WaitBegin
  <2> QED
    BY <1>1, <2>1, <2>2, <2>3, WaitSteps
<1>2. Inv /\ Inv' /\ [Next]_vars =>
        [w # "off" /\ w' # "off" =>
           \/ WaitLeft' < WaitLeft
           \/ UNCHANGED <<w, now, end, nap, lastErr, from, saw>>]_waitVars
  BY <1>1
<1> QED
  BY <1>2, Invariance, PTL DEF Spec, WaitGoesDown

-----------------------------------------------------------------------------
(* Which steps tear something down. *)
LEMMA HostSteps ==
  ASSUME [Next]_vars
  PROVE  \/ UNCHANGED hostVars
         \/ unit' = unit /\ \E h \in Leftovers : left' \in {left, left \ {h}}
         \/ left' = left /\ proc = "runs" /\ unit' \in {unit, After(pc, unit)}
<1>1. CASE Start \/ Detect \/ Expires \/ ProbeReturns \/ SkipNil
  BY <1>1 DEF Start, Detect, Expires, ProbeReturns, SkipNil, hostVars
<1>2. CASE DaemonHook \/ StopReturns \/ UninstallReturns \/ RunCleanupsReturns
  BY <1>2 DEF DaemonHook, StopReturns, UninstallReturns, RunCleanupsReturns
<1>3. CASE Forks \/ LetsGo \/ UNCHANGED vars \/ WaitOver \/ Waits \/ DaemonComesOrGoes
  BY <1>3 DEF Forks, LetsGo, vars, WaitOver, Waits, DaemonComesOrGoes
<1>4. CASE Exits
  BY <1>4 DEF Exits
<1>5. CASE Crash
  BY <1>5 DEF Crash, hostVars
<1>6. ASSUME NEW h \in Leftovers, RunHook(h)
      PROVE  unit' = unit /\ left' \in {left, left \ {h}}
  BY <1>6 DEF RunHook
<1> QED
  BY <1>1, <1>2, <1>3, <1>4, <1>5, <1>6 DEF Next, Step

(* A teardown brings nothing back, however often it fails, dies and is run *)
(* again, and a dry run leaves the daemon alone.                           *)
THEOREM TeardownOnlyTakesAway == Spec => OnlyTearsDown
<1>1. ASSUME Inv, [Next]_vars
      PROVE  /\ left' \subseteq left
             /\ unit' \in {unit, "none"}
             /\ host.dry => unit' = unit
  <2>1. CASE UNCHANGED hostVars
    BY <2>1 DEF hostVars
  <2>2. CASE unit' = unit /\ \E h \in Leftovers : left' \in {left, left \ {h}}
    BY <2>2
  <2>3. CASE left' = left /\ proc = "runs" /\ unit' \in {unit, After(pc, unit)}
    <3>1. pc \in Commands /\ (host.dry => pc = "probe")
      BY <1>1, <2>3 DEF Inv, PcInv, Commands, Cleanups
    <3>2. After(pc, unit) \in {unit, "none"}
      BY <1>1, <3>1, AfterIsNone DEF Inv
    <3>3. After("probe", unit) = unit
      BY DEF After
    <3> QED
      BY <2>3, <3>1, <3>2, <3>3
  <2> QED
    BY <1>1, <2>1, <2>2, <2>3, HostSteps
<1>2. Inv /\ [Next]_vars =>
        [ /\ left' \subseteq left
          /\ unit' \in {unit, "none"}
          /\ host.dry => unit' = unit]_vars
  BY <1>1
<1> QED
  BY <1>2, Invariance, PTL DEF Spec, OnlyTearsDown

(* Which steps move RunCleanups in its list. *)
LEMMA HookMoves ==
  ASSUME [Next]_vars
  PROVE  hook' \in {1, hook, hook + 1}
<1>1. CASE Start \/ Detect \/ Expires \/ ProbeReturns \/ SkipNil \/ \E h \in Leftovers : RunHook(h)
  BY <1>1 DEF Start, Detect, Expires, ProbeReturns, SkipNil, RunHook, NextHook, pass
<1>2. CASE DaemonHook \/ StopReturns \/ UninstallReturns \/ RunCleanupsReturns
  BY <1>2 DEF DaemonHook, StopReturns, UninstallReturns, RunCleanupsReturns, NextHook
<1>3. CASE Exits \/ Forks \/ LetsGo \/ UNCHANGED vars
  BY <1>3 DEF Exits, Forks, LetsGo, vars, pass
<1>4. CASE WaitOver \/ Crash \/ Waits \/ DaemonComesOrGoes
  BY <1>4 DEF WaitOver, Crash, Waits, DaemonComesOrGoes, pass
<1> QED
  BY <1>1, <1>2, <1>3, <1>4 DEF Next, Step

(* RunCleanups does not run past the end of its list. *)
HookInv == hook <= Len(Hooks) + 1

LEMMA HookStep == Types /\ PcInv /\ HookInv /\ [Next]_vars => HookInv'
<1> SUFFICES ASSUME Types, PcInv, HookInv, [Next]_vars PROVE HookInv'
  OBVIOUS
<1>0. Len(Hooks) \in Nat /\ DOMAIN Hooks = 1..Len(Hooks) /\ hook \in Nat
  BY HostAssumption DEF Types
<1>1. CASE hook' \in {1, hook}
  BY <1>0, <1>1 DEF HookInv
<1>2. CASE hook' = hook + 1 /\ hook \in DOMAIN Hooks
  BY <1>0, <1>2 DEF HookInv
<1>3. CASE Start \/ Detect \/ Expires \/ ProbeReturns
  BY <1>1, <1>3 DEF Start, Detect, Expires, ProbeReturns, pass
<1>4. CASE SkipNil \/ \E h \in Leftovers : RunHook(h)
  BY <1>2, <1>4 DEF SkipNil, RunHook, At, NextHook
<1>5. CASE DaemonHook \/ StopReturns \/ UninstallReturns
  <2>1. hook \in DOMAIN Hooks
    BY <1>5 DEF DaemonHook, StopReturns, UninstallReturns, At, Returned, PcInv, Cleanups
  <2> QED
    BY <1>1, <1>2, <1>5, <2>1 DEF DaemonHook, StopReturns, UninstallReturns, NextHook
<1>6. CASE RunCleanupsReturns \/ Exits \/ Forks \/ LetsGo \/ UNCHANGED vars
  BY <1>1, <1>6 DEF RunCleanupsReturns, Exits, Forks, LetsGo, vars, pass
<1>7. CASE WaitOver \/ Crash \/ Waits \/ DaemonComesOrGoes
  BY <1>1, <1>7 DEF WaitOver, Crash, Waits, DaemonComesOrGoes, pass
<1> QED
  BY <1>3, <1>4, <1>5, <1>6, <1>7 DEF Next, Step

(* The measure is a natural number that is 0 only between runs. *)
LEMMA StepLeftType ==
  ASSUME Types, HookInv
  PROVE  StepLeft \in Nat /\ (pc # "idle" => StepLeft > 0)
<1>1. Len(Hooks) \in Nat /\ hook \in Nat /\ hook <= Len(Hooks) + 1
  BY HostAssumption DEF Types, HookInv
<1>2. Slot \in 1..9
  BY DEF Slot
<1> QED
  BY <1>1, <1>2 DEF StepLeft

(* Each step of a run leaves less of it. *)
LEMMA RunGoesDown ==
  ASSUME Types, PcInv, HookInv, [Next]_vars, pc # "idle"
  PROVE  \/ StepLeft' < StepLeft
         \/ Forks \/ LetsGo \/ DaemonComesOrGoes \/ Waits
         \/ UNCHANGED vars
<1> DEFINE N == Len(Hooks) + 1
<1>0. /\ N \in Nat /\ hook \in Nat /\ StepLeft \in Nat /\ StepLeft > 0
      /\ Len(Hooks) \in Nat /\ hook' \in Nat
  <2>1. Len(Hooks) \in Nat /\ hook \in Nat
    BY HostAssumption DEF Types
  <2>2. hook' \in {1, hook, hook + 1}
    BY HookMoves
  <2> QED
    BY <2>1, <2>2, StepLeftType
<1>a. /\ Len(Hooks) + 1 = N
      /\ Slot \in 1..9 /\ Slot' \in 1..9
  BY DEF Slot
<1> HIDE DEF N
<1>b. StepLeft = 5 * (N - hook) + Slot
  BY <1>0, <1>a DEF StepLeft
<1>c. ASSUME pc' # "idle" PROVE StepLeft' = 5 * (N - hook') + Slot'
  BY <1>0, <1>a, <1>c DEF StepLeft
<1>1. CASE pc' = "idle"
  BY <1>0, <1>1 DEF StepLeft
<1>2. ASSUME pc' # "idle", hook' = hook, Slot' < Slot, Slot' \in 1..9, Slot \in 1..9
      PROVE  StepLeft' < StepLeft
  <2>1. StepLeft' = 5 * (N - hook) + Slot'
    BY <1>2, <1>c
  <2>2. N - hook \in Int
    BY <1>0
  <2> QED
    BY <1>2, <1>a, <1>b, <2>1, <2>2, TwoParts
<1>3. ASSUME pc' = "hooks", hook' = hook + 1 PROVE StepLeft' < StepLeft
  <2>1. Slot' < Slot + 5 /\ pc' # "idle"
    BY <1>3, <1>a DEF Slot
  <2>2. N - hook \in Int /\ N - hook' = (N - hook) - 1
    BY <1>0, <1>3
  <2>3. StepLeft' = 5 * ((N - hook) - 1) + Slot'
    BY <1>c, <2>1, <2>2
  <2> QED
    BY <1>a, <1>b, <2>1, <2>2, <2>3, TwoParts
<1>4. CASE Detect
  <2>1. /\ pc = "detect" /\ hook' = hook
        /\ \/ pc' \in {"wait", "hooks"}
           \/ pc' = "probe" /\ proc' = "runs"
    BY <1>4 DEF Detect, Spawns, AfterDetection
  <2>2. Slot = 9 /\ Slot' \in 5..8 /\ pc' # "idle"
    BY <2>1 DEF Slot
  <2> QED
    BY <1>2, <2>1, <2>2
<1>5. CASE ProbeReturns
  <2>1. pc = "probe" /\ proc = "exited" /\ hook' = hook /\ pc' \in {"wait", "hooks"}
    BY <1>5 DEF ProbeReturns, Returned, AfterDetection
  <2>2. Slot = 7 /\ Slot' \in 5..6 /\ pc' # "idle"
    BY <2>1 DEF Slot
  <2> QED
    BY <1>2, <2>1, <2>2
<1>6. CASE WaitOver
  <2>1. pc = "wait" /\ hook' = hook /\ pc' = "hooks"
    BY <1>6 DEF WaitOver, pass
  <2>2. Slot = 6 /\ Slot' = 5 /\ pc' # "idle"
    BY <2>1 DEF Slot
  <2> QED
    BY <1>2, <2>1, <2>2
<1>7. CASE Exits \/ Expires
  <2>1. /\ proc = "runs" /\ proc' = "exited" /\ pc' = pc /\ hook' = hook
        /\ pc \in {"probe", "stop", "uninstall", "legacy"}
    BY <1>7 DEF Exits, Expires, pass, PcInv, Commands, Cleanups
  <2>2. Slot' = Slot - 1 /\ Slot \in {2, 4, 8} /\ pc' # "idle"
    BY <2>1 DEF Slot
  <2> QED
    BY <1>2, <2>1, <2>2
<1>8. CASE SkipNil \/ \E h \in Leftovers : RunHook(h)
  BY <1>3, <1>8 DEF SkipNil, RunHook, NextHook
<1>9. CASE DaemonHook
  <2>1. /\ pc = "hooks"
        /\ \/ pc' \in {"stop", "uninstall", "legacy"} /\ proc' = "runs" /\ hook' = hook
           \/ pc' = "hooks" /\ hook' = hook + 1
    BY <1>9 DEF DaemonHook, At, Spawns, NextHook, UninstallCmd
  <2>2. hook' = hook => Slot = 5 /\ Slot' \in {2, 4} /\ pc' # "idle"
    BY <1>0, <2>1 DEF Slot
  <2> QED
    BY <1>2, <1>3, <2>1, <2>2
<1>10. CASE StopReturns
  <2>1. /\ pc = "stop" /\ proc = "exited"
        /\ \/ pc' \in {"uninstall", "legacy"} /\ proc' = "runs" /\ hook' = hook
           \/ pc' = "hooks" /\ hook' = hook + 1
    BY <1>10 DEF StopReturns, Returned, NextHook, UninstallCmd
  <2>2. hook' = hook => Slot = 3 /\ Slot' = 2 /\ pc' # "idle"
    BY <1>0, <2>1 DEF Slot
  <2> QED
    BY <1>2, <1>3, <2>1, <2>2
<1>11. CASE UninstallReturns
  BY <1>3, <1>11 DEF UninstallReturns, NextHook
<1>12. CASE RunCleanupsReturns \/ Crash
  BY <1>1, <1>12 DEF RunCleanupsReturns, Crash
<1>13. ~Start
  BY DEF Start
<1> QED
  BY <1>4, <1>5, <1>6, <1>7, <1>8, <1>9, <1>10, <1>11, <1>12, <1>13 DEF Next, Step

(* No part of a run is done again: with WaitsOnlyGoDown, a run whose       *)
(* commands' output is let go can only come to its end.                    *)
THEOREM RunsOnlyGoDown == Spec => StepGoesDown
<1>1. Init => HookInv
  BY HostAssumption DEF Init, HookInv
<1>2. Inv /\ HookInv /\ [Next]_vars => HookInv'
  BY HookStep DEF Inv
<1>3. Spec => []HookInv
  BY <1>1, <1>2, Invariance, PTL DEF Spec
<1>4. Inv /\ HookInv /\ [Next]_vars =>
        [pc # "idle" =>
           \/ StepLeft' < StepLeft
           \/ Forks \/ LetsGo \/ DaemonComesOrGoes \/ Waits]_vars
  BY RunGoesDown DEF Inv
<1> QED
  BY <1>3, <1>4, Invariance, PTL DEF Spec, StepGoesDown

=============================================================================
