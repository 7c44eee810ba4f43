----------------------- MODULE DaemonLifecycle_proofs -----------------------
(***************************************************************************)
(* Proofs about DaemonLifecycle for any number of tests, ports and callers *)
(* of Stop: the inductive invariant, the safety properties it yields, and  *)
(* the implementation of ManagedProcess.                                   *)
(***************************************************************************)
EXTENDS DaemonLifecycle, SequenceTheorems, TLAPS

(* t.Cleanup pushes, and the testing package pops, at the same end. *)
LEMMA HookStack ==
  /\ Append(NoHooks, "RemoveAll") = HomeHook
  /\ Append(HomeHook, "Stop") = BothHooks
  /\ Last(HomeHook) = "RemoveAll"
  /\ Last(BothHooks) = "Stop"
  /\ Front(HomeHook) = NoHooks
  /\ Front(BothHooks) = HomeHook
  /\ <<>> = NoHooks
  /\ NoHooks # HomeHook
  /\ NoHooks # BothHooks
  /\ HomeHook # BothHooks
<1>1. Append(<<>>, "RemoveAll") = <<"RemoveAll">>
  OBVIOUS
<1>2. Append(<<"RemoveAll">>, "Stop") = <<"RemoveAll", "Stop">>
  <2> DEFINE a == Append(<<"RemoveAll">>, "Stop")
             b == <<"RemoveAll", "Stop">>
  <2>1. a \in Seq(Hooks) /\ b \in Seq(Hooks)
    BY DEF Hooks
  <2>2. Len(a) = 2 /\ Len(b) = 2
    OBVIOUS
  <2>3. a[1] = b[1] /\ a[2] = b[2]
    OBVIOUS
  <2> HIDE DEF a, b
  <2>4. a = b
    BY <2>1, <2>2, <2>3, SeqEqual
  <2> QED BY <2>4 DEF a, b
<1>3. Last(<<"RemoveAll">>) = "RemoveAll" /\ Last(<<"RemoveAll", "Stop">>) = "Stop"
  BY DEF Last
<1>4. Front(<<"RemoveAll">>) = <<>>
  BY DEF Front
<1>5. Front(<<"RemoveAll", "Stop">>) = <<"RemoveAll">>
  <2> DEFINE a == SubSeq(<<"RemoveAll", "Stop">>, 1, 1)
             b == <<"RemoveAll">>
  <2>1. a \in Seq(Hooks) /\ b \in Seq(Hooks)
    BY SubSeqProperties DEF Hooks
  <2>2. Len(a) = 1 /\ Len(b) = 1
    OBVIOUS
  <2>3. a[1] = b[1]
    OBVIOUS
  <2> HIDE DEF a, b
  <2>4. a = b
    BY <2>1, <2>2, <2>3, SeqEqual
  <2>5. Front(<<"RemoveAll", "Stop">>) = SubSeq(<<"RemoveAll", "Stop">>, 1, 1)
    BY DEF Front
  <2> QED BY <2>4, <2>5 DEF a, b
<1>6. <<>> # <<"RemoveAll">>
  OBVIOUS
<1>7. <<>> # <<"RemoveAll", "Stop">>
  OBVIOUS
<1>8. <<"RemoveAll">> # <<"RemoveAll", "Stop">>
  OBVIOUS
<1> QED
  BY <1>1, <1>2, <1>3, <1>4, <1>5, <1>6, <1>7, <1>8 DEF NoHooks, HomeHook, BothHooks


-----------------------------------------------------------------------------
(* A signal is TERM or KILL, delivered or dropped. *)
LEMMA DeliverType ==
  ASSUME NEW t \in Tests, NEW s \in Signals,
         sig \in [Tests -> SUBSET Signals], Deliver(t, s)
  PROVE  sig' \in [Tests -> SUBSET Signals]
<1>1. CASE child[t] \in Alive
  <2>1. sig[t] \cup {s} \in SUBSET Signals
    OBVIOUS
  <2> QED BY <1>1, <2>1 DEF Deliver
<1>2. CASE child[t] \notin Alive
  BY <1>2 DEF Deliver
<1> QED BY <1>1, <1>2

(* What a call of Stop does to the goroutines it involves is well typed. *)
LEMMA StopType ==
  ASSUME NEW t \in Tests, NEW c \in Callers, Stop(t, c),
         caller \in [Tests -> [Callers -> CallerPC]],
         once \in [Tests -> OncePC], stop \in [Tests -> StopPC]
  PROVE  /\ caller' \in [Tests -> [Callers -> CallerPC]]
         /\ once' \in [Tests -> OncePC]
         /\ stop' \in [Tests -> StopPC]
<1>1. CASE once[t] = "fresh"
  <2>1. caller' = [caller EXCEPT ![t][c] = "inside"]
    BY <1>1 DEF Stop
  <2>2. once' = [once EXCEPT ![t] = "running"] /\ stop' = [stop EXCEPT ![t] = "called"]
    BY <1>1 DEF Stop
  <2> QED BY <2>1, <2>2 DEF CallerPC, OncePC, StopPC
<1>2. CASE once[t] # "fresh"
  <2>1. PICK v \in {"blocked", "returned"} : caller' = [caller EXCEPT ![t][c] = v]
    BY <1>2 DEF Stop, OncePC
  <2>2. UNCHANGED <<once, stop>>
    BY <1>2 DEF Stop
  <2> QED BY <2>1, <2>2 DEF CallerPC
<1> QED BY <1>1, <1>2

(* Where every goroutine, child and cleanup is: the part of the invariant  *)
(* that needs no other. *)
LEMMA InitControl == Init => ControlInv
BY OwnerAssumption
   DEF Init, ControlInv, TypeOK, OnceInv, WaitInv, SpawnInv, CleanupInv, PC, Child, Signals,
       StopPC, WaitPC, OncePC, CallerPC, Home, Owners, Stacks, NoHooks

LEMMA StepControl == ControlInv /\ [Next]_vars => ControlInv'
<1> SUFFICES ASSUME ControlInv, [Next]_vars PROVE ControlInv'
  OBVIOUS
<1> USE OwnerAssumption, CleanupAssumption, HookStack
    DEF ControlInv, TypeOK, OnceInv, WaitInv, SpawnInv, CleanupInv, PC, Child, Alive, Signals,
        StopPC, WaitPC, OncePC, CallerPC, Home, Owners, Stacks, testVars, osVars, spawnVars, stopVars
<1>1. ASSUME NEW t \in Tests, PickFreePort(t) PROVE ControlInv'
  BY <1>1 DEF PickFreePort
<1>2. ASSUME NEW t \in Tests, PickFails(t) PROVE ControlInv'
  BY <1>2 DEF PickFails
<1>3. ASSUME NEW t \in Tests, MakeHome(t) PROVE ControlInv'
  <2>1. TypeOK'
    BY <1>3 DEF MakeHome
  <2>2. ASSUME NEW u \in Tests PROVE OnceInv(u)'
    BY <1>3 DEF MakeHome
  <2>3. ASSUME NEW u \in Tests PROVE WaitInv(u)'
    BY <1>3 DEF MakeHome
  <2>4. ASSUME NEW u \in Tests PROVE SpawnInv(u)'
    BY <1>3 DEF MakeHome
  <2>5. ASSUME NEW u \in Tests PROVE CleanupInv(u)'
    BY <1>3 DEF MakeHome
  <2> QED BY <2>1, <2>2, <2>3, <2>4, <2>5
<1>4. ASSUME NEW t \in Tests, StartChild(t) PROVE ControlInv'
  BY <1>4 DEF StartChild
<1>5. ASSUME NEW t \in Tests, StartFails(t) PROVE ControlInv'
  <2>1. TypeOK'
    BY <1>5 DEF StartFails
  <2>2. ASSUME NEW u \in Tests PROVE OnceInv(u)'
    BY <1>5 DEF StartFails
  <2>3. ASSUME NEW u \in Tests PROVE WaitInv(u)'
    BY <1>5 DEF StartFails
  <2>4. ASSUME NEW u \in Tests PROVE SpawnInv(u)'
    BY <1>5 DEF StartFails
  <2>5. ASSUME NEW u \in Tests PROVE CleanupInv(u)'
    BY <1>5 DEF StartFails
  <2> QED BY <2>1, <2>2, <2>3, <2>4, <2>5
<1>6. ASSUME NEW t \in Tests, ProbeAnswered(t) PROVE ControlInv'
  BY <1>6 DEF ProbeAnswered
<1>7. ASSUME NEW t \in Tests, HealthzOK(t) PROVE ControlInv'
  <2>1. TypeOK'
    BY <1>7 DEF HealthzOK
  <2>2. ASSUME NEW u \in Tests PROVE OnceInv(u)'
    BY <1>7 DEF HealthzOK
  <2>3. ASSUME NEW u \in Tests PROVE WaitInv(u)'
    BY <1>7 DEF HealthzOK
  <2>4. ASSUME NEW u \in Tests PROVE SpawnInv(u)'
    BY <1>7 DEF HealthzOK
  <2>5. ASSUME NEW u \in Tests PROVE CleanupInv(u)'
    BY <1>7 DEF HealthzOK
  <2> QED BY <2>1, <2>2, <2>3, <2>4, <2>5
<1>8. ASSUME NEW t \in Tests, HealthzTimeout(t) PROVE ControlInv'
  BY <1>8 DEF HealthzTimeout
<1>9. ASSUME NEW t \in Tests, SpawnFails(t) PROVE ControlInv'
  <2>1. TypeOK'
    BY <1>9 DEF SpawnFails
  <2>2. ASSUME NEW u \in Tests PROVE OnceInv(u)'
    BY <1>9 DEF SpawnFails
  <2>3. ASSUME NEW u \in Tests PROVE WaitInv(u)'
    BY <1>9 DEF SpawnFails
  <2>4. ASSUME NEW u \in Tests PROVE SpawnInv(u)'
    BY <1>9 DEF SpawnFails
  <2>5. ASSUME NEW u \in Tests PROVE CleanupInv(u)'
    BY <1>9 DEF SpawnFails
  <2> QED BY <2>1, <2>2, <2>3, <2>4, <2>5
<1>10. ASSUME NEW t \in Tests, StopSignals(t) PROVE ControlInv'
  <2>1. TypeOK'
    <3>1. sig' \in [Tests -> SUBSET Signals]
      BY <1>10, DeliverType DEF StopSignals
    <3> QED BY <1>10, <3>1 DEF StopSignals
  <2>2. ASSUME NEW u \in Tests PROVE OnceInv(u)'
    BY <1>10 DEF StopSignals, Deliver
  <2>3. ASSUME NEW u \in Tests PROVE WaitInv(u)'
    BY <1>10 DEF StopSignals, Deliver
  <2>4. ASSUME NEW u \in Tests PROVE SpawnInv(u)'
    BY <1>10 DEF StopSignals, Deliver
  <2>5. ASSUME NEW u \in Tests PROVE CleanupInv(u)'
    BY <1>10 DEF StopSignals, Deliver
  <2> QED BY <2>1, <2>2, <2>3, <2>4, <2>5
<1>11. ASSUME NEW t \in Tests, StopGraceful(t) PROVE ControlInv'
  BY <1>11 DEF StopGraceful
<1>12. ASSUME NEW t \in Tests, StopGraceExpires(t) PROVE ControlInv'
  <2>1. TypeOK'
    <3>1. sig' \in [Tests -> SUBSET Signals]
      BY <1>12, DeliverType DEF StopGraceExpires
    <3> QED BY <1>12, <3>1 DEF StopGraceExpires
  <2>2. ASSUME NEW u \in Tests PROVE OnceInv(u)'
    BY <1>12 DEF StopGraceExpires, Deliver
  <2>3. ASSUME NEW u \in Tests PROVE WaitInv(u)'
    BY <1>12 DEF StopGraceExpires, Deliver
  <2>4. ASSUME NEW u \in Tests PROVE SpawnInv(u)'
    BY <1>12 DEF StopGraceExpires, Deliver
  <2>5. ASSUME NEW u \in Tests PROVE CleanupInv(u)'
    BY <1>12 DEF StopGraceExpires, Deliver
  <2> QED BY <2>1, <2>2, <2>3, <2>4, <2>5
<1>13. ASSUME NEW t \in Tests, StopAfterKill(t) PROVE ControlInv'
  BY <1>13 DEF StopAfterKill
<1>14. ASSUME NEW t \in Tests, WaitReaps(t) PROVE ControlInv'
  BY <1>14 DEF WaitReaps
<1>15. ASSUME NEW t \in Tests, WaitReturns(t) PROVE ControlInv'
  BY <1>15 DEF WaitReturns
<1>16. ASSUME NEW t \in Tests, TestEnds(t) PROVE ControlInv'
  BY <1>16 DEF TestEnds
<1>17. ASSUME NEW t \in Tests, CleanupStops(t) PROVE ControlInv'
  <2>1. TypeOK'
    <3>1. /\ caller' \in [Tests -> [Callers -> CallerPC]]
          /\ once' \in [Tests -> OncePC]
          /\ stop' \in [Tests -> StopPC]
      BY <1>17, StopType DEF CleanupStops
    <3> QED BY <1>17, <3>1 DEF CleanupStops, Stop
  <2>2. ASSUME NEW u \in Tests PROVE OnceInv(u)'
    BY <1>17 DEF CleanupStops, Stop
  <2>3. ASSUME NEW u \in Tests PROVE WaitInv(u)'
    BY <1>17 DEF CleanupStops, Stop
  <2>4. ASSUME NEW u \in Tests PROVE SpawnInv(u)'
    BY <1>17 DEF CleanupStops, Stop
  <2>5. ASSUME NEW u \in Tests PROVE CleanupInv(u)'
    BY <1>17 DEF CleanupStops, Stop
  <2> QED BY <2>1, <2>2, <2>3, <2>4, <2>5
<1>18. ASSUME NEW t \in Tests, CleanupStopped(t) PROVE ControlInv'
  <2>1. TypeOK'
    <3>1. Front(cleanups[t]) \in Stacks
      <4>1. cleanups[t] \in Stacks \ {NoHooks}
        BY <1>18 DEF CleanupStopped
      <4> QED BY <4>1
    <3>2. cleanups' \in [Tests -> Stacks]
      BY <1>18, <3>1 DEF CleanupStopped
    <3> QED BY <1>18, <3>2 DEF CleanupStopped
  <2>2. ASSUME NEW u \in Tests PROVE OnceInv(u)'
    BY <1>18 DEF CleanupStopped
  <2>3. ASSUME NEW u \in Tests PROVE WaitInv(u)'
    BY <1>18 DEF CleanupStopped
  <2>4. ASSUME NEW u \in Tests PROVE SpawnInv(u)'
    BY <1>18 DEF CleanupStopped
  <2>5. ASSUME NEW u \in Tests PROVE CleanupInv(u)'
    BY <1>18 DEF CleanupStopped
  <2> QED BY <2>1, <2>2, <2>3, <2>4, <2>5
<1>19. ASSUME NEW t \in Tests, CleanupRemovesHome(t) PROVE ControlInv'
  <2>1. TypeOK'
    <3>1. Front(cleanups[t]) \in Stacks
      <4>1. cleanups[t] \in Stacks \ {NoHooks}
        BY <1>19 DEF CleanupRemovesHome
      <4> QED BY <4>1
    <3>2. cleanups' \in [Tests -> Stacks]
      BY <1>19, <3>1 DEF CleanupRemovesHome
    <3> QED BY <1>19, <3>2 DEF CleanupRemovesHome
  <2>2. ASSUME NEW u \in Tests PROVE OnceInv(u)'
    BY <1>19 DEF CleanupRemovesHome
  <2>3. ASSUME NEW u \in Tests PROVE WaitInv(u)'
    BY <1>19 DEF CleanupRemovesHome
  <2>4. ASSUME NEW u \in Tests PROVE SpawnInv(u)'
    BY <1>19 DEF CleanupRemovesHome
  <2>5. ASSUME NEW u \in Tests PROVE CleanupInv(u)'
    BY <1>19 DEF CleanupRemovesHome
  <2> QED BY <2>1, <2>2, <2>3, <2>4, <2>5
<1>20. ASSUME NEW t \in Tests, TestDone(t) PROVE ControlInv'
  BY <1>20 DEF TestDone
<1>21. ASSUME NEW t \in Tests, ChildBinds(t) PROVE ControlInv'
  <2>1. TypeOK'
    BY <1>21 DEF ChildBinds
  <2>2. ASSUME NEW u \in Tests PROVE OnceInv(u)'
    BY <1>21 DEF ChildBinds
  <2>3. ASSUME NEW u \in Tests PROVE WaitInv(u)'
    BY <1>21 DEF ChildBinds
  <2>4. ASSUME NEW u \in Tests PROVE SpawnInv(u)'
    BY <1>21 DEF ChildBinds
  <2>5. ASSUME NEW u \in Tests PROVE CleanupInv(u)'
    BY <1>21 DEF ChildBinds
  <2> QED BY <2>1, <2>2, <2>3, <2>4, <2>5
<1>22. ASSUME NEW t \in Tests, ChildForks(t) PROVE ControlInv'
  BY <1>22 DEF ChildForks
<1>23. ASSUME NEW t \in Tests, WorkerExits(t) PROVE ControlInv'
  BY <1>23 DEF WorkerExits
<1>24. ASSUME NEW t \in Tests, ChildExits(t) PROVE ControlInv'
  BY <1>24 DEF ChildExits, Dies
<1>25. ASSUME NEW t \in Tests, ChildKilled(t) PROVE ControlInv'
  BY <1>25 DEF ChildKilled, Dies
<1>26. ASSUME NEW t \in Tests, NEW c \in Callers, StopDone(t, c) PROVE ControlInv'
  BY <1>26 DEF StopDone
<1>27. ASSUME NEW t \in Tests, NEW c \in Callers, StopWaited(t, c) PROVE ControlInv'
  BY <1>27 DEF StopWaited
<1>28. ASSUME NEW t \in Tests, NEW c \in Callers, BodyStops(t, c) PROVE ControlInv'
  <2>1. TypeOK'
    <3>1. /\ caller' \in [Tests -> [Callers -> CallerPC]]
          /\ once' \in [Tests -> OncePC]
          /\ stop' \in [Tests -> StopPC]
      BY <1>28, StopType DEF BodyStops
    <3> QED BY <1>28, <3>1 DEF BodyStops, Stop
  <2>2. ASSUME NEW u \in Tests PROVE OnceInv(u)'
    BY <1>28 DEF BodyStops, Stop
  <2>3. ASSUME NEW u \in Tests PROVE WaitInv(u)'
    BY <1>28 DEF BodyStops, Stop
  <2>4. ASSUME NEW u \in Tests PROVE SpawnInv(u)'
    BY <1>28 DEF BodyStops, Stop
  <2>5. ASSUME NEW u \in Tests PROVE CleanupInv(u)'
    BY <1>28 DEF BodyStops, Stop
  <2> QED BY <2>1, <2>2, <2>3, <2>4, <2>5
<1>29. ASSUME NEW p \in Ports, ForeignBinds(p) PROVE ControlInv'
  BY <1>29 DEF ForeignBinds
<1>30. ASSUME NEW p \in Ports, ForeignReleases(p) PROVE ControlInv'
  BY <1>30 DEF ForeignReleases
<1>31. CASE UNCHANGED vars
  BY <1>31 DEF vars
<1> QED
  BY <1>1, <1>2, <1>3, <1>4, <1>5, <1>6, <1>7, <1>8, <1>9, <1>10, <1>11, <1>12, <1>13, <1>14, <1>15, <1>16, <1>17, <1>18, <1>19, <1>20, <1>21, <1>22, <1>23, <1>24, <1>25, <1>26, <1>27, <1>28, <1>29, <1>30, <1>31
     DEF Next, SpawnStep, StopStep, EndStep, ProcessStep

-----------------------------------------------------------------------------
(* Who listens where and whom the poll heard. *)
Addresses ==
  /\ \A t \in Tests : AddressInv(t)
  /\ \A p \in Ports : owner[p] = Foreign => p \in ForeignPorts

(* Most steps touch neither a port nor an answer; what they do with the    *)
(* test and its handle cannot hurt.                                        *)
LEMMA AddressFrame ==
  ASSUME TypeOK, Addresses, UNCHANGED <<port, owner, child, answer>>,
         \A t \in Tests :
           /\ pc'[t] = pc[t] \/ pc'[t] \notin {"idle", "picked", "ready"} \/ answer[t] = Nobody
           /\ once'[t] = "none" \/ once[t] # "none" \/ answer[t] # Nobody
  PROVE  Addresses'
BY DEF Addresses, AddressInv, TypeOK

LEMMA StepAddress == ControlInv /\ Addresses /\ [Next]_vars => Addresses'
<1> SUFFICES ASSUME ControlInv, Addresses, [Next]_vars PROVE Addresses'
  OBVIOUS
<1> USE OwnerAssumption
<1>0. TypeOK
  BY DEF ControlInv
<1>1. ASSUME NEW t \in Tests, PickFreePort(t) PROVE Addresses'
  <2>1. child[t] = "none" /\ once[t] = "none" /\ answer[t] = Nobody
    BY <1>1 DEF ControlInv, OnceInv, SpawnInv, Addresses, AddressInv, PickFreePort
  <2>2. /\ \A u \in Tests \ {t} : port'[u] = port[u] /\ pc'[u] = pc[u]
        /\ UNCHANGED <<owner, child, answer, once>>
    BY <1>0, <1>1 DEF PickFreePort, TypeOK, osVars, stopVars
  <2>3. \A p \in Ports : owner[p] # t
    BY <2>1 DEF ControlInv, SpawnInv
  <2>4. AddressInv(t)'
    BY <2>1, <2>2, <2>3 DEF AddressInv
  <2>5. ASSUME NEW u \in Tests \ {t} PROVE AddressInv(u)'
    BY <2>1, <2>2 DEF AddressInv, Addresses
  <2> QED BY <2>2, <2>4, <2>5 DEF Addresses
<1>2. ASSUME NEW t \in Tests, PickFails(t) \/ MakeHome(t) \/ StartFails(t)
      PROVE  Addresses'
  <2>1. pc[t] \in {"idle", "picked", "ready"}
    BY <1>2 DEF PickFails, MakeHome, StartFails
  <2>2. answer[t] = Nobody
    BY <2>1 DEF Addresses, AddressInv
  <2>3. /\ UNCHANGED <<port, owner, child, answer, once>>
        /\ \A u \in Tests \ {t} : pc'[u] = pc[u]
    BY <1>0, <1>2 DEF PickFails, MakeHome, StartFails, TypeOK, osVars, spawnVars, stopVars
  <2> QED BY <1>0, <2>2, <2>3, AddressFrame DEF TypeOK
<1>3. ASSUME NEW t \in Tests, StartChild(t) PROVE Addresses'
  <2>1. child[t] = "none" /\ answer[t] = Nobody /\ port[t] \in Ports
    BY <1>3 DEF ControlInv, SpawnInv, Addresses, AddressInv, StartChild
  <2>2. /\ \A u \in Tests \ {t} : child'[u] = child[u] /\ pc'[u] = pc[u]
        /\ child'[t] = "booting" /\ pc'[t] = "polling"
        /\ UNCHANGED <<owner, port, answer, once>>
    BY <1>0, <1>3 DEF StartChild, TypeOK, spawnVars, stopVars
  <2>3. ASSUME NEW u \in Tests PROVE AddressInv(u)'
    BY <2>1, <2>2 DEF AddressInv, Addresses
  <2> QED BY <2>2, <2>3 DEF Addresses
<1>4. ASSUME NEW t \in Tests, ProbeAnswered(t) PROVE Addresses'
  <2>1. pc[t] = "polling" /\ port[t] \in Ports /\ owner[port[t]] # Nobody
    BY <1>4 DEF ControlInv, SpawnInv, ProbeAnswered
  <2>2. /\ \A u \in Tests \ {t} : answer'[u] = answer[u]
        /\ answer'[t] = owner[port[t]]
        /\ UNCHANGED <<owner, port, child, pc, once>>
    BY <1>0, <1>4 DEF ProbeAnswered, TypeOK, testVars, osVars, stopVars
  <2>3. \A u \in Tests : owner[port[t]] = u => child[u] = "serving" /\ port[u] = port[t]
    BY <2>1 DEF ControlInv, SpawnInv, Addresses, AddressInv
  <2>4. owner[port[t]] = Foreign => port[t] \in ForeignPorts
    BY <2>1 DEF Addresses
  <2>5. AddressInv(t)'
    BY <2>1, <2>2, <2>3, <2>4 DEF AddressInv, Addresses
  <2>6. ASSUME NEW u \in Tests \ {t} PROVE AddressInv(u)'
    BY <2>2 DEF AddressInv, Addresses
  <2> QED BY <2>2, <2>5, <2>6 DEF Addresses
<1>5. ASSUME NEW t \in Tests, HealthzOK(t) PROVE Addresses'
  <2>1. /\ UNCHANGED <<port, owner, child, answer>>
        /\ \A u \in Tests \ {t} : pc'[u] = pc[u] /\ once'[u] = once[u]
        /\ pc'[t] = "live" /\ answer[t] # Nobody
    BY <1>0, <1>5 DEF HealthzOK, TypeOK, osVars, spawnVars
  <2> QED BY <1>0, <2>1, AddressFrame DEF TypeOK
<1>6. ASSUME NEW t \in Tests, \/ HealthzTimeout(t) \/ SpawnFails(t) \/ TestEnds(t)
                              \/ TestDone(t)
      PROVE  Addresses'
  <2>1. /\ UNCHANGED <<port, owner, child, answer, once>>
        /\ \A u \in Tests \ {t} : pc'[u] = pc[u]
        /\ pc'[t] \in {"stopping", "failed", "cleaning", "done"}
    BY <1>0, <1>6 DEF HealthzTimeout, SpawnFails, TestEnds, TestDone, TypeOK, osVars,
                      spawnVars, stopVars
  <2> QED BY <1>0, <2>1, AddressFrame DEF TypeOK
<1>7. ASSUME NEW t \in Tests, \/ StopSignals(t) \/ StopGraceful(t) \/ StopGraceExpires(t)
                              \/ StopAfterKill(t) \/ WaitReturns(t) \/ CleanupStopped(t)
                              \/ CleanupRemovesHome(t) \/ ChildForks(t) \/ WorkerExits(t)
      PROVE  Addresses'
  <2>1. UNCHANGED <<pc, port, owner, child, answer, once>>
    BY <1>7 DEF StopSignals, StopGraceful, StopGraceExpires, StopAfterKill, WaitReturns,
                CleanupStopped, CleanupRemovesHome, ChildForks, WorkerExits, testVars, osVars,
                spawnVars, stopVars
  <2> QED BY <1>0, <2>1, AddressFrame
<1>8. ASSUME NEW t \in Tests, NEW c \in Callers,
             Stop(t, c) \/ StopDone(t, c) \/ StopWaited(t, c)
      PROVE  Addresses'
  <2>1. /\ UNCHANGED <<pc, port, owner, child, answer>>
        /\ \A u \in Tests : once'[u] = "none" \/ once[u] # "none"
    <3>1. UNCHANGED <<pc, port, owner, child, answer>>
      BY <1>8 DEF Stop, StopDone, StopWaited, testVars, osVars, spawnVars
    <3>2. CASE Stop(t, c)
      BY <1>0, <3>1, <3>2 DEF Stop, TypeOK
    <3>3. CASE StopDone(t, c)
      BY <1>0, <3>1, <3>3 DEF StopDone, TypeOK, ControlInv, OnceInv
    <3>4. CASE StopWaited(t, c)
      BY <3>1, <3>4 DEF StopWaited
    <3> QED BY <1>8, <3>1, <3>2, <3>3, <3>4
  <2> QED BY <1>0, <2>1, AddressFrame
<1>9. ASSUME NEW t \in Tests, WaitReaps(t) PROVE Addresses'
  <2>1. /\ \A u \in Tests \ {t} : child'[u] = child[u]
        /\ child[t] = "zombie" /\ child'[t] = "reaped"
        /\ UNCHANGED <<owner, port, answer, once, pc>>
    BY <1>0, <1>9 DEF WaitReaps, TypeOK, testVars, spawnVars
  <2>2. ASSUME NEW u \in Tests PROVE AddressInv(u)'
    BY <2>1 DEF AddressInv, Addresses
  <2> QED BY <2>1, <2>2 DEF Addresses
<1>10. ASSUME NEW t \in Tests, ChildBinds(t) PROVE Addresses'
  <2>1. /\ \A u \in Tests \ {t} : child'[u] = child[u]
        /\ child[t] = "booting" /\ child'[t] = "serving" /\ owner[port[t]] = Nobody
        /\ UNCHANGED <<port, answer, once, pc>>
        /\ owner' = [owner EXCEPT ![port[t]] = t]
    BY <1>0, <1>10 DEF ChildBinds, TypeOK, testVars, spawnVars, stopVars
  <2>2. port[t] \in Ports
    BY <2>1 DEF Addresses, AddressInv
  <2>3. /\ owner'[port[t]] = t
        /\ \A p \in Ports \ {port[t]} : owner'[p] = owner[p]
    BY <1>0, <2>1, <2>2 DEF TypeOK
  <2>4. AddressInv(t)'
    BY <2>1, <2>2, <2>3 DEF AddressInv, Addresses
  <2>5. ASSUME NEW u \in Tests \ {t} PROVE AddressInv(u)'
    BY <2>1, <2>2, <2>3 DEF AddressInv, Addresses
  <2> QED BY <2>3, <2>4, <2>5 DEF Addresses
<1>11. ASSUME NEW t \in Tests, ChildExits(t) \/ ChildKilled(t) PROVE Addresses'
  <2>1. /\ \A u \in Tests \ {t} : child'[u] = child[u]
        /\ child[t] # "none" /\ child'[t] = "zombie"
        /\ UNCHANGED <<port, answer, once, pc>>
        /\ \A p \in Ports : owner'[p] = IF owner[p] = t THEN Nobody ELSE owner[p]
    BY <1>0, <1>11 DEF ChildExits, ChildKilled, Dies, Alive, TypeOK, testVars, spawnVars, stopVars
  <2>2. ASSUME NEW u \in Tests PROVE AddressInv(u)'
    BY <2>1 DEF AddressInv, Addresses
  <2> QED BY <2>1, <2>2 DEF Addresses
<1>12. ASSUME NEW q \in Ports, ForeignBinds(q) \/ ForeignReleases(q) PROVE Addresses'
  <2>1. /\ \A p \in Ports \ {q} : owner'[p] = owner[p]
        /\ owner[q] \in {Nobody, Foreign} /\ owner'[q] \in {Nobody, Foreign}
        /\ owner'[q] = Foreign => q \in ForeignPorts
        /\ UNCHANGED <<port, answer, once, pc, child>>
    BY <1>0, <1>12 DEF ForeignBinds, ForeignReleases, TypeOK, testVars, spawnVars, stopVars
  <2>2. ASSUME NEW u \in Tests PROVE AddressInv(u)'
    BY <2>1 DEF AddressInv, Addresses
  <2> QED BY <2>1, <2>2 DEF Addresses
<1>13. CASE UNCHANGED vars
  BY <1>0, <1>13, AddressFrame DEF vars, testVars, osVars, spawnVars, stopVars
<1>14. ASSUME NEW t \in Tests, SpawnStep(t) PROVE Addresses'
  BY <1>1, <1>2, <1>3, <1>4, <1>5, <1>6, <1>14 DEF SpawnStep
<1>15. ASSUME NEW t \in Tests, StopStep(t) PROVE Addresses'
  BY <1>7, <1>8, <1>9, <1>15 DEF StopStep
<1>16. ASSUME NEW t \in Tests, EndStep(t) PROVE Addresses'
  BY <1>6, <1>7, <1>8, <1>16, CleanupAssumption DEF EndStep, CleanupStops
<1>17. ASSUME NEW t \in Tests, ProcessStep(t) PROVE Addresses'
  BY <1>7, <1>10, <1>11, <1>17 DEF ProcessStep
<1>18. ASSUME NEW t \in Tests, NEW c \in Callers, BodyStops(t, c) PROVE Addresses'
  BY <1>8, <1>18 DEF BodyStops
<1> QED
  BY <1>12, <1>13, <1>14, <1>15, <1>16, <1>17, <1>18 DEF Next

LEMMA InitInv == Init => IInv
<1>1. Init => \A t \in Tests : AddressInv(t)
  BY OwnerAssumption DEF Init, AddressInv
<1>2. Init => \A p \in Ports : owner[p] = Foreign => p \in ForeignPorts
  BY OwnerAssumption DEF Init
<1> QED BY <1>1, <1>2, InitControl DEF IInv

LEMMA StepInv == IInv /\ [Next]_vars => IInv'
BY StepControl, StepAddress DEF IInv, Addresses

-----------------------------------------------------------------------------
(* The inductive invariant holds in every reachable state.                 *)
THEOREM Invariance == Spec => []IInv
BY InitInv, StepInv, PTL DEF Spec

(* Every variable keeps its type.                                          *)
THEOREM TypeCorrect == Spec => []TypeOK
<1>1. IInv => TypeOK
  BY DEF IInv, ControlInv
<1> QED BY Invariance, <1>1, PTL

(* SpawnDaemon never returns an error while its child is left running or   *)
(* unreaped, whatever the order of the health deadline, the signals and    *)
(* the child's own death.                                                  *)
THEOREM SpawnErrorIsClean == Spec => []FailedSpawnLeavesNoChild
<1>1. IInv => FailedSpawnLeavesNoChild
  BY DEF IInv, ControlInv, OnceInv, SpawnInv, FailedSpawnLeavesNoChild
<1> QED BY Invariance, <1>1, PTL

(* Whichever of any number of racing callers Stop returns to, the child is *)
(* reaped and no port is bound by it.                                      *)
THEOREM StopIsComplete == Spec => []StopMeansReaped
<1>1. IInv => StopMeansReaped
  <2> SUFFICES ASSUME IInv, NEW t \in Tests, NEW c \in Callers,
                      caller[t][c] = "returned"
               PROVE  child[t] = "reaped" /\ \A p \in Ports : owner[p] # t
    BY DEF StopMeansReaped
  <2>1. stop[t] = "returned"
    BY DEF IInv, ControlInv, OnceInv
  <2>2. child[t] = "reaped"
    BY <2>1 DEF IInv, ControlInv, WaitInv
  <2> QED BY <2>2 DEF IInv, ControlInv, SpawnInv
<1> QED BY Invariance, <1>1, PTL

(* No test deletes its home while a process of its daemon that it can      *)
(* observe may still write there.                                          *)
THEOREM HomeOutlivesWriters == Spec => []HomeRemovedAfterWriters
<1>1. IInv => HomeRemovedAfterWriters
  <2> SUFFICES ASSUME IInv, NEW t \in Tests, home[t] = "removed"
               PROVE  child[t] \in {"none", "reaped"} /\ ~worker[t]
    BY DEF HomeRemovedAfterWriters
  <2>1. pc[t] \in {"cleaning", "done"} /\ once[t] \in {"none", "done"}
    BY HookStack DEF IInv, ControlInv, CleanupInv
  <2>2. CASE once[t] = "done"
    BY <2>2 DEF IInv, ControlInv, OnceInv, WaitInv
  <2>3. CASE once[t] = "none"
    BY <2>1, <2>3 DEF IInv, ControlInv, SpawnInv, WaitInv
  <2> QED BY <2>1, <2>2, <2>3
<1> QED BY Invariance, <1>1, PTL

(* When the process behind LiveDaemon.URL is not the child, it is one that *)
(* took the port before the child could bind it: a foreign process on a    *)
(* port such processes bind, or the child of a test given the same port.   *)
THEOREM OnlyATakerAnswers == Spec => []UrlServedByTaker
<1>1. IInv => UrlServedByTaker
  <2> SUFFICES ASSUME IInv, NEW t \in Tests, once[t] # "none", answer[t] # t
               PROVE  \/ answer[t] = Foreign /\ port[t] \in ForeignPorts
                      \/ \E u \in Tests \ {t} : answer[t] = u /\ port[u] = port[t]
    BY DEF UrlServedByTaker
  <2>1. answer[t] \in Owners \ {Nobody}
    BY DEF IInv, ControlInv, TypeOK, AddressInv
  <2>2. CASE answer[t] = Foreign
    BY <2>2 DEF IInv, AddressInv
  <2>3. CASE answer[t] \in Tests
    BY <2>3 DEF IInv, AddressInv
  <2> QED BY <2>1, <2>2, <2>3 DEF Owners
<1> QED BY Invariance, <1>1, PTL

-----------------------------------------------------------------------------
(* The orders in which the parts of a test move on. *)
LEMMA Orders ==
  /\ PCRank["idle"] < PCRank["picked"]      /\ PCRank["idle"] < PCRank["failed"]
  /\ PCRank["picked"] < PCRank["ready"]     /\ PCRank["picked"] < PCRank["failed"]
  /\ PCRank["ready"] < PCRank["polling"]    /\ PCRank["ready"] < PCRank["failed"]
  /\ PCRank["polling"] < PCRank["live"]     /\ PCRank["polling"] < PCRank["stopping"]
  /\ PCRank["stopping"] < PCRank["failed"]  /\ PCRank["failed"] < PCRank["cleaning"]
  /\ PCRank["live"] < PCRank["cleaning"]    /\ PCRank["cleaning"] < PCRank["done"]
  /\ StopRank["idle"] < StopRank["called"]  /\ StopRank["called"] < StopRank["select"]
  /\ StopRank["select"] < StopRank["killed"] /\ StopRank["select"] < StopRank["returned"]
  /\ StopRank["killed"] < StopRank["returned"]
  /\ WaitRank["none"] < WaitRank["blocked"] /\ WaitRank["blocked"] < WaitRank["copying"]
  /\ WaitRank["copying"] < WaitRank["sent"]
  /\ OnceRank["none"] < OnceRank["fresh"]   /\ OnceRank["fresh"] < OnceRank["running"]
  /\ OnceRank["running"] < OnceRank["done"]
  /\ CallerRank["idle"] < CallerRank["inside"] /\ CallerRank["idle"] < CallerRank["blocked"]
  /\ CallerRank["idle"] < CallerRank["returned"]
  /\ CallerRank["inside"] < CallerRank["returned"]
  /\ CallerRank["blocked"] < CallerRank["returned"]
  /\ ChildRank["none"] < ChildRank["booting"] /\ ChildRank["booting"] < ChildRank["serving"]
  /\ ChildRank["booting"] < ChildRank["zombie"] /\ ChildRank["serving"] < ChildRank["zombie"]
  /\ ChildRank["zombie"] < ChildRank["reaped"]
  /\ HomeRank["none"] < HomeRank["present"] /\ HomeRank["present"] < HomeRank["removed"]
BY DEF PCRank, StopRank, WaitRank, OnceRank, CallerRank, ChildRank, HomeRank

(* A call of Stop moves the caller on and starts stopFn at most once. *)
LEMMA StopForward ==
  ASSUME ControlInv, NEW t \in Tests, NEW c \in Callers, Stop(t, c), NEW u \in Tests
  PROVE  /\ Advances(StopRank, stop[u], stop'[u])
         /\ Advances(OnceRank, once[u], once'[u])
         /\ \A d \in Callers : Advances(CallerRank, caller[u][d], caller'[u][d])
<1>0. TypeOK
  BY DEF ControlInv
<1>1. CASE once[t] = "fresh"
  <2>1. stop[t] = "idle" /\ caller[t][c] = "idle"
    BY <1>1 DEF ControlInv, OnceInv, Stop
  <2>2. /\ caller' = [caller EXCEPT ![t][c] = "inside"]
        /\ once' = [once EXCEPT ![t] = "running"]
        /\ stop' = [stop EXCEPT ![t] = "called"]
    BY <1>1 DEF Stop
  <2> QED BY <1>0, <1>1, <2>1, <2>2, Orders DEF TypeOK, Advances
<1>2. CASE once[t] # "fresh"
  <2>1. caller[t][c] = "idle" /\ UNCHANGED <<once, stop>>
    BY <1>2 DEF Stop
  <2>2. PICK v \in {"blocked", "returned"} : caller' = [caller EXCEPT ![t][c] = v]
    BY <1>0, <1>2 DEF Stop, TypeOK, OncePC
  <2> QED BY <1>0, <2>1, <2>2, Orders DEF TypeOK, Advances
<1> QED BY <1>1, <1>2

LEMMA StepForward == ControlInv /\ [Next]_vars => \A u \in Tests : Forward(u)
<1> SUFFICES ASSUME ControlInv, [Next]_vars, NEW u \in Tests PROVE Forward(u)
  OBVIOUS
<1>0. TypeOK
  BY DEF ControlInv
<1> USE <1>0, Orders DEF TypeOK, Forward, Advances, testVars, osVars, spawnVars, stopVars
<1>1. ASSUME NEW t \in Tests, PickFreePort(t) PROVE Forward(u)
  BY <1>1 DEF PickFreePort
<1>2. ASSUME NEW t \in Tests, PickFails(t) PROVE Forward(u)
  BY <1>2 DEF PickFails
<1>3. ASSUME NEW t \in Tests, MakeHome(t) PROVE Forward(u)
  <2>1. home[t] # "removed"
    BY <1>3 DEF ControlInv, CleanupInv, MakeHome
  <2> QED BY <1>3, <2>1 DEF MakeHome, Home
<1>4. ASSUME NEW t \in Tests, StartChild(t) PROVE Forward(u)
  <2>1. child[t] = "none"
    BY <1>4 DEF ControlInv, SpawnInv, StartChild
  <2> QED BY <1>4, <2>1 DEF StartChild
<1>5. ASSUME NEW t \in Tests, StartFails(t) PROVE Forward(u)
  BY <1>5 DEF StartFails
<1>6. ASSUME NEW t \in Tests, ProbeAnswered(t) PROVE Forward(u)
  BY <1>6 DEF ProbeAnswered
<1>7. ASSUME NEW t \in Tests, HealthzOK(t) PROVE Forward(u)
  <2>1. once[t] = "none"
    BY <1>7 DEF ControlInv, OnceInv, HealthzOK
  <2> QED BY <1>7, <2>1 DEF HealthzOK
<1>8. ASSUME NEW t \in Tests, HealthzTimeout(t) PROVE Forward(u)
  <2>1. stop[t] = "idle"
    BY <1>8 DEF ControlInv, SpawnInv, HealthzTimeout
  <2> QED BY <1>8, <2>1 DEF HealthzTimeout
<1>9. ASSUME NEW t \in Tests, SpawnFails(t) PROVE Forward(u)
  BY <1>9 DEF SpawnFails
<1>10. ASSUME NEW t \in Tests, StopSignals(t) PROVE Forward(u)
  <2>1. wait[t] = "none"
    BY <1>10 DEF ControlInv, WaitInv, StopSignals
  <2> QED BY <1>10, <2>1 DEF StopSignals
<1>11. ASSUME NEW t \in Tests, StopGraceful(t) PROVE Forward(u)
  BY <1>11 DEF StopGraceful
<1>12. ASSUME NEW t \in Tests, StopGraceExpires(t) PROVE Forward(u)
  BY <1>12 DEF StopGraceExpires
<1>13. ASSUME NEW t \in Tests, StopAfterKill(t) PROVE Forward(u)
  BY <1>13 DEF StopAfterKill
<1>14. ASSUME NEW t \in Tests, WaitReaps(t) PROVE Forward(u)
  BY <1>14 DEF WaitReaps
<1>15. ASSUME NEW t \in Tests, WaitReturns(t) PROVE Forward(u)
  BY <1>15 DEF WaitReturns
<1>16. ASSUME NEW t \in Tests, NEW c \in Callers, StopDone(t, c) PROVE Forward(u)
  <2>1. once[t] = "running"
    BY <1>16 DEF ControlInv, OnceInv, StopDone
  <2> QED BY <1>16, <2>1 DEF StopDone
<1>17. ASSUME NEW t \in Tests, NEW c \in Callers, StopWaited(t, c) PROVE Forward(u)
  BY <1>17 DEF StopWaited
<1>18. ASSUME NEW t \in Tests, TestEnds(t) PROVE Forward(u)
  BY <1>18 DEF TestEnds
<1>19. ASSUME NEW t \in Tests, CleanupStops(t) PROVE Forward(u)
  <2>1. Stop(t, Cleanup)
    BY <1>19 DEF CleanupStops
  <2>2. UNCHANGED <<testVars, osVars, wait>>
    BY <2>1 DEF Stop
  <2> QED BY <2>1, <2>2, StopForward, CleanupAssumption
<1>20. ASSUME NEW t \in Tests, CleanupStopped(t) PROVE Forward(u)
  BY <1>20 DEF CleanupStopped
<1>21. ASSUME NEW t \in Tests, CleanupRemovesHome(t) PROVE Forward(u)
  <2>1. home[t] \in {"none", "present", "removed"} /\ HomeRank["none"] < HomeRank["removed"]
    BY DEF Home, HomeRank
  <2> QED BY <1>21, <2>1 DEF CleanupRemovesHome
<1>22. ASSUME NEW t \in Tests, TestDone(t) PROVE Forward(u)
  BY <1>22 DEF TestDone
<1>23. ASSUME NEW t \in Tests, ChildBinds(t) PROVE Forward(u)
  BY <1>23 DEF ChildBinds
<1>24. ASSUME NEW t \in Tests, ChildForks(t) PROVE Forward(u)
  BY <1>24 DEF ChildForks
<1>25. ASSUME NEW t \in Tests, WorkerExits(t) PROVE Forward(u)
  BY <1>25 DEF WorkerExits
<1>26. ASSUME NEW t \in Tests, ChildExits(t) PROVE Forward(u)
  BY <1>26 DEF ChildExits, Dies, Alive
<1>27. ASSUME NEW t \in Tests, ChildKilled(t) PROVE Forward(u)
  BY <1>27 DEF ChildKilled, Dies, Alive
<1>28. ASSUME NEW t \in Tests, NEW c \in Callers, BodyStops(t, c) PROVE Forward(u)
  <2>1. Stop(t, c)
    BY <1>28 DEF BodyStops
  <2>2. UNCHANGED <<testVars, osVars, wait>>
    BY <2>1 DEF Stop
  <2> QED BY <2>1, <2>2, StopForward, CleanupAssumption
<1>29. ASSUME NEW p \in Ports, ForeignBinds(p) PROVE Forward(u)
  BY <1>29 DEF ForeignBinds
<1>30. ASSUME NEW p \in Ports, ForeignReleases(p) PROVE Forward(u)
  BY <1>30 DEF ForeignReleases
<1>31. CASE UNCHANGED vars
  BY <1>31 DEF vars
<1>32. ASSUME NEW t \in Tests, SpawnStep(t) PROVE Forward(u)
  BY <1>1, <1>2, <1>3, <1>4, <1>5, <1>6, <1>7, <1>8, <1>9, <1>32 DEF SpawnStep
<1>33. ASSUME NEW t \in Tests, StopStep(t) PROVE Forward(u)
  BY <1>10, <1>11, <1>12, <1>13, <1>14, <1>15, <1>16, <1>17, <1>33 DEF StopStep
<1>34. ASSUME NEW t \in Tests, EndStep(t) PROVE Forward(u)
  BY <1>18, <1>19, <1>20, <1>21, <1>22, <1>34 DEF EndStep
<1>35. ASSUME NEW t \in Tests, ProcessStep(t) PROVE Forward(u)
  BY <1>23, <1>24, <1>25, <1>26, <1>27, <1>35 DEF ProcessStep
<1> QED
  BY <1>28, <1>29, <1>30, <1>31, <1>32, <1>33, <1>34, <1>35 DEF Next

(* However deadlines, signals, deaths and callers of Stop interleave, no    *)
(* part of a test starts over: stopFn and cmd.Wait run once, a reaped child *)
(* and a removed home stay so, and what moves goes on and never back.       *)
THEOREM NothingGoesBack == Spec => NothingStartsOver
<1>1. IInv /\ [Next]_vars => [\A t \in Tests : Forward(t)]_vars
  BY StepForward DEF IInv
<1> QED BY Invariance, <1>1, PTL DEF Spec, NothingStartsOver

(* However many goroutines call Stop, cmd.Wait is called once per daemon.  *)
THEOREM WaitIsCalledOnce == Spec => WaitOnce
<1>1. ASSUME IInv, [Next]_vars, NEW t \in Tests, wait[t] \in {"copying", "sent"}
      PROVE  wait'[t] # "blocked"
  <2>1. Advances(WaitRank, wait[t], wait'[t])
    BY <1>1, StepForward DEF IInv, Forward
  <2> QED BY <1>1, <2>1 DEF Advances, WaitRank
<1>2. IInv /\ [Next]_vars =>
        [\A t \in Tests : wait[t] \in {"copying", "sent"} => wait'[t] # "blocked"]_vars
  BY <1>1
<1> QED BY Invariance, <1>2, PTL DEF Spec, WaitOnce

-----------------------------------------------------------------------------
(* The implementation of ManagedProcess.                                   *)

PhaseMap    == [t \in Tests |-> PhaseOf(t)]
ProcMap     == [t \in Tests |-> ProcOf(t)]
ReturnedMap == [t \in Tests |-> {c \in Callers : caller[t][c] = "returned"}]

(* A step that changes nothing a test can see. *)
LEMMA Invisible ==
  ASSUME \A u \in Tests : PhaseOf(u)' = PhaseOf(u) /\ ProcOf(u)' = ProcOf(u),
         \A u \in Tests, c \in Callers :
           (caller[u][c] = "returned")' <=> caller[u][c] = "returned"
  PROVE  UNCHANGED Session!vars
<1>1. UNCHANGED <<PhaseMap, ProcMap>>
  BY DEF PhaseMap, ProcMap
<1>2. UNCHANGED ReturnedMap
  BY DEF ReturnedMap
<1> QED BY <1>1, <1>2 DEF Session!vars, PhaseMap, ProcMap, ReturnedMap

(* A step that changes what one test holds, and nothing else it can see. *)
LEMMA PhaseStep ==
  ASSUME NEW t \in Tests, NEW v, PhaseOf(t)' = v,
         \A u \in Tests : u # t => PhaseOf(u)' = PhaseOf(u),
         \A u \in Tests : ProcOf(u)' = ProcOf(u),
         \A u \in Tests, c \in Callers :
           (caller[u][c] = "returned")' <=> caller[u][c] = "returned"
  PROVE  PhaseMap' = [PhaseMap EXCEPT ![t] = v] /\ UNCHANGED <<ProcMap, ReturnedMap>>
BY DEF PhaseMap, ProcMap, ReturnedMap

(* A step that changes one child, and nothing else a test can see. *)
LEMMA ProcStep ==
  ASSUME NEW t \in Tests, NEW v, ProcOf(t)' = v,
         \A u \in Tests : u # t => ProcOf(u)' = ProcOf(u),
         \A u \in Tests : PhaseOf(u)' = PhaseOf(u),
         \A u \in Tests, c \in Callers :
           (caller[u][c] = "returned")' <=> caller[u][c] = "returned"
  PROVE  ProcMap' = [ProcMap EXCEPT ![t] = v] /\ UNCHANGED <<PhaseMap, ReturnedMap>>
BY DEF PhaseMap, ProcMap, ReturnedMap

(* A return of Stop, and nothing else a test can see. *)
LEMMA ReturnStep ==
  ASSUME NEW t \in Tests, NEW c \in Callers, (caller[t][c] = "returned")',
         \A u \in Tests : PhaseOf(u)' = PhaseOf(u) /\ ProcOf(u)' = ProcOf(u),
         \A u \in Tests, d \in Callers :
           <<u, d>> # <<t, c>> =>
             ((caller[u][d] = "returned")' <=> caller[u][d] = "returned")
  PROVE  /\ ReturnedMap' = [ReturnedMap EXCEPT ![t] = @ \cup {c}]
         /\ UNCHANGED <<PhaseMap, ProcMap>>
<1>1. UNCHANGED <<PhaseMap, ProcMap>>
  BY DEF PhaseMap, ProcMap
<1>2. ASSUME NEW u \in Tests
      PROVE  ReturnedMap'[u] = [ReturnedMap EXCEPT ![t] = @ \cup {c}][u]
  BY DEF ReturnedMap
<1> QED BY <1>1, <1>2 DEF ReturnedMap

LEMMA InitSession == Init => Session!Init
BY DEF Init, Session!Init, PhaseOf, ProcOf

(* Every step is a step of ManagedProcess or invisible. *)
LEMMA StepSession == IInv /\ [Next]_vars => [Session!Next]_Session!vars
<1> SUFFICES ASSUME IInv, [Next]_vars PROVE [Session!Next]_Session!vars
  OBVIOUS
<1> USE DEF PhaseOf, ProcOf, Alive, Child, IInv, ControlInv, TypeOK, OnceInv, WaitInv, SpawnInv,
            PC, OncePC, StopPC, WaitPC, CallerPC,
            testVars, osVars, spawnVars, stopVars
<1>1. ASSUME NEW t \in Tests, PickFreePort(t) PROVE Session!Begin(t)
  <2>1. PhaseOf(t) = "absent"
    BY <1>1 DEF PickFreePort
  <2>2. /\ PhaseOf(t)' = "starting"
        /\ \A u \in Tests : u # t => PhaseOf(u)' = PhaseOf(u)
        /\ \A u \in Tests : ProcOf(u)' = ProcOf(u)
        /\ UNCHANGED caller
    BY <1>1 DEF PickFreePort
  <2>3. PhaseMap' = [PhaseMap EXCEPT ![t] = "starting"] /\ UNCHANGED <<ProcMap, ReturnedMap>>
    BY <2>2, PhaseStep
  <2> HIDE DEF PhaseOf, ProcOf
  <2> QED BY <2>1, <2>3 DEF Session!Begin, PhaseMap, ProcMap, ReturnedMap
<1>2. ASSUME NEW t \in Tests, PickFails(t) PROVE Session!GiveError(t)
  <2>1. PhaseOf(t) \in {"absent", "starting"} /\ ProcOf(t) # "present"
    BY <1>2 DEF PickFails
  <2>2. /\ PhaseOf(t)' = "error"
        /\ \A u \in Tests : u # t => PhaseOf(u)' = PhaseOf(u)
        /\ \A u \in Tests : ProcOf(u)' = ProcOf(u)
        /\ UNCHANGED caller
    BY <1>2 DEF PickFails
  <2>3. PhaseMap' = [PhaseMap EXCEPT ![t] = "error"] /\ UNCHANGED <<ProcMap, ReturnedMap>>
    BY <2>2, PhaseStep
  <2> HIDE DEF PhaseOf, ProcOf
  <2> QED BY <2>1, <2>3 DEF Session!GiveError, PhaseMap, ProcMap, ReturnedMap
<1>3. ASSUME NEW t \in Tests, StartChild(t) PROVE Session!Launch(t)
  <2>1. PhaseOf(t) = "starting" /\ ProcOf(t) = "none"
    BY <1>3 DEF StartChild
  <2>2. /\ ProcOf(t)' = "present"
        /\ \A u \in Tests : u # t => ProcOf(u)' = ProcOf(u)
        /\ \A u \in Tests : PhaseOf(u)' = PhaseOf(u)
        /\ UNCHANGED caller
    BY <1>3 DEF StartChild
  <2>3. ProcMap' = [ProcMap EXCEPT ![t] = "present"] /\ UNCHANGED <<PhaseMap, ReturnedMap>>
    BY <2>2, ProcStep
  <2> HIDE DEF PhaseOf, ProcOf
  <2> QED BY <2>1, <2>3 DEF Session!Launch, PhaseMap, ProcMap, ReturnedMap
<1>4. ASSUME NEW t \in Tests, StartFails(t) PROVE Session!GiveError(t)
  <2>1. PhaseOf(t) \in {"absent", "starting"} /\ ProcOf(t) # "present"
    BY <1>4 DEF StartFails
  <2>2. /\ PhaseOf(t)' = "error"
        /\ \A u \in Tests : u # t => PhaseOf(u)' = PhaseOf(u)
        /\ \A u \in Tests : ProcOf(u)' = ProcOf(u)
        /\ UNCHANGED caller
    BY <1>4 DEF StartFails
  <2>3. PhaseMap' = [PhaseMap EXCEPT ![t] = "error"] /\ UNCHANGED <<ProcMap, ReturnedMap>>
    BY <2>2, PhaseStep
  <2> HIDE DEF PhaseOf, ProcOf
  <2> QED BY <2>1, <2>3 DEF Session!GiveError, PhaseMap, ProcMap, ReturnedMap
<1>5. ASSUME NEW t \in Tests, HealthzOK(t) PROVE Session!GiveHandle(t)
  <2>1. PhaseOf(t) = "starting" /\ ProcOf(t) = "present"
    BY <1>5 DEF HealthzOK
  <2>2. /\ PhaseOf(t)' = "handle"
        /\ \A u \in Tests : u # t => PhaseOf(u)' = PhaseOf(u)
        /\ \A u \in Tests : ProcOf(u)' = ProcOf(u)
        /\ UNCHANGED caller
    BY <1>5 DEF HealthzOK
  <2>3. PhaseMap' = [PhaseMap EXCEPT ![t] = "handle"] /\ UNCHANGED <<ProcMap, ReturnedMap>>
    BY <2>2, PhaseStep
  <2> HIDE DEF PhaseOf, ProcOf
  <2> QED BY <2>1, <2>3 DEF Session!GiveHandle, PhaseMap, ProcMap, ReturnedMap
<1>6. ASSUME NEW t \in Tests, SpawnFails(t) PROVE Session!GiveError(t)
  <2>1. PhaseOf(t) \in {"absent", "starting"} /\ ProcOf(t) # "present"
    BY <1>6 DEF SpawnFails
  <2>2. /\ PhaseOf(t)' = "error"
        /\ \A u \in Tests : u # t => PhaseOf(u)' = PhaseOf(u)
        /\ \A u \in Tests : ProcOf(u)' = ProcOf(u)
        /\ UNCHANGED caller
    BY <1>6 DEF SpawnFails
  <2>3. PhaseMap' = [PhaseMap EXCEPT ![t] = "error"] /\ UNCHANGED <<ProcMap, ReturnedMap>>
    BY <2>2, PhaseStep
  <2> HIDE DEF PhaseOf, ProcOf
  <2> QED BY <2>1, <2>3 DEF Session!GiveError, PhaseMap, ProcMap, ReturnedMap
<1>7. ASSUME NEW t \in Tests, WaitReaps(t) PROVE Session!Reap(t)
  <2>1. ProcOf(t) = "present"
    BY <1>7 DEF WaitReaps
  <2>2. /\ ProcOf(t)' = "gone"
        /\ \A u \in Tests : u # t => ProcOf(u)' = ProcOf(u)
        /\ \A u \in Tests : PhaseOf(u)' = PhaseOf(u)
        /\ UNCHANGED caller
    BY <1>7 DEF WaitReaps
  <2>3. ProcMap' = [ProcMap EXCEPT ![t] = "gone"] /\ UNCHANGED <<PhaseMap, ReturnedMap>>
    BY <2>2, ProcStep
  <2> HIDE DEF PhaseOf, ProcOf
  <2> QED BY <2>1, <2>3 DEF Session!Reap, PhaseMap, ProcMap, ReturnedMap
<1>8. ASSUME NEW t \in Tests, HealthzTimeout(t) PROVE UNCHANGED Session!vars
  BY <1>8, Invisible DEF HealthzTimeout
<1>9. ASSUME NEW t \in Tests, ProbeAnswered(t) PROVE UNCHANGED Session!vars
  BY <1>9, Invisible DEF ProbeAnswered
<1>10. ASSUME NEW t \in Tests, StopSignals(t) PROVE UNCHANGED Session!vars
  BY <1>10, Invisible DEF StopSignals, Deliver
<1>11. ASSUME NEW t \in Tests, StopGraceful(t) PROVE UNCHANGED Session!vars
  BY <1>11, Invisible DEF StopGraceful
<1>12. ASSUME NEW t \in Tests, StopGraceExpires(t) PROVE UNCHANGED Session!vars
  BY <1>12, Invisible DEF StopGraceExpires, Deliver
<1>13. ASSUME NEW t \in Tests, StopAfterKill(t) PROVE UNCHANGED Session!vars
  BY <1>13, Invisible DEF StopAfterKill
<1>14. ASSUME NEW t \in Tests, WaitReturns(t) PROVE UNCHANGED Session!vars
  BY <1>14, Invisible DEF WaitReturns
<1>15. ASSUME NEW t \in Tests, TestEnds(t) PROVE UNCHANGED Session!vars
  BY <1>15, Invisible DEF TestEnds
<1>16. ASSUME NEW t \in Tests, CleanupStopped(t) PROVE UNCHANGED Session!vars
  BY <1>16, Invisible DEF CleanupStopped
<1>17. ASSUME NEW t \in Tests, CleanupRemovesHome(t) PROVE UNCHANGED Session!vars
  BY <1>17, Invisible DEF CleanupRemovesHome
<1>18. ASSUME NEW t \in Tests, TestDone(t) PROVE UNCHANGED Session!vars
  BY <1>18, Invisible DEF TestDone
<1>19. ASSUME NEW t \in Tests, ChildBinds(t) PROVE UNCHANGED Session!vars
  BY <1>19, Invisible DEF ChildBinds
<1>20. ASSUME NEW t \in Tests, ChildForks(t) PROVE UNCHANGED Session!vars
  BY <1>20, Invisible DEF ChildForks
<1>21. ASSUME NEW t \in Tests, WorkerExits(t) PROVE UNCHANGED Session!vars
  BY <1>21, Invisible DEF WorkerExits
<1>22. ASSUME NEW t \in Tests, ChildExits(t) PROVE UNCHANGED Session!vars
  BY <1>22, Invisible DEF ChildExits, Dies
<1>23. ASSUME NEW t \in Tests, ChildKilled(t) PROVE UNCHANGED Session!vars
  BY <1>23, Invisible DEF ChildKilled, Dies
<1>24. ASSUME NEW t \in Tests, MakeHome(t) PROVE Session!GiveError(t) \/ UNCHANGED Session!vars
  <2>1. CASE pc' = [pc EXCEPT ![t] = "ready"]
    <3>1. /\ \A u \in Tests : PhaseOf(u)' = PhaseOf(u)
          /\ \A u \in Tests : ProcOf(u)' = ProcOf(u)
          /\ UNCHANGED caller
      BY <1>24, <2>1 DEF MakeHome
    <3> QED BY <3>1, Invisible
  <2>2. CASE pc' = [pc EXCEPT ![t] = "failed"]
    <3>1. PhaseOf(t) \in {"absent", "starting"} /\ ProcOf(t) # "present"
      BY <1>24 DEF MakeHome
    <3>2. /\ PhaseOf(t)' = "error"
          /\ \A u \in Tests : u # t => PhaseOf(u)' = PhaseOf(u)
          /\ \A u \in Tests : ProcOf(u)' = ProcOf(u)
          /\ UNCHANGED caller
      BY <1>24, <2>2 DEF MakeHome
    <3>3. PhaseMap' = [PhaseMap EXCEPT ![t] = "error"] /\ UNCHANGED <<ProcMap, ReturnedMap>>
      BY <3>2, PhaseStep
    <3> HIDE DEF PhaseOf, ProcOf
    <3> QED BY <3>1, <3>3 DEF Session!GiveError, PhaseMap, ProcMap, ReturnedMap
  <2> QED BY <1>24, <2>1, <2>2 DEF MakeHome
<1>25. ASSUME NEW t \in Tests, NEW c \in Callers, StopDone(t, c) PROVE Session!StopReturns(t, c)
  <2>1. PhaseOf(t) = "handle" /\ ProcOf(t) = "gone"
    BY <1>25 DEF StopDone
  <2>2. /\ (caller[t][c] = "returned")'
        /\ \A u \in Tests : PhaseOf(u)' = PhaseOf(u) /\ ProcOf(u)' = ProcOf(u)
        /\ \A u \in Tests, d \in Callers : <<u, d>> # <<t, c>> =>
             ((caller[u][d] = "returned")' <=> caller[u][d] = "returned")
    BY <1>25 DEF StopDone
  <2>3. ReturnedMap' = [ReturnedMap EXCEPT ![t] = @ \cup {c}] /\ UNCHANGED <<PhaseMap, ProcMap>>
    BY <2>2, ReturnStep
  <2> HIDE DEF PhaseOf, ProcOf
  <2> QED BY <2>1, <2>3 DEF Session!StopReturns, PhaseMap, ProcMap, ReturnedMap
<1>26. ASSUME NEW t \in Tests, NEW c \in Callers, StopWaited(t, c) PROVE Session!StopReturns(t, c)
  <2>1. PhaseOf(t) = "handle" /\ ProcOf(t) = "gone"
    BY <1>26 DEF StopWaited
  <2>2. /\ (caller[t][c] = "returned")'
        /\ \A u \in Tests : PhaseOf(u)' = PhaseOf(u) /\ ProcOf(u)' = ProcOf(u)
        /\ \A u \in Tests, d \in Callers : <<u, d>> # <<t, c>> =>
             ((caller[u][d] = "returned")' <=> caller[u][d] = "returned")
    BY <1>26 DEF StopWaited
  <2>3. ReturnedMap' = [ReturnedMap EXCEPT ![t] = @ \cup {c}] /\ UNCHANGED <<PhaseMap, ProcMap>>
    BY <2>2, ReturnStep
  <2> HIDE DEF PhaseOf, ProcOf
  <2> QED BY <2>1, <2>3 DEF Session!StopReturns, PhaseMap, ProcMap, ReturnedMap
<1>27. ASSUME NEW t \in Tests, NEW c \in Callers, Stop(t, c)
      PROVE  Session!StopReturns(t, c) \/ UNCHANGED Session!vars
  <2>1. CASE once[t] = "done"
    <3>1. PhaseOf(t) = "handle" /\ ProcOf(t) = "gone"
      BY <1>27, <2>1 DEF Stop
    <3>2. /\ (caller[t][c] = "returned")'
          /\ \A u \in Tests : PhaseOf(u)' = PhaseOf(u) /\ ProcOf(u)' = ProcOf(u)
          /\ \A u \in Tests, d \in Callers : <<u, d>> # <<t, c>> =>
               ((caller[u][d] = "returned")' <=> caller[u][d] = "returned")
      BY <1>27, <2>1 DEF Stop
    <3>3. ReturnedMap' = [ReturnedMap EXCEPT ![t] = @ \cup {c}] /\ UNCHANGED <<PhaseMap, ProcMap>>
      BY <3>2, ReturnStep
    <3> HIDE DEF PhaseOf, ProcOf
    <3> QED BY <3>1, <3>3 DEF Session!StopReturns, PhaseMap, ProcMap, ReturnedMap
  <2>2. CASE once[t] # "done"
    BY <1>27, <2>2, Invisible DEF Stop
  <2> QED BY <2>1, <2>2
<1>28. ASSUME NEW p \in Ports, ForeignBinds(p) \/ ForeignReleases(p) PROVE UNCHANGED Session!vars
  BY <1>28, Invisible DEF ForeignBinds, ForeignReleases
<1>29. CASE UNCHANGED vars
  BY <1>29, Invisible DEF vars
<1> QED
  BY <1>1, <1>2, <1>3, <1>4, <1>5, <1>6, <1>7, <1>8, <1>9, <1>10, <1>11, <1>12, <1>13, <1>14, <1>15, <1>16, <1>17, <1>18, <1>19, <1>20, <1>21, <1>22, <1>23, <1>24, <1>25, <1>26, <1>27, <1>28, <1>29, CleanupAssumption
     DEF Next, SpawnStep, StopStep, EndStep, ProcessStep, BodyStops, CleanupStops,
         Session!Next

(* The harness implements ManagedProcess: an error leaves no child, and    *)
(* Stop returns only when the child is gone.                               *)
THEOREM Implementation == Spec => ImplementsSession
BY InitSession, StepSession, Invariance, PTL DEF Spec, ImplementsSession, Session!Spec

=============================================================================
