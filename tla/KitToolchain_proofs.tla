------------------------ MODULE KitToolchain_proofs ------------------------
(***************************************************************************)
(* Proofs about KitToolchain, for any number of sandboxes and commands.    *)
(***************************************************************************)
EXTENDS KitToolchain, TLAPS

LEMMA InitInv == Init => IInv
<1> SUFFICES ASSUME Init PROVE IInv
  OBVIOUS
<1> USE DEF Init, Stops, Driving, Executing, Provisioning, Verifying
<1>1. TypeOK
  BY DEF TypeOK, Kits, Urls, Codes, Origins
<1>2. SandboxInv
  BY DEF SandboxInv
<1>3. ProgressInv
  BY DEF ProgressInv
<1>4. CodeInv
  BY DEF CodeInv
<1>5. RedactionScope
  BY DEF RedactionScope
<1> QED BY <1>1, <1>2, <1>3, <1>4, <1>5 DEF IInv

(* No step leaves the types.                                               *)
LEMMA TypeStep ==
  ASSUME IInv, [Next]_vars
  PROVE  TypeOK'
<1> USE SandboxAssumption, CommandsAssumption DEF IInv, TypeOK, SandboxInv, Kits, Urls, Codes, Origins, Stops, Driving, Executing, Provisioning, Verifying, local, ended, world, inside
<1>1. CASE SkipWithoutKey
  BY <1>1 DEF SkipWithoutKey, Fresh
<1>2. ASSUME NEW k \in Kits, NEW u \in Urls, NEW dry \in BOOLEAN, Start(k, u, dry) PROVE TypeOK'
  BY <1>2 DEF Start, Fresh
<1>3. CASE MakeVenv
  BY <1>3 DEF MakeVenv, Goto, Exit
<1>4. CASE PipInstall
  BY <1>4 DEF PipInstall, Goto, Exit
<1>5. CASE RenderDryRun
  BY <1>5 DEF RenderDryRun, Exit
<1>6. CASE BuildPlan
  BY <1>6 DEF BuildPlan, Goto, Exit
<1>7. CASE CreateFails
  BY <1>7 DEF CreateFails, Raise, Goto
<1>8. ASSUME NEW s \in Sandboxes, Create(s) PROVE TypeOK'
  BY <1>8 DEF Create, Obtained, Goto, BaseImages, Origins
<1>9. ASSUME NEW s \in Sandboxes, CreateLost(s) PROVE TypeOK'
  BY <1>9 DEF CreateLost, Obtained, Raise, Goto
<1>27. CASE RegisterName
  BY <1>27 DEF RegisterName, Goto
<1>10. CASE StepRaises
  BY <1>10 DEF StepRaises, Raise, Goto
<1>11. CASE StageFixture
  BY <1>11 DEF StageFixture, Succeeds, Goto
<1>12. CASE StageLocal
  BY <1>12 DEF StageLocal, Succeeds, Goto
<1>13. CASE EstablishCleanBase
  BY <1>13 DEF EstablishCleanBase, Succeeds, Goto, Origins
<1>14. CASE ToolchainInstall
  BY <1>14 DEF ToolchainInstall, Succeeds, Goto, Origins
<1>15. CASE PostAcquire
  BY <1>15 DEF PostAcquire, Succeeds, Goto
<1>16. CASE VerifyVersion
  BY <1>16 DEF VerifyVersion, Succeeds, Goto, Finds
<1>17. CASE VerifyBuild
  BY <1>17 DEF VerifyBuild, Succeeds, Goto, Finds
<1>18. CASE VerifyTest
  BY <1>18 DEF VerifyTest, Succeeds, Goto, Finds
<1>19. CASE NothingToKill
  BY <1>19 DEF NothingToKill, Unwind, Goto, Exit
<1>20. CASE Kill
  BY <1>20 DEF Kill, Unwind, Goto, Exit
<1>21. CASE KillRaises
  BY <1>21 DEF KillRaises, Unwind, Goto, Exit
<1>22. CASE Verdict
  <2>1. /\ pc' = "idle" /\ code' \in {"ok", "fail"} /\ redacting' = FALSE
        /\ UNCHANGED <<pending, mine, alive, kit, url, todo, evidence, ended, world, inside>>
    BY <1>22 DEF Verdict, Exit
  <2>2. /\ pc' \in Stops /\ code' \in Codes /\ pending' \in BOOLEAN /\ redacting' \in BOOLEAN
    BY <2>1
  <2>3. UNCHANGED <<mine, alive, kit, url, todo, evidence>>
    BY <2>1
  <2>4. UNCHANGED <<ended, world, inside>>
    BY <2>1
  <2> QED BY <2>2, <2>3, <2>4
<1>23. CASE Interrupt
  <2>1. /\ pc' \in {"idle", "kill"} /\ code' \in {code, "interrupted"}
        /\ pending' \in {pending, TRUE} /\ redacting' \in {redacting, FALSE}
        /\ UNCHANGED <<mine, alive, kit, url, todo, evidence, ended, world, inside>>
    BY <1>23 DEF Interrupt, Exit
  <2>2. /\ pc' \in Stops /\ code' \in Codes /\ pending' \in BOOLEAN /\ redacting' \in BOOLEAN
    BY <2>1
  <2>3. UNCHANGED <<mine, alive, kit, url, todo, evidence>>
    BY <2>1
  <2>4. UNCHANGED <<ended, world, inside>>
    BY <2>1
  <2> QED BY <2>2, <2>3, <2>4
<1>24. CASE Dies
  BY <1>24 DEF Dies, Exit
<1>25. ASSUME NEW s \in Sandboxes, Expires(s) PROVE TypeOK'
  BY <1>25 DEF Expires
<1>26. CASE UNCHANGED vars
  BY <1>26 DEF vars
<1> QED BY <1>1, <1>2, <1>3, <1>4, <1>5, <1>6, <1>7, <1>8, <1>9, <1>10,
     <1>11, <1>12, <1>13, <1>14, <1>15, <1>16, <1>17, <1>18, <1>19, <1>20,
     <1>21, <1>22, <1>23, <1>24, <1>25, <1>26, <1>27
     DEF Next, Step

(* The sandbox of the run and the teardown.                                *)
LEMMA SandboxStep ==
  ASSUME IInv, [Next]_vars
  PROVE  SandboxInv'
<1> USE SandboxAssumption DEF IInv, TypeOK, SandboxInv, CodeInv, Stops, Driving, Executing, Provisioning, Verifying, local, ended, world, inside
<1>1. CASE SkipWithoutKey
  BY <1>1 DEF SkipWithoutKey, Fresh
<1>2. ASSUME NEW k \in Kits, NEW u \in Urls, NEW dry \in BOOLEAN, Start(k, u, dry) PROVE SandboxInv'
  BY <1>2 DEF Start, Fresh
<1>3. CASE MakeVenv
  BY <1>3 DEF MakeVenv, Goto, Exit
<1>4. CASE PipInstall
  BY <1>4 DEF PipInstall, Goto, Exit
<1>5. CASE RenderDryRun
  BY <1>5 DEF RenderDryRun, Exit
<1>6. CASE BuildPlan
  BY <1>6 DEF BuildPlan, Goto, Exit
<1>7. CASE CreateFails
  BY <1>7 DEF CreateFails, Raise, Goto
<1>8. ASSUME NEW s \in Sandboxes, Create(s) PROVE SandboxInv'
  BY <1>8 DEF Create, Obtained, Goto, BaseImages, Origins
<1>9. ASSUME NEW s \in Sandboxes, CreateLost(s) PROVE SandboxInv'
  BY <1>9 DEF CreateLost, Obtained, Raise, Goto
<1>27. CASE RegisterName
  BY <1>27 DEF RegisterName, Goto
<1>10. CASE StepRaises
  BY <1>10 DEF StepRaises, Raise, Goto
<1>11. CASE StageFixture
  BY <1>11 DEF StageFixture, Succeeds, Goto
<1>12. CASE StageLocal
  BY <1>12 DEF StageLocal, Succeeds, Goto
<1>13. CASE EstablishCleanBase
  BY <1>13 DEF EstablishCleanBase, Succeeds, Goto, Origins
<1>14. CASE ToolchainInstall
  BY <1>14 DEF ToolchainInstall, Succeeds, Goto, Origins
<1>15. CASE PostAcquire
  BY <1>15 DEF PostAcquire, Succeeds, Goto
<1>16. CASE VerifyVersion
  BY <1>16 DEF VerifyVersion, Succeeds, Goto, Finds
<1>17. CASE VerifyBuild
  BY <1>17 DEF VerifyBuild, Succeeds, Goto, Finds
<1>18. CASE VerifyTest
  BY <1>18 DEF VerifyTest, Succeeds, Goto, Finds
<1>19. CASE NothingToKill
  BY <1>19 DEF NothingToKill, Unwind, Goto, Exit
<1>20. CASE Kill
  BY <1>20 DEF Kill, Unwind, Goto, Exit
<1>21. CASE KillRaises
  BY <1>21 DEF KillRaises, Unwind, Goto, Exit
<1>22. CASE Verdict
  BY <1>22 DEF Verdict, Exit
<1>23. CASE Interrupt
  BY <1>23 DEF Interrupt, Exit
<1>24. CASE Dies
  BY <1>24 DEF Dies, Exit
<1>25. ASSUME NEW s \in Sandboxes, Expires(s) PROVE SandboxInv'
  BY <1>25 DEF Expires
<1>26. CASE UNCHANGED vars
  BY <1>26 DEF vars
<1> QED BY <1>1, <1>2, <1>3, <1>4, <1>5, <1>6, <1>7, <1>8, <1>9, <1>10,
     <1>11, <1>12, <1>13, <1>14, <1>15, <1>16, <1>17, <1>18, <1>19, <1>20,
     <1>21, <1>22, <1>23, <1>24, <1>25, <1>26, <1>27
     DEF Next, Step

(* What has been done in the sandbox.                                      *)
LEMMA ProgressStep ==
  ASSUME IInv, [Next]_vars
  PROVE  ProgressInv'
<1> USE SandboxAssumption DEF IInv, TypeOK, SandboxInv, ProgressInv, Stops, Driving, Executing, Provisioning, Verifying, local, ended, world, inside
<1>1. CASE SkipWithoutKey
  BY <1>1 DEF SkipWithoutKey, Fresh
<1>2. ASSUME NEW k \in Kits, NEW u \in Urls, NEW dry \in BOOLEAN, Start(k, u, dry) PROVE ProgressInv'
  BY <1>2 DEF Start, Fresh
<1>3. CASE MakeVenv
  BY <1>3 DEF MakeVenv, Goto, Exit
<1>4. CASE PipInstall
  BY <1>4 DEF PipInstall, Goto, Exit
<1>5. CASE RenderDryRun
  BY <1>5 DEF RenderDryRun, Exit
<1>6. CASE BuildPlan
  BY <1>6 DEF BuildPlan, Goto, Exit
<1>7. CASE CreateFails
  BY <1>7 DEF CreateFails, Raise, Goto
<1>8. ASSUME NEW s \in Sandboxes, Create(s) PROVE ProgressInv'
  BY <1>8 DEF Create, Obtained, Goto, BaseImages, Origins
<1>9. ASSUME NEW s \in Sandboxes, CreateLost(s) PROVE ProgressInv'
  BY <1>9 DEF CreateLost, Obtained, Raise, Goto
<1>27. CASE RegisterName
  BY <1>27 DEF RegisterName, Goto
<1>10. CASE StepRaises
  BY <1>10 DEF StepRaises, Raise, Goto
<1>11. CASE StageFixture
  BY <1>11 DEF StageFixture, Succeeds, Goto
<1>12. CASE StageLocal
  BY <1>12 DEF StageLocal, Succeeds, Goto
<1>13. CASE EstablishCleanBase
  BY <1>13 DEF EstablishCleanBase, Succeeds, Goto, Origins
<1>14. CASE ToolchainInstall
  BY <1>14 DEF ToolchainInstall, Succeeds, Goto, Origins
<1>15. CASE PostAcquire
  BY <1>15 DEF PostAcquire, Succeeds, Goto
<1>16. CASE VerifyVersion
  BY <1>16 DEF VerifyVersion, Succeeds, Goto, Finds
<1>17. CASE VerifyBuild
  BY <1>17 DEF VerifyBuild, Succeeds, Goto, Finds
<1>18. CASE VerifyTest
  BY <1>18 DEF VerifyTest, Succeeds, Goto, Finds
<1>19. CASE NothingToKill
  BY <1>19 DEF NothingToKill, Unwind, Goto, Exit
<1>20. CASE Kill
  BY <1>20 DEF Kill, Unwind, Goto, Exit
<1>21. CASE KillRaises
  BY <1>21 DEF KillRaises, Unwind, Goto, Exit
<1>22. CASE Verdict
  BY <1>22 DEF Verdict, Exit
<1>23. CASE Interrupt
  BY <1>23 DEF Interrupt, Exit
<1>24. CASE Dies
  BY <1>24 DEF Dies, Exit
<1>25. ASSUME NEW s \in Sandboxes, Expires(s) PROVE ProgressInv'
  BY <1>25 DEF Expires
<1>26. CASE UNCHANGED vars
  BY <1>26 DEF vars
<1> QED BY <1>1, <1>2, <1>3, <1>4, <1>5, <1>6, <1>7, <1>8, <1>9, <1>10,
     <1>11, <1>12, <1>13, <1>14, <1>15, <1>16, <1>17, <1>18, <1>19, <1>20,
     <1>21, <1>22, <1>23, <1>24, <1>25, <1>26, <1>27
     DEF Next, Step

(* What the exit status says.                                              *)
LEMMA CodeStep ==
  ASSUME IInv, [Next]_vars
  PROVE  CodeInv'
<1> USE SandboxAssumption DEF IInv, SandboxInv, CodeInv, Stops, Driving, Executing, Provisioning, Verifying, local, ended, world, inside
<1>1. CASE SkipWithoutKey
  BY <1>1 DEF SkipWithoutKey, Fresh
<1>2. ASSUME NEW k \in Kits, NEW u \in Urls, NEW dry \in BOOLEAN, Start(k, u, dry) PROVE CodeInv'
  BY <1>2 DEF Start, Fresh
<1>3. CASE MakeVenv
  BY <1>3 DEF MakeVenv, Goto, Exit
<1>4. CASE PipInstall
  BY <1>4 DEF PipInstall, Goto, Exit
<1>5. CASE RenderDryRun
  BY <1>5 DEF RenderDryRun, Exit
<1>6. CASE BuildPlan
  BY <1>6 DEF BuildPlan, Goto, Exit
<1>7. CASE CreateFails
  BY <1>7 DEF CreateFails, Raise, Goto
<1>8. ASSUME NEW s \in Sandboxes, Create(s) PROVE CodeInv'
  BY <1>8 DEF Create, Obtained, Goto, BaseImages, Origins
<1>9. ASSUME NEW s \in Sandboxes, CreateLost(s) PROVE CodeInv'
  BY <1>9 DEF CreateLost, Obtained, Raise, Goto
<1>27. CASE RegisterName
  BY <1>27 DEF RegisterName, Goto
<1>10. CASE StepRaises
  BY <1>10 DEF StepRaises, Raise, Goto
<1>11. CASE StageFixture
  BY <1>11 DEF StageFixture, Succeeds, Goto
<1>12. CASE StageLocal
  BY <1>12 DEF StageLocal, Succeeds, Goto
<1>13. CASE EstablishCleanBase
  BY <1>13 DEF EstablishCleanBase, Succeeds, Goto, Origins
<1>14. CASE ToolchainInstall
  BY <1>14 DEF ToolchainInstall, Succeeds, Goto, Origins
<1>15. CASE PostAcquire
  BY <1>15 DEF PostAcquire, Succeeds, Goto
<1>16. CASE VerifyVersion
  BY <1>16 DEF VerifyVersion, Succeeds, Goto, Finds
<1>17. CASE VerifyBuild
  BY <1>17 DEF VerifyBuild, Succeeds, Goto, Finds
<1>18. CASE VerifyTest
  BY <1>18 DEF VerifyTest, Succeeds, Goto, Finds
<1>19. CASE NothingToKill
  BY <1>19 DEF NothingToKill, Unwind, Goto, Exit
<1>20. CASE Kill
  BY <1>20 DEF Kill, Unwind, Goto, Exit
<1>21. CASE KillRaises
  BY <1>21 DEF KillRaises, Unwind, Goto, Exit
<1>22. CASE Verdict
  BY <1>22 DEF Verdict, Exit
<1>23. CASE Interrupt
  BY <1>23 DEF Interrupt, Exit
<1>24. CASE Dies
  BY <1>24 DEF Dies, Exit
<1>25. ASSUME NEW s \in Sandboxes, Expires(s) PROVE CodeInv'
  BY <1>25 DEF Expires
<1>26. CASE UNCHANGED vars
  BY <1>26 DEF vars
<1> QED BY <1>1, <1>2, <1>3, <1>4, <1>5, <1>6, <1>7, <1>8, <1>9, <1>10,
     <1>11, <1>12, <1>13, <1>14, <1>15, <1>16, <1>17, <1>18, <1>19, <1>20,
     <1>21, <1>22, <1>23, <1>24, <1>25, <1>26, <1>27
     DEF Next, Step

(* The scope of the redactions.                                            *)
LEMMA RedactionStep ==
  ASSUME IInv, [Next]_vars
  PROVE  RedactionScope'
<1> USE SandboxAssumption DEF IInv, SandboxInv, CodeInv, RedactionScope, Stops, Driving, Executing, Provisioning, Verifying, local, ended, world, inside
<1>1. CASE SkipWithoutKey
  BY <1>1 DEF SkipWithoutKey, Fresh
<1>2. ASSUME NEW k \in Kits, NEW u \in Urls, NEW dry \in BOOLEAN, Start(k, u, dry) PROVE RedactionScope'
  BY <1>2 DEF Start, Fresh
<1>3. CASE MakeVenv
  BY <1>3 DEF MakeVenv, Goto, Exit
<1>4. CASE PipInstall
  BY <1>4 DEF PipInstall, Goto, Exit
<1>5. CASE RenderDryRun
  BY <1>5 DEF RenderDryRun, Exit
<1>6. CASE BuildPlan
  BY <1>6 DEF BuildPlan, Goto, Exit
<1>7. CASE CreateFails
  BY <1>7 DEF CreateFails, Raise, Goto
<1>8. ASSUME NEW s \in Sandboxes, Create(s) PROVE RedactionScope'
  BY <1>8 DEF Create, Obtained, Goto, BaseImages, Origins
<1>9. ASSUME NEW s \in Sandboxes, CreateLost(s) PROVE RedactionScope'
  BY <1>9 DEF CreateLost, Obtained, Raise, Goto
<1>27. CASE RegisterName
  BY <1>27 DEF RegisterName, Goto
<1>10. CASE StepRaises
  BY <1>10 DEF StepRaises, Raise, Goto
<1>11. CASE StageFixture
  BY <1>11 DEF StageFixture, Succeeds, Goto
<1>12. CASE StageLocal
  BY <1>12 DEF StageLocal, Succeeds, Goto
<1>13. CASE EstablishCleanBase
  BY <1>13 DEF EstablishCleanBase, Succeeds, Goto, Origins
<1>14. CASE ToolchainInstall
  BY <1>14 DEF ToolchainInstall, Succeeds, Goto, Origins
<1>15. CASE PostAcquire
  BY <1>15 DEF PostAcquire, Succeeds, Goto
<1>16. CASE VerifyVersion
  BY <1>16 DEF VerifyVersion, Succeeds, Goto, Finds
<1>17. CASE VerifyBuild
  BY <1>17 DEF VerifyBuild, Succeeds, Goto, Finds
<1>18. CASE VerifyTest
  BY <1>18 DEF VerifyTest, Succeeds, Goto, Finds
<1>19. CASE NothingToKill
  BY <1>19 DEF NothingToKill, Unwind, Goto, Exit
<1>20. CASE Kill
  BY <1>20 DEF Kill, Unwind, Goto, Exit
<1>21. CASE KillRaises
  BY <1>21 DEF KillRaises, Unwind, Goto, Exit
<1>22. CASE Verdict
  BY <1>22 DEF Verdict, Exit
<1>23. CASE Interrupt
  BY <1>23 DEF Interrupt, Exit
<1>24. CASE Dies
  BY <1>24 DEF Dies, Exit
<1>25. ASSUME NEW s \in Sandboxes, Expires(s) PROVE RedactionScope'
  BY <1>25 DEF Expires
<1>26. CASE UNCHANGED vars
  BY <1>26 DEF vars
<1> QED BY <1>1, <1>2, <1>3, <1>4, <1>5, <1>6, <1>7, <1>8, <1>9, <1>10,
     <1>11, <1>12, <1>13, <1>14, <1>15, <1>16, <1>17, <1>18, <1>19, <1>20,
     <1>21, <1>22, <1>23, <1>24, <1>25, <1>26, <1>27
     DEF Next, Step

-----------------------------------------------------------------------------
(* IInv holds in every reachable state: the driver's local variables agree *)
(* with its sandbox, with what was done inside and with the exit status.   *)
THEOREM Invariance == Spec => []IInv
<1>1. IInv /\ [Next]_vars => IInv'
  <2> SUFFICES ASSUME IInv, [Next]_vars PROVE IInv'
    OBVIOUS
  <2> QED BY TypeStep, SandboxStep, ProgressStep, CodeStep, RedactionStep DEF IInv
<1> QED BY InitInv, <1>1, PTL DEF Spec

(* PASS is claimed only for a repository built and tested with the         *)
(* toolchain the kit's own commands installed, in a sandbox that is gone.  *)
THEOREM PassIsProof == Spec => []ProofIsReal
<1>1. IInv => ProofIsReal
  BY DEF IInv, CodeInv, SandboxInv, ProgressInv, ProofIsReal
<1> QED BY Invariance, <1>1, PTL

(* A run that returns has killed its sandbox or says FAIL.                 *)
THEOREM TeardownIsReported == Spec => []NothingLeftRunning
<1>1. ASSUME IInv PROVE NothingLeftRunning
  <2>1. cleaned => born \cap alive = {}
    BY <1>1 DEF IInv, SandboxInv
  <2>2. code = "ok" => cleaned
    BY <1>1 DEF IInv, CodeInv
  <2>3. code \in {"ok", "fail"} /\ mine # NoSandbox => kills = 1
    BY <1>1, <2>2 DEF IInv, CodeInv
  <2> QED BY <2>1, <2>2, <2>3 DEF NothingLeftRunning
<1> QED BY Invariance, <1>1, PTL

(* Exit status 2 and the exits of run.sh mean that nothing was created.    *)
THEOREM SetupIsFree == Spec => []SetupCreatesNothing
<1>1. IInv => SetupCreatesNothing
  BY DEF IInv, CodeInv, SetupCreatesNothing
<1> QED BY Invariance, <1>1, PTL

(* The driver knows its sandbox's name to be scrubbed for as long as it    *)
(* may print errors of the provider.                                       *)
THEOREM NamesAreScrubbed == Spec => []RedactionScope
<1>1. IInv => RedactionScope
  BY DEF IInv
<1> QED BY Invariance, <1>1, PTL

-----------------------------------------------------------------------------
(* What is left at each stop. *)
Leftover ==
  /\ Left \in Nat
  /\ pc # "idle" => Left > 0
  /\ pc \in {"venv", "pip", "plan"} \cup Driving => Left > 2
  /\ pc = "idle" => Left = 0
  /\ pc \in {"dry", "verdict"} => Left = 1
  /\ pc = "kill" => Left = 2
  /\ pc = "test" => Left = 3
  /\ pc = "build" => Left = 4
  /\ pc = "version" => Left = 5
  /\ pc = "post" => Left = 5 + todo
  /\ pc = "install" => Left = 5 + Posts + todo
  /\ pc = "base" => Left = 6 + Posts + Installs
  /\ pc = "local" => Left = 7 + Posts + Installs
  /\ pc = "stage" => Left = 8 + Posts + Installs
  /\ pc = "created" => Left = 9 + Posts + Installs
  /\ pc = "create" => Left = 10 + Posts + Installs
  /\ pc = "plan" => Left = 11 + Posts + Installs
  /\ pc = "pip" => Left = 12 + Posts + Installs
  /\ pc = "venv" => Left = 13 + Posts + Installs

LEMMA Leftovers == (TypeOK => Leftover) /\ (TypeOK' => Leftover')
<1> USE CommandsAssumption
    DEF TypeOK, Left, StopsLeft, Stops, Driving, Executing, Provisioning, Verifying
<1>1. TypeOK => Leftover
  BY DEF Leftover
<1>2. TypeOK' => Leftover'
  BY DEF Leftover
<1> QED BY <1>1, <1>2

(* A list of commands is entered with all of them to do, and is left with  *)
(* the last one. *)
TodoInv == pc \in Provisioning => todo > 0

LEMMA TodoStep == TypeOK /\ TodoInv /\ [Next]_vars => TodoInv'
<1> SUFFICES ASSUME TypeOK, TodoInv, [Next]_vars PROVE TodoInv'
  OBVIOUS
<1> USE CommandsAssumption DEF TodoInv, Provisioning, local, ended, world, inside
<1>1. CASE SkipWithoutKey \/ \E k \in Kits, u \in Urls, dry \in BOOLEAN : Start(k, u, dry)
  BY <1>1 DEF SkipWithoutKey, Start, Fresh
<1>2. CASE MakeVenv \/ PipInstall \/ RenderDryRun \/ BuildPlan \/ CreateFails
  BY <1>2 DEF MakeVenv, PipInstall, RenderDryRun, BuildPlan, CreateFails, Raise, Goto, Exit
<1>3. CASE \E s \in Sandboxes : Create(s) \/ CreateLost(s)
  BY <1>3 DEF Create, CreateLost, Goto
<1>4. CASE RegisterName \/ StepRaises \/ StageFixture \/ StageLocal \/ EstablishCleanBase
  BY <1>4 DEF RegisterName, StepRaises, StageFixture, StageLocal, EstablishCleanBase, Raise, Goto
<1>5. CASE ToolchainInstall \/ PostAcquire
  BY <1>5 DEF ToolchainInstall, PostAcquire, Goto, TypeOK
<1>6. CASE VerifyVersion \/ VerifyBuild \/ VerifyTest
  BY <1>6 DEF VerifyVersion, VerifyBuild, VerifyTest, Goto
<1>7. CASE NothingToKill \/ Kill \/ KillRaises \/ Verdict
  BY <1>7 DEF NothingToKill, Kill, KillRaises, Verdict, Unwind, Goto, Exit
<1>8. CASE Interrupt \/ Dies \/ \E s \in Sandboxes : Expires(s)
  BY <1>8 DEF Interrupt, Dies, Expires, Exit
<1>9. CASE UNCHANGED vars
  BY <1>9 DEF vars
<1> QED
  BY <1>1, <1>2, <1>3, <1>4, <1>5, <1>6, <1>7, <1>8, <1>9 DEF Next, Step

(* Each step of a run leaves less of it. *)
LEMMA StepGoesDown ==
  ASSUME TypeOK, TypeOK', TodoInv, TodoInv', [Next]_vars, pc # "idle"
  PROVE  \/ Left' < Left
         \/ \E s \in Sandboxes : Expires(s)
         \/ UNCHANGED vars
<1> USE CommandsAssumption
<1>. Leftover /\ Leftover'
  BY Leftovers
<1>0. Left \in Nat /\ Left' \in Nat
  BY DEF Leftover
<1>1. Left > 0
  BY DEF Leftover
<1>2. (pc' = "idle" => Left' = 0) /\ (pc' = "kill" => Left' = 2)
      /\ (pc' \in {"dry", "verdict"} => Left' = 1)
  BY DEF Leftover
<1>3. pc \in {"venv", "pip", "plan"} \cup Driving => Left > 2
  BY DEF Leftover
<1>4. CASE pc' = "idle"
  BY <1>0, <1>1, <1>2, <1>4
<1>5. CASE pc' = "kill" /\ pc \in Driving
  BY <1>0, <1>2, <1>3, <1>5
<1>6. CASE pc' = "verdict" /\ pc = "kill"
  BY <1>0, <1>2, <1>6 DEF Leftover
<1>7. CASE MakeVenv \/ PipInstall \/ BuildPlan \/ RenderDryRun
  <2>1. \/ pc' = "idle"
        \/ pc = "venv" /\ pc' = "pip"
        \/ pc = "pip" /\ pc' = "plan"
        \/ pc = "plan" /\ pc' = "create"
    BY <1>7 DEF MakeVenv, PipInstall, BuildPlan, RenderDryRun, Goto, Exit
  <2>2. \/ pc' = "idle"
        \/ Left = 13 + Posts + Installs /\ Left' = 12 + Posts + Installs
        \/ Left = 12 + Posts + Installs /\ Left' = 11 + Posts + Installs
        \/ Left = 11 + Posts + Installs /\ Left' = 10 + Posts + Installs
    BY <2>1 DEF Leftover
  <2> QED BY <1>4, <2>2
<1>8. CASE \E s \in Sandboxes : Create(s) \/ CreateLost(s)
  <2>1. pc = "create" /\ pc' \in {"created", "kill"}
    BY <1>8 DEF Create, CreateLost, Obtained, Goto
  <2>2. pc' = "created" => Left = 10 + Posts + Installs /\ Left' = 9 + Posts + Installs
    BY <2>1 DEF Leftover
  <2> QED BY <1>5, <2>1, <2>2 DEF Driving
<1>9. CASE RegisterName \/ StageFixture \/ StageLocal
  <2>1. \/ pc = "created" /\ pc' = "stage"
        \/ pc = "stage" /\ pc' \in {"base", "local"}
        \/ pc = "local" /\ pc' = "base"
    BY <1>9 DEF RegisterName, StageFixture, StageLocal, Goto
  <2> QED BY <2>1 DEF Leftover
<1>10. CASE EstablishCleanBase
  <2>1. pc = "base" /\ pc' = "install" /\ todo' = Installs
    BY <1>10 DEF EstablishCleanBase, Goto
  <2>2. Left = 6 + Posts + Installs /\ Left' = 5 + Posts + todo'
    BY <2>1 DEF Leftover
  <2> QED BY <2>1, <2>2
<1>11. CASE ToolchainInstall
  <2>1. /\ pc = "install" /\ todo \in Nat /\ todo > 0
        /\ \/ pc' = "install" /\ todo' = todo - 1
           \/ pc' = "post" /\ todo' = Posts
    BY <1>11 DEF ToolchainInstall, Goto, TypeOK, TodoInv, Provisioning
  <2>2. /\ Left = 5 + Posts + todo
        /\ pc' = "install" => Left' = 5 + Posts + todo'
        /\ pc' = "post" => Left' = 5 + todo'
    BY <2>1 DEF Leftover
  <2> QED BY <2>1, <2>2
<1>12. CASE PostAcquire
  <2>1. /\ pc = "post" /\ todo \in Nat /\ todo > 0
        /\ \/ pc' = "post" /\ todo' = todo - 1
           \/ pc' = "version"
    BY <1>12 DEF PostAcquire, Goto, TypeOK, TodoInv, Provisioning
  <2>2. /\ Left = 5 + todo
        /\ pc' = "post" => Left' = 5 + todo'
        /\ pc' = "version" => Left' = 5
    BY <2>1 DEF Leftover
  <2> QED BY <2>1, <2>2
<1>13. CASE VerifyVersion \/ VerifyBuild \/ VerifyTest
  <2>1. \/ pc = "version" /\ pc' = "build"
        \/ pc = "build" /\ pc' = "test"
        \/ pc = "test" /\ pc' = "kill"
    BY <1>13 DEF VerifyVersion, VerifyBuild, VerifyTest, Goto
  <2> QED BY <2>1 DEF Leftover
<1>14. CASE NothingToKill \/ Kill \/ KillRaises
  <2>1. pc = "kill" /\ pc' \in {"idle", "verdict"}
    BY <1>14 DEF NothingToKill, Kill, KillRaises, Unwind, Goto, Exit
  <2> QED BY <1>4, <1>6, <2>1
<1>15. CASE CreateFails \/ StepRaises \/ Interrupt
  <2>1. pc' = "idle" \/ (pc' = "kill" /\ pc \in Driving)
    BY <1>15 DEF CreateFails, StepRaises, Interrupt, Raise, Goto, Exit, Driving
  <2> QED BY <1>4, <1>5, <2>1
<1>16. CASE Verdict \/ Dies
  BY <1>4, <1>16 DEF Verdict, Dies, Exit
<1> QED
  BY <1>7, <1>8, <1>9, <1>10, <1>11, <1>12, <1>13, <1>14, <1>15, <1>16
     DEF Next, Step, SkipWithoutKey, Start

(* Nothing in a run is done over: each step of it, in the order of         *)
(* failures and interrupts that happens, leaves less of the run, so that a *)
(* run takes at most as many steps as a complete one has.                  *)
THEOREM RunsOnlyGoDown == Spec => RunsGoDown
<1>1. Init => TodoInv
  BY DEF Init, TodoInv, Provisioning
<1>2. IInv /\ TodoInv /\ [Next]_vars => TodoInv'
  BY TodoStep DEF IInv
<1>3. Spec => []TodoInv
  BY <1>1, <1>2, Invariance, PTL DEF Spec
<1>4. IInv /\ IInv' /\ TodoInv /\ TodoInv' /\ [Next]_vars =>
        [pc # "idle" => Left' < Left \/ \E s \in Sandboxes : Expires(s)]_vars
  BY StepGoesDown DEF IInv
<1> QED BY <1>3, <1>4, Invariance, PTL DEF Spec, RunsGoDown

(* Which steps can change what was created and what still runs. *)
LEMMA SandboxSteps ==
  ASSUME [Next]_vars
  PROVE  \/ UNCHANGED <<used, born, alive>>
         \/ UNCHANGED <<used, alive>> /\ born' = {}
         \/ UNCHANGED <<used, born>> /\ alive' \subseteq alive
         \/ \E s \in Sandboxes : Obtained(s)
<1> USE DEF local, ended, world, inside
<1>1. CASE SkipWithoutKey \/ \E k \in Kits, u \in Urls, dry \in BOOLEAN : Start(k, u, dry)
  BY <1>1 DEF SkipWithoutKey, Start, Fresh
<1>2. CASE MakeVenv \/ PipInstall \/ RenderDryRun \/ BuildPlan \/ CreateFails
  BY <1>2 DEF MakeVenv, PipInstall, RenderDryRun, BuildPlan, CreateFails
<1>3. CASE \E s \in Sandboxes : Create(s) \/ CreateLost(s)
  BY <1>3 DEF Create, CreateLost
<1>4. CASE RegisterName \/ StepRaises \/ StageFixture \/ StageLocal \/ EstablishCleanBase
  BY <1>4 DEF RegisterName, StepRaises, StageFixture, StageLocal, EstablishCleanBase, Succeeds
<1>5. CASE ToolchainInstall \/ PostAcquire \/ VerifyVersion \/ VerifyBuild \/ VerifyTest
  BY <1>5 DEF ToolchainInstall, PostAcquire, VerifyVersion, VerifyBuild, VerifyTest, Succeeds
<1>6. CASE NothingToKill \/ Kill \/ KillRaises \/ Verdict
  BY <1>6 DEF NothingToKill, Kill, KillRaises, Verdict
<1>7. CASE Interrupt \/ Dies \/ \E s \in Sandboxes : Expires(s)
  BY <1>7 DEF Interrupt, Dies, Expires
<1>8. CASE UNCHANGED vars
  BY <1>8 DEF vars
<1> QED
  BY <1>1, <1>2, <1>3, <1>4, <1>5, <1>6, <1>7, <1>8 DEF Next, Step

(* A run costs one sandbox at most, whatever is lost or interrupted.       *)
THEOREM OneSandboxCreated == Spec => []OneSandboxPerRun
<1>1. Init => OneSandboxPerRun
  BY DEF Init, OneSandboxPerRun
<1>2. IInv /\ OneSandboxPerRun /\ [Next]_vars => OneSandboxPerRun'
  <2> SUFFICES ASSUME IInv, OneSandboxPerRun, [Next]_vars PROVE OneSandboxPerRun'
    OBVIOUS
  <2>1. ASSUME NEW s \in Sandboxes, Obtained(s) PROVE OneSandboxPerRun'
    <3>1. born = {}
      BY <2>1 DEF IInv, SandboxInv, Obtained
    <3> QED BY <2>1, <3>1 DEF Obtained, OneSandboxPerRun
  <2>2. CASE born' = born \/ born' = {}
    BY <2>2 DEF OneSandboxPerRun
  <2> QED BY <2>1, <2>2, SandboxSteps
<1> QED BY <1>1, <1>2, Invariance, PTL DEF Spec

=============================================================================
