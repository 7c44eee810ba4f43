------------------------ MODULE LivenessGate_proofs ------------------------
(***************************************************************************)
(* Proofs about LivenessGate, PeerInstall and SuiteGates, for any set of   *)
(* live smokes, any gates that satisfy GatesAssumption, any pins, versions *)
(* and canaries.                                                           *)
(***************************************************************************)
EXTENDS SuiteGates, TLAPS, WellFoundedInduction

LEMMA GatesOf ==
  ASSUME NEW s \in Smokes
  PROVE  /\ Gates[s] \in Seq(Gate)
         /\ DOMAIN Gates[s] = 1..Len(Gates[s])
         /\ Len(Gates[s]) \in Nat
         /\ \A i \in DOMAIN Gates[s] : Gates[s][i] \in Gate
BY GatesAssumption

LEMMA InitInv == Init => IInv
<1> SUFFICES ASSUME Init PROVE IInv
  OBVIOUS
<1>1. TypeOK
  BY DEF Init, TypeOK, Results, Outcomes, Exits
<1>2. ASSUME NEW s \in Smokes PROVE SmokeInv(s) /\ EvidenceInv(s)
  <2>1. \A G : ~Behind(s, G)
    BY GatesOf DEF Init, Behind
  <2> QED BY <2>1, NoSmokeAssumption DEF Init, SmokeInv, EvidenceInv
<1>3. ExitInv
  BY DEF Init, ExitInv
<1> QED BY <1>1, <1>2, <1>3 DEF IInv

LEMMA TypeStep == TypeOK /\ [Next]_vars => TypeOK'
<1> SUFFICES ASSUME TypeOK, [Next]_vars PROVE TypeOK'
  OBVIOUS
<1> USE DEF TypeOK, Results, Outcomes, Exits, runVars
<1>1. ASSUME NEW s \in Smokes,
             \/ Start(s) \/ OptOut(s) \/ Decline(s) \/ RequireDonmaiSource(s)
             \/ RequireDonmaiBinary(s) \/ RecordItself(s) \/ EnsurePeer(s)
             \/ Drive(s) \/ Pass(s)
      PROVE  TypeOK'
  <2>1. CASE Start(s)
    BY <2>1 DEF Start
  <2>2. CASE OptOut(s)
    BY <2>2 DEF OptOut, RecordLive, Passes, Ends
  <2>3. CASE Decline(s)
    BY <2>3 DEF Decline, RecordLive, Passes, Ends
  <2>4. CASE RequireDonmaiSource(s)
    BY <2>4 DEF RequireDonmaiSource, Passes, Ends
  <2>5. CASE RequireDonmaiBinary(s)
    BY <2>5 DEF RequireDonmaiBinary, RecordLive, Passes, Ends
  <2>6. CASE RecordItself(s)
    BY <2>6 DEF RecordItself, RecordLive, Passes, Ends
  <2>7. CASE EnsurePeer(s)
    BY <2>7 DEF EnsurePeer, Passes, Ends
  <2>8. CASE Drive(s)
    BY <2>8 DEF Drive, Passes, Ends
  <2>9. CASE Pass(s)
    BY <2>9 DEF Pass, Ends
  <2> QED BY <1>1, <2>1, <2>2, <2>3, <2>4, <2>5, <2>6, <2>7, <2>8, <2>9
<1>2. CASE TestMain
  BY <1>2 DEF TestMain, RunCode
<1>3. CASE Panics
  BY <1>3 DEF Panics
<1>4. CASE UNCHANGED vars
  BY <1>4 DEF vars
<1> QED BY <1>1, <1>2, <1>3, <1>4 DEF Next

(* A smoke that passes a gate has that gate behind it, and nothing else    *)
(* changes.                                                                *)
LEMMA GatePassed ==
  ASSUME TypeOK, NEW s \in Smokes, next[s] \in DOMAIN Gates[s],
         next' = [next EXCEPT ![s] = @ + 1],
         NEW x \in Smokes, NEW G
  PROVE  Behind(x, G)' <=> Behind(x, G) \/ (x = s /\ Gates[s][next[s]] \in G)
<1>1. next[x] \in Nat /\ next'[x] = IF x = s THEN next[x] + 1 ELSE next[x]
  BY DEF TypeOK
<1>2. \A i \in DOMAIN Gates[x] : i \in Nat
  BY GatesOf
<1>3. \A i \in DOMAIN Gates[x] :
        i < next'[x] <=> i < next[x] \/ (x = s /\ i = next[s])
  BY <1>1, <1>2
<1> QED BY <1>3 DEF Behind

LEMMA SmokeStep ==
  ASSUME IInv, [Next]_vars, NEW x \in Smokes
  PROVE  SmokeInv(x)'
<1> USE DEF IInv, TypeOK, SmokeInv, runVars
<1>1. ASSUME NEW s \in Smokes, Start(s) PROVE SmokeInv(x)'
  BY <1>1, NoSmokeAssumption DEF Start
<1>2. ASSUME NEW s \in Smokes, OptOut(s) PROVE SmokeInv(x)'
  BY <1>2, NoSmokeAssumption DEF OptOut, Calls, RecordLive, Passes, Ends, OptOuts, Skips
<1>3. ASSUME NEW s \in Smokes, Decline(s) PROVE SmokeInv(x)'
  BY <1>3, NoSmokeAssumption DEF Decline, Calls, RecordLive, Passes, Ends, Skips
<1>4. ASSUME NEW s \in Smokes, RequireDonmaiSource(s) PROVE SmokeInv(x)'
  BY <1>4, NoSmokeAssumption DEF RequireDonmaiSource, Calls, Passes, Ends
<1>5. ASSUME NEW s \in Smokes, RequireDonmaiBinary(s) PROVE SmokeInv(x)'
  BY <1>5, NoSmokeAssumption DEF RequireDonmaiBinary, Calls, RecordLive, Passes, Ends
<1>6. ASSUME NEW s \in Smokes, RecordItself(s) PROVE SmokeInv(x)'
  BY <1>6, NoSmokeAssumption DEF RecordItself, Calls, RecordLive, Passes, Ends
<1>7. ASSUME NEW s \in Smokes, EnsurePeer(s) PROVE SmokeInv(x)'
  BY <1>7, NoSmokeAssumption DEF EnsurePeer, Calls, Passes, Ends, Skips
<1>8. ASSUME NEW s \in Smokes, Drive(s) PROVE SmokeInv(x)'
  BY <1>8, NoSmokeAssumption DEF Drive, Calls, Passes, Ends
<1>9. ASSUME NEW s \in Smokes, Pass(s) PROVE SmokeInv(x)'
  BY <1>9, NoSmokeAssumption DEF Pass, Ends
<1>10. CASE TestMain
  BY <1>10, NoSmokeAssumption DEF TestMain
<1>11. CASE Panics
  BY <1>11, NoSmokeAssumption DEF Panics
<1>12. CASE UNCHANGED vars
  BY <1>12 DEF vars
<1> QED BY <1>1, <1>2, <1>3, <1>4, <1>5, <1>6, <1>7, <1>8, <1>9, <1>10, <1>11, <1>12
     DEF Next

(* A gate that ends the test leaves what is known of the evidence.         *)
LEMMA EndKeepsEvidence ==
  ASSUME IInv, NEW s \in Smokes, NEW g, Calls(s, g), NEW r \in {"fail", "skip"}, Ends(s, r),
         driven' = driven \/ (driven' = driven \cup {s} /\ g = "drive" /\ r = "fail"),
         \/ ledger' = ledger
         \/ r = "skip" /\ \E o \in {"opted-out", "declined"} : RecordLive(s, o),
         NEW x \in Smokes
  PROVE  EvidenceInv(x)'
<1> DEFINE DrivenInv ==
      x \in driven =>
        \/ Behind(x, {"drive"})
        \/ /\ result[x] = "fail"
           /\ next[x] \in DOMAIN Gates[x] /\ Gates[x][next[x]] = "drive"
<1> USE DEF IInv, EvidenceInv
<1>0. TypeOK
  OBVIOUS
<1>1. /\ next' = next /\ next[s] \in DOMAIN Gates[s] /\ Gates[s][next[s]] = g
      /\ result[s] = "none" /\ result' = [result EXCEPT ![s] = r]
  BY DEF Calls, Ends, SmokeInv
<1>2. /\ Behind(x, Records)' <=> Behind(x, Records)
      /\ Behind(x, {"drive"})' <=> Behind(x, {"drive"})
  BY <1>1 DEF Behind
<1>3. DrivenInv'
  <2>1. CASE x = s
    BY <1>0, <1>1, <1>2, <2>1 DEF TypeOK
  <2>2. CASE x # s
    BY <1>0, <1>1, <1>2, <2>2 DEF TypeOK
  <2> QED BY <2>1, <2>2
<1>4. Behind(x, {"drive"})' => x \in driven'
  BY <1>2
<1>5. ledger'[x] = "exercised" => ledger[x] = "exercised"
  BY <1>0 DEF RecordLive, TypeOK
<1>6. result'[x] # "skip" => ledger'[x] = ledger[x] /\ result[x] # "skip"
  BY <1>0, <1>1 DEF RecordLive, TypeOK
<1>7. /\ ledger'[x] = "exercised" => Behind(x, Records)'
      /\ result'[x] # "skip" /\ Behind(x, Records)' => ledger'[x] = "exercised"
  BY <1>2, <1>5, <1>6
<1> HIDE DEF DrivenInv
<1>8. EvidenceInv(x)' <=>
        /\ Behind(x, {"drive"})' => x \in driven'
        /\ DrivenInv'
        /\ ledger'[x] = "exercised" => Behind(x, Records)'
        /\ result'[x] # "skip" /\ Behind(x, Records)' => ledger'[x] = "exercised"
  BY DEF DrivenInv
<1> QED BY <1>3, <1>4, <1>7, <1>8

(* A gate that lets the smoke on is behind it from then on.                *)
LEMMA PassKeepsEvidence ==
  ASSUME IInv, NEW s \in Smokes, NEW g, Calls(s, g), Passes(s),
         driven' = IF g = "drive" THEN driven \cup {s} ELSE driven,
         ledger' = IF g \in Records THEN [ledger EXCEPT ![s] = "exercised"] ELSE ledger,
         NEW x \in Smokes
  PROVE  EvidenceInv(x)'
<1> USE DEF IInv, EvidenceInv
<1>0. TypeOK /\ "drive" \notin Records
  BY DEF Records
<1>1. /\ next[s] \in DOMAIN Gates[s] /\ Gates[s][next[s]] = g /\ result[s] = "none"
      /\ next' = [next EXCEPT ![s] = @ + 1] /\ result' = result
  BY DEF Calls, Passes, SmokeInv
<1>2. /\ Behind(x, Records)' <=> Behind(x, Records) \/ (x = s /\ g \in Records)
      /\ Behind(x, {"drive"})' <=> Behind(x, {"drive"}) \/ (x = s /\ g = "drive")
  BY <1>0, <1>1, GatePassed
<1>3. x # s => next'[x] = next[x]
  BY <1>0, <1>1 DEF TypeOK
<1>4. CASE x = s
  BY <1>0, <1>1, <1>2, <1>4 DEF TypeOK
<1>5. CASE x # s
  BY <1>0, <1>1, <1>2, <1>3, <1>5 DEF TypeOK
<1> QED BY <1>4, <1>5

LEMMA EvidenceStep ==
  ASSUME IInv, [Next]_vars, NEW x \in Smokes
  PROVE  EvidenceInv(x)'
<1> USE DEF IInv, EvidenceInv, runVars
<1>0. TypeOK
  OBVIOUS
<1>1. ASSUME next' = next, NEW G PROVE Behind(x, G)' <=> Behind(x, G)
  BY <1>1 DEF Behind
<1>3. ASSUME NEW s \in Smokes, Start(s) PROVE EvidenceInv(x)'
  BY <1>1, <1>3 DEF Start
<1>4. ASSUME NEW s \in Smokes, OptOut(s) PROVE EvidenceInv(x)'
  <2> PICK g \in OptOuts : Calls(s, g) /\ (\/ RecordLive(s, "opted-out") /\ Ends(s, "skip")
                                           \/ UNCHANGED ledger /\ Passes(s))
    BY <1>4 DEF OptOut
  <2>1. UNCHANGED driven /\ g \notin {"drive"} /\ g \notin Records
    BY <1>4 DEF OptOut, OptOuts, Records
  <2>2. CASE UNCHANGED ledger /\ Passes(s)
    <3> HIDE DEF EvidenceInv, IInv
    <3> QED BY PassKeepsEvidence, <2>1, <2>2
  <2>3. CASE RecordLive(s, "opted-out") /\ Ends(s, "skip")
    <3> HIDE DEF EvidenceInv, IInv
    <3> QED BY EndKeepsEvidence, <2>1, <2>3
  <2> QED BY <2>2, <2>3
<1>5. ASSUME NEW s \in Smokes, Decline(s) PROVE EvidenceInv(x)'
  <2> PICK g \in Declines : Calls(s, g)
    BY <1>5 DEF Decline
  <2>1. UNCHANGED driven /\ g \notin {"drive"} /\ g \notin Records
    BY <1>5 DEF Decline, Declines, Records
  <2>2. CASE UNCHANGED ledger /\ Passes(s)
    <3> HIDE DEF EvidenceInv, IInv
    <3> QED BY PassKeepsEvidence, <2>1, <2>2
  <2>3. CASE RecordLive(s, "declined") /\ Ends(s, "skip")
    <3> HIDE DEF EvidenceInv, IInv
    <3> QED BY EndKeepsEvidence, <2>1, <2>3
  <2> QED BY <1>5, <2>2, <2>3 DEF Decline
<1>6. ASSUME NEW s \in Smokes, NEW g, Calls(s, g), UNCHANGED <<ledger, driven>>,
             \/ Passes(s) /\ g \notin Records \cup {"drive"}
             \/ Ends(s, "fail") \/ Ends(s, "skip")
      PROVE  EvidenceInv(x)'
  <2>1. CASE Passes(s) /\ g \notin Records \cup {"drive"}
    <3> HIDE DEF EvidenceInv, IInv
    <3> QED BY PassKeepsEvidence, <1>6, <2>1
  <2>2. CASE Ends(s, "fail") \/ Ends(s, "skip")
    <3> HIDE DEF EvidenceInv, IInv
    <3> QED BY EndKeepsEvidence, <1>6, <2>2
  <2> QED BY <1>6, <2>1, <2>2
<1>7. ASSUME NEW s \in Smokes, RequireDonmaiSource(s) PROVE EvidenceInv(x)'
  BY <1>6, <1>7 DEF RequireDonmaiSource, Records
<1>8. ASSUME NEW s \in Smokes, EnsurePeer(s) PROVE EvidenceInv(x)'
  BY <1>6, <1>8 DEF EnsurePeer, Records
<1>9. ASSUME NEW s \in Smokes, NEW g \in Records, Calls(s, g), UNCHANGED driven,
             \/ RecordLive(s, "exercised") /\ Passes(s)
             \/ UNCHANGED ledger /\ Ends(s, "fail")
      PROVE  EvidenceInv(x)'
  <2>1. CASE RecordLive(s, "exercised") /\ Passes(s)
    <3>1. g \notin {"drive"}
      BY DEF Records
    <3> HIDE DEF EvidenceInv, IInv
    <3> QED BY PassKeepsEvidence, <1>9, <2>1, <3>1 DEF RecordLive
  <2>2. CASE UNCHANGED ledger /\ Ends(s, "fail")
    BY <1>6, <1>9, <2>2
  <2> QED BY <1>9, <2>1, <2>2
<1>10. ASSUME NEW s \in Smokes, RequireDonmaiBinary(s) PROVE EvidenceInv(x)'
  BY <1>9, <1>10 DEF RequireDonmaiBinary, Records
<1>11. ASSUME NEW s \in Smokes, RecordItself(s) PROVE EvidenceInv(x)'
  BY <1>9, <1>11 DEF RecordItself, Records
<1>12. ASSUME NEW s \in Smokes, Drive(s) PROVE EvidenceInv(x)'
  <2>1. Calls(s, "drive") /\ UNCHANGED ledger /\ driven' = driven \cup {s}
    BY <1>12 DEF Drive
  <2>2. CASE Passes(s)
    <3>1. "drive" \notin Records
      BY DEF Records
    <3> HIDE DEF EvidenceInv, IInv
    <3> QED BY PassKeepsEvidence, <2>1, <2>2, <3>1
  <2>3. CASE Ends(s, "fail")
    <3> HIDE DEF EvidenceInv, IInv
    <3> QED BY EndKeepsEvidence, <2>1, <2>3
  <2> QED BY <1>12, <2>2, <2>3 DEF Drive
<1>13. ASSUME NEW s \in Smokes, Pass(s) PROVE EvidenceInv(x)'
  BY <1>1, <1>13 DEF Pass, Ends, TypeOK, SmokeInv
<1>14. CASE TestMain
  BY <1>1, <1>14 DEF TestMain
<1>15. CASE Panics
  BY <1>1, <1>15 DEF Panics
<1>16. CASE UNCHANGED vars
  BY <1>1, <1>16 DEF vars
<1> QED BY <1>3, <1>4, <1>5, <1>7, <1>8, <1>10, <1>11, <1>12, <1>13, <1>14, <1>15, <1>16
     DEF Next

LEMMA ExitStep ==
  ASSUME IInv, [Next]_vars
  PROVE  ExitInv'
<1> USE DEF IInv, ExitInv, runVars
<1>1. CASE \E s \in Smokes :
             \/ OptOut(s) \/ Decline(s) \/ RequireDonmaiSource(s)
             \/ RequireDonmaiBinary(s) \/ RecordItself(s) \/ EnsurePeer(s)
             \/ Drive(s) \/ Pass(s)
  <2> PICK s \in Smokes :
             \/ OptOut(s) \/ Decline(s) \/ RequireDonmaiSource(s)
             \/ RequireDonmaiBinary(s) \/ RecordItself(s) \/ EnsurePeer(s)
             \/ Drive(s) \/ Pass(s)
    BY <1>1
  <2>1. current = s
    BY DEF OptOut, Decline, RequireDonmaiSource, RequireDonmaiBinary, RecordItself,
           EnsurePeer, Drive, Pass, Calls
  <2>2. exit = "none"
    BY <2>1 DEF SmokeInv
  <2>3. exit' = exit
    BY DEF OptOut, Decline, RequireDonmaiSource, RequireDonmaiBinary, RecordItself,
           EnsurePeer, Drive, Pass
  <2> QED BY <2>2, <2>3
<1>2. CASE \E s \in Smokes : Start(s)
  BY <1>2 DEF Start
<1>3. CASE TestMain
  <2>1. /\ UNCHANGED <<selected, result, ledger>>
        /\ \A s \in selected : result[s] # "none"
        /\ exit' = IF RunCode = "ok" /\ ~CheckLiveness THEN "fail" ELSE RunCode
    BY <1>3 DEF TestMain
  <2>2. CheckLiveness' <=> CheckLiveness
    BY <2>1 DEF CheckLiveness, Filed
  <2>3. CASE \E s \in Smokes : result[s] = "fail"
    <3>1. \E s \in selected : result[s] = "fail"
      BY <2>3 DEF SmokeInv
    <3>2. exit' = "fail"
      BY <2>1, <2>3 DEF RunCode
    <3> QED BY <2>1, <3>1, <3>2
  <2>4. CASE ~\E s \in Smokes : result[s] = "fail"
    <3>1. \A s \in selected : result[s] \in {"pass", "skip"}
      BY <2>1, <2>4 DEF TypeOK, Results
    <3>2. exit' = IF CheckLiveness THEN "ok" ELSE "fail"
      BY <2>1, <2>4 DEF RunCode
    <3> QED BY <2>1, <2>2, <3>1, <3>2
  <2> QED BY <2>3, <2>4
<1>4. CASE Panics
  BY <1>4 DEF Panics
<1>5. CASE UNCHANGED vars
  BY <1>5 DEF vars, CheckLiveness, Filed
<1> QED BY <1>1, <1>2, <1>3, <1>4, <1>5 DEF Next

(* What the ledger knows of a smoke agrees with how it ended and with the  *)
(* gates behind it, in every reachable state.                              *)
THEOREM Invariance == Spec => []IInv
<1>1. Init => IInv
  BY InitInv
<1>2. IInv /\ [Next]_vars => IInv'
  BY TypeStep, SmokeStep, EvidenceStep, ExitStep DEF IInv
<1> QED BY <1>1, <1>2, PTL DEF Spec

-----------------------------------------------------------------------------
(* A smoke that has passed drove the SUT and its evidence stands.          *)
LEMMA PassedMeansDriven ==
  ASSUME IInv, NEW s \in Smokes, result[s] = "pass"
  PROVE  s \in driven /\ ledger[s] = "exercised"
<1>1. next[s] \in Nat \ {0} /\ next[s] \notin DOMAIN Gates[s]
  BY DEF IInv, TypeOK, SmokeInv
<1>2. \A i \in DOMAIN Gates[s] : i < next[s]
  BY <1>1, GatesOf
<1>3. Behind(s, {"drive"}) /\ Behind(s, Records)
  BY <1>2, GatesAssumption DEF Behind
<1> QED BY <1>3 DEF IInv, EvidenceInv

(* A smoke that was skipped by a gate had not driven the SUT.              *)
LEMMA SkippedMeansNotDriven ==
  ASSUME IInv, NEW s \in Smokes, result[s] = "skip"
  PROVE  s \notin driven
<1>1. next[s] \in DOMAIN Gates[s] /\ Gates[s][next[s]] \in Skips
  BY DEF IInv, SmokeInv
<1>2. \A i \in DOMAIN Gates[s] : Gates[s][i] = "drive" => next[s] < i
  BY <1>1, GatesAssumption
<1>3. ~Behind(s, {"drive"})
  BY <1>1, <1>2, GatesOf DEF Behind
<1> QED BY <1>3 DEF IInv, EvidenceInv

(* A skip over standing evidence would have to be a raw one after the      *)
(* build, which no smoke makes.                                            *)
LEMMA SkippedMeansNotExercised ==
  ASSUME IInv, NEW s \in Smokes, result[s] = "skip"
  PROVE  /\ ledger[s] # "exercised"
         /\ ledger[s] = "none" => Gates[s][next[s]] = "peer"
<1>1. /\ next[s] \in DOMAIN Gates[s]
      /\ ledger[s] \in {"opted-out", "declined"} \/ Gates[s][next[s]] = "peer"
  BY DEF IInv, SmokeInv
<1>2. CASE Gates[s][next[s]] = "peer"
  <2>1. \A i \in DOMAIN Gates[s] : Gates[s][i] \in Records => next[s] < i
    BY <1>1, <1>2, GatesAssumption
  <2>2. ~Behind(s, Records)
    BY <1>1, <2>1, GatesOf DEF Behind
  <2> QED BY <1>2, <2>2 DEF IInv, EvidenceInv
<1>3. CASE ledger[s] \in {"opted-out", "declined"}
  BY <1>3
<1> QED BY <1>1, <1>2, <1>3

LEMMA GreenFollows == IInv => GreenRunDroveTheSUT
<1> SUFFICES ASSUME IInv, exit = "ok", ~\E s \in selected : result[s] = "pass" /\ s \in driven
             PROVE  \A s \in selected :
                      /\ result[s] = "skip"
                      /\ \/ ledger[s] = "opted-out" /\ asked # {}
                         \/ ledger[s] = "none" /\ Gates[s][next[s]] = "peer"
  BY DEF GreenRunDroveTheSUT
<1>0. selected \subseteq Smokes
  BY DEF IInv, TypeOK
<1>1. \A s \in selected : result[s] = "skip"
  BY <1>0, PassedMeansDriven DEF IInv, ExitInv
<1>2. \A s \in Smokes : ledger[s] # "exercised"
  <2> TAKE s \in Smokes
  <2>1. CASE s \in selected
    BY <1>1, <2>1, SkippedMeansNotExercised
  <2>2. CASE s \notin selected
    BY <2>2 DEF IInv, SmokeInv
  <2> QED BY <2>1, <2>2
<1>3. Filed("declined") = {}
  BY <1>2 DEF IInv, ExitInv, CheckLiveness, Filed
<1>4. ASSUME NEW s \in selected
      PROVE  \/ ledger[s] = "opted-out" /\ asked # {}
             \/ ledger[s] = "none" /\ Gates[s][next[s]] = "peer"
  <2>1. ledger[s] \in {"none", "opted-out"}
    BY <1>0, <1>2, <1>3 DEF IInv, TypeOK, Outcomes, Filed
  <2>2. ledger[s] = "opted-out" => asked # {}
    BY <1>0 DEF IInv, SmokeInv
  <2>3. ledger[s] = "none" => Gates[s][next[s]] = "peer"
    BY <1>0, <1>1, SkippedMeansNotExercised
  <2> QED BY <2>1, <2>2, <2>3
<1> QED BY <1>1, <1>4

LEMMA RedFollows == IInv => RedRunHasReason
<1> SUFFICES ASSUME IInv, exit = "fail", ~\E s \in selected : result[s] = "fail"
             PROVE  (\E s \in selected : ledger[s] = "declined") /\ driven = {}
  BY DEF RedRunHasReason
<1>1. ~CheckLiveness /\ \A s \in selected : result[s] \in {"pass", "skip"}
  BY DEF IInv, ExitInv
<1>2. Filed("exercised") = {} /\ Filed("declined") # {}
  BY <1>1 DEF CheckLiveness
<1>3. ASSUME NEW s \in Smokes, ledger[s] = "declined" PROVE s \in selected
  BY <1>3 DEF IInv, SmokeInv
<1>4. ASSUME NEW s \in driven PROVE FALSE
  <2>1. s \in Smokes
    BY DEF IInv, TypeOK
  <2>2. result[s] # "skip"
    BY <2>1, SkippedMeansNotDriven
  <2>3. result[s] # "pass"
    BY <1>2, <2>1, PassedMeansDriven DEF Filed
  <2>4. s \in selected
    BY <2>1 DEF IInv, SmokeInv
  <2> QED BY <1>1, <2>2, <2>3, <2>4
<1> QED BY <1>2, <1>3, <1>4 DEF Filed

(* Whatever smokes there are and in whatever order they run, a green run   *)
(* drove the code under test, was opted out of, or was skipped raw.        *)
THEOREM GreenRunIsEvidence == Spec => []GreenRunDroveTheSUT
BY Invariance, GreenFollows, PTL

(* A red run without a failing smoke is one in which some smoke declined   *)
(* and none drove the code under test.                                     *)
THEOREM RedRunIsDeserved == Spec => []RedRunHasReason
BY Invariance, RedFollows, PTL

(* Nothing happens to a run that has ended.                                *)
LEMMA ExitIsFinal ==
  ASSUME IInv, [Next]_vars, exit # "none"
  PROVE  UNCHANGED vars
<1>1. ASSUME NEW s \in Smokes, current = s PROVE FALSE
  BY <1>1 DEF IInv, SmokeInv
<1> QED
  BY <1>1 DEF Next, Start, OptOut, Decline, RequireDonmaiSource, RequireDonmaiBinary,
              RecordItself, EnsurePeer, Drive, Pass, TestMain, Panics, Calls, IInv, TypeOK

(* A step of a smoke touches no other smoke, and its own only while it is  *)
(* under way; the evidence it loses it loses by declining.                 *)
LEMMA StandStep ==
  ASSUME IInv, [Next]_vars, NEW x \in Smokes
  PROVE  /\ result[x] # "none" =>
              result'[x] = result[x] /\ ledger'[x] = ledger[x] /\ next'[x] = next[x]
         /\ ledger[x] = "exercised" =>
              \/ ledger'[x] = "exercised"
              \/ /\ ledger'[x] = "declined" /\ result'[x] = "skip"
                 /\ next[x] \in DOMAIN Gates[x] /\ Gates[x][next[x]] \in Declines
              \/ /\ next[x] \in DOMAIN Gates[x] /\ Gates[x][next[x]] \in OptOuts
<1> DEFINE Stands ==
      /\ result[x] # "none" =>
           result'[x] = result[x] /\ ledger'[x] = ledger[x] /\ next'[x] = next[x]
      /\ ledger[x] = "exercised" =>
           \/ ledger'[x] = "exercised"
           \/ /\ ledger'[x] = "declined" /\ result'[x] = "skip"
              /\ next[x] \in DOMAIN Gates[x] /\ Gates[x][next[x]] \in Declines
           \/ /\ next[x] \in DOMAIN Gates[x] /\ Gates[x][next[x]] \in OptOuts
<1>0. TypeOK /\ (current = x => result[x] = "none")
  BY DEF IInv, SmokeInv
<1> USE DEF TypeOK, runVars
<1>1. ASSUME NEW s \in Smokes, Start(s) PROVE Stands
  BY <1>0, <1>1 DEF Start
<1>2. ASSUME NEW s \in Smokes, OptOut(s) PROVE Stands
  <2>1. PICK g \in OptOuts :
          /\ Calls(s, g)
          /\ \/ RecordLive(s, "opted-out") /\ Ends(s, "skip")
             \/ UNCHANGED ledger /\ Passes(s)
    BY <1>2 DEF OptOut
  <2>2. next[s] \in DOMAIN Gates[s] /\ Gates[s][next[s]] \in OptOuts /\ current = s
    BY <2>1 DEF Calls
  <2>3. CASE x = s
    BY <1>0, <2>1, <2>2, <2>3 DEF RecordLive, Passes, Ends
  <2>4. CASE x # s
    BY <1>0, <2>1, <2>4 DEF RecordLive, Passes, Ends
  <2> QED
    BY <2>3, <2>4
<1>3. ASSUME NEW s \in Smokes, Decline(s) PROVE Stands
  BY <1>0, <1>3 DEF Decline, Calls, RecordLive, Passes, Ends
<1>4. ASSUME NEW s \in Smokes, RequireDonmaiSource(s) PROVE Stands
  BY <1>0, <1>4 DEF RequireDonmaiSource, Calls, Passes, Ends
<1>5. ASSUME NEW s \in Smokes, RequireDonmaiBinary(s) \/ RecordItself(s) PROVE Stands
  BY <1>0, <1>5 DEF RequireDonmaiBinary, RecordItself, Calls, RecordLive, Passes, Ends
<1>6. ASSUME NEW s \in Smokes, EnsurePeer(s) PROVE Stands
  BY <1>0, <1>6 DEF EnsurePeer, Calls, Passes, Ends
<1>7. ASSUME NEW s \in Smokes, Drive(s) PROVE Stands
  BY <1>0, <1>7 DEF Drive, Calls, Passes, Ends
<1>8. ASSUME NEW s \in Smokes, Pass(s) PROVE Stands
  BY <1>0, <1>8 DEF Pass, Ends
<1>9. ASSUME TestMain \/ Panics PROVE Stands
  BY <1>9 DEF TestMain, Panics
<1>10. ASSUME UNCHANGED vars PROVE Stands
  BY <1>10 DEF vars
<1> HIDE DEF Stands, TypeOK, runVars
<1>11. Stands
  BY <1>1, <1>2, <1>3, <1>4, <1>5, <1>6, <1>7, <1>8, <1>9, <1>10 DEF Next
<1> QED
  BY <1>11 DEF Stands

LEMMA GrowStep ==
  ASSUME [Next]_vars
  PROVE  driven \subseteq driven'
BY DEF Next, Start, OptOut, Decline, RequireDonmaiSource, RequireDonmaiBinary,
       RecordItself, EnsurePeer, Drive, Pass, TestMain, Panics, vars

(* Standing evidence has a record behind it, after which no opt-out comes, *)
(* and a smoke that has driven the SUT meets no gate that skips any more.  *)
LEMMA NoSkipAhead ==
  ASSUME IInv, NEW s \in Smokes, ledger[s] = "exercised", next[s] \in DOMAIN Gates[s]
  PROVE  /\ Gates[s][next[s]] \notin OptOuts
         /\ s \in driven => Gates[s][next[s]] \notin Declines
<1>1. PICK i \in DOMAIN Gates[s] : i < next[s] /\ Gates[s][i] \in Records
  BY DEF IInv, EvidenceInv, Behind
<1>2. i \in Nat /\ next[s] \in Nat
  BY <1>1, GatesOf
<1>3. Gates[s][next[s]] \notin OptOuts
  BY <1>1, <1>2, GatesAssumption
<1>4. ASSUME s \in driven PROVE Gates[s][next[s]] \notin Declines
  <2>1. PICK j \in DOMAIN Gates[s] : Gates[s][j] = "drive" /\ j <= next[s]
    BY <1>2, <1>4, GatesOf DEF IInv, EvidenceInv, Behind
  <2>2. j \in Nat
    BY <2>1, GatesOf
  <2> QED
    BY <1>2, <2>1, <2>2, GatesAssumption DEF Skips
<1> QED
  BY <1>3, <1>4

(* What is known of a smoke stands, whatever the others do after it.       *)
THEOREM EvidenceIsNotWithdrawn == Spec => EvidenceStands
<1> DEFINE Stands ==
      /\ exit # "none" => UNCHANGED vars
      /\ driven \subseteq driven'
      /\ \A s \in Smokes :
           /\ s \in driven /\ ledger[s] = "exercised" => ledger'[s] = "exercised"
           /\ ledger[s] = "exercised" /\ ledger'[s] # "exercised" =>
                /\ ledger'[s] = "declined" /\ result'[s] = "skip"
                /\ Gates[s][next[s]] \in Declines
           /\ result[s] # "none" =>
                <<result[s], ledger[s], next[s]>> = <<result[s], ledger[s], next[s]>>'
<1>1. ASSUME IInv, [Next]_vars PROVE [Stands]_vars
  <2>1. exit # "none" => UNCHANGED vars
    BY <1>1, ExitIsFinal
  <2>2. driven \subseteq driven'
    BY <1>1, GrowStep
  <2>3. ASSUME NEW s \in Smokes
        PROVE  /\ s \in driven /\ ledger[s] = "exercised" => ledger'[s] = "exercised"
               /\ ledger[s] = "exercised" /\ ledger'[s] # "exercised" =>
                    /\ ledger'[s] = "declined" /\ result'[s] = "skip"
                    /\ Gates[s][next[s]] \in Declines
               /\ result[s] # "none" =>
                    <<result[s], ledger[s], next[s]>> = <<result[s], ledger[s], next[s]>>'
    BY <1>1, StandStep, NoSkipAhead
  <2> QED
    BY <2>1, <2>2, <2>3
<1> QED
  BY <1>1, Invariance, PTL DEF Spec, EvidenceStands

(* A green run that drove nothing unasked was skipped raw at every smoke;  *)
(* one selected smoke without a raw gate closes the hole in the ledger.    *)
THEOREM OnlyRawSkipsAreSilent ==
  /\ Spec => []OnlyRawSkipsEscape
  /\ Spec => []((\E s \in selected : "peer" \notin {Gates[s][i] : i \in DOMAIN Gates[s]})
                  => ExercisedNoneIsRed)
<1>1. IInv => OnlyRawSkipsEscape
  <2> SUFFICES ASSUME IInv, exit = "ok", asked = {}, selected \cap driven = {},
                      NEW s \in selected
               PROVE  /\ result[s] = "skip" /\ ledger[s] = "none"
                      /\ next[s] \in DOMAIN Gates[s] /\ Gates[s][next[s]] = "peer"
    BY DEF OnlyRawSkipsEscape
  <2>1. result[s] = "skip" /\ ledger[s] = "none" /\ Gates[s][next[s]] = "peer"
    BY GreenFollows DEF GreenRunDroveTheSUT
  <2> QED
    BY <2>1 DEF IInv, TypeOK, SmokeInv
<1>2. OnlyRawSkipsEscape =>
        ((\E s \in selected : "peer" \notin {Gates[s][i] : i \in DOMAIN Gates[s]})
          => ExercisedNoneIsRed)
  BY DEF OnlyRawSkipsEscape, ExercisedNoneIsRed
<1> QED
  BY <1>1, <1>2, Invariance, PTL

-----------------------------------------------------------------------------
(* PeerInstall.                                                            *)

(* A nonempty set of positions has a first.                                *)
LEMMA FirstOf ==
  ASSUME NEW S \in SUBSET Nat, S # {}
  PROVE  First(S) \in S /\ \A j \in S : First(S) <= j
<1>1. \E x \in S : \A y \in S : ~(<<y, x>> \in OpToRel(<, Nat))
  BY NatLessThanWellFounded, WFMin, Zenon
<1>2. \E x \in S : \A y \in S : ~(y < x)
  BY <1>1 DEF OpToRel
<1>3. PICK x \in S : \A y \in S : ~(y < x)
  BY <1>2
<1>4. ASSUME NEW y \in S PROVE x <= y
  <2>1. x \in Nat /\ y \in Nat /\ ~(y < x)
    BY <1>3
  <2> QED
    BY <2>1
<1> QED
  BY <1>4 DEF First

LEMMA ComponentNat ==
  ASSUME NEW v \in Version, NEW i \in Nat
  PROVE  Component(v, i) \in Nat
BY DEF Component, Version

(* compareDottedVersions finds no version at least as new as another that  *)
(* is in fact older, whatever their lengths.                               *)
LEMMA CompareIsNumeric ==
  ASSUME NEW a \in Version, NEW b \in Version, compareDottedVersions(a, b) >= 0
  PROVE  NoOlder(a, b)
<1> DEFINE n == Longer(a, b)
<1>1. n \in Nat /\ Differ(a, b) \in SUBSET Nat
  BY DEF Longer, Differ, Version
<1> SUFFICES ASSUME NEW i \in 1..n, \A j \in 1..(i - 1) : Component(a, j) = Component(b, j)
             PROVE  Component(b, i) <= Component(a, i)
  BY DEF NoOlder
<1>2. i \in Nat /\ Component(a, i) \in Nat /\ Component(b, i) \in Nat
  BY <1>1, ComponentNat
<1>3. CASE i \notin Differ(a, b)
  BY <1>2, <1>3 DEF Differ
<1>4. CASE i \in Differ(a, b)
  <2> DEFINE f == First(Differ(a, b))
  <2>1. f \in Differ(a, b) /\ f <= i
    BY <1>1, <1>4, FirstOf
  <2>2. f \in 1..n /\ Component(a, f) # Component(b, f)
    BY <2>1 DEF Differ
  <2> HIDE DEF f, n
  <2>3. ~(f < i)
    BY <1>1, <1>2, <2>2
  <2>4. f = i
    BY <1>1, <1>2, <2>1, <2>2, <2>3
  <2>5. compareDottedVersions(a, b) = IF Component(a, i) < Component(b, i) THEN -1 ELSE 1
    BY <1>4, <2>4 DEF compareDottedVersions, f
  <2> QED
    BY <1>2, <2>5
<1> QED
  BY <1>3, <1>4

(* The helpers are the gate "peer": PeerInstall implements LivenessGate,   *)
(* and with it SuiteGates does.                                            *)
LEMMA PeerStep ==
  ASSUME [PeerNext]_peersVars
  PROVE  [Next]_vars
<1>1. ASSUME NEW s \in Smokes, EnsurePeerBinary(s) PROVE [Next]_vars
  <2>1. Calls(s, "peer") /\ UNCHANGED <<runVars, ledger, driven, exit>>
    BY <1>1 DEF EnsurePeerBinary, UseOverride, ProbePath, NpmMissing, NpmInstall,
                CheckInstalled, HelperFrame
  <2>2. \/ Passes(s) \/ Ends(s, "fail") \/ Ends(s, "skip")
        \/ UNCHANGED <<current, next, result>>
    BY <1>1 DEF EnsurePeerBinary, UseOverride, ProbePath, NpmMissing, NpmInstall,
                CheckInstalled, Hands
  <2>3. CASE Passes(s) \/ Ends(s, "fail") \/ Ends(s, "skip")
    BY <2>1, <2>3 DEF Next, EnsurePeer
  <2>4. CASE UNCHANGED <<current, next, result>>
    BY <2>1, <2>4 DEF vars
  <2> QED
    BY <2>2, <2>3, <2>4
<1>2. CASE UNCHANGED peersVars
  BY <1>2 DEF peersVars
<1> QED
  BY <1>1, <1>2 DEF PeerNext, Next

THEOREM PeersImplementTheGate == PeerSpec => ImplementsGate
<1>1. PeerInit => Init
  BY DEF PeerInit
<1> QED
  BY <1>1, PeerStep, PTL DEF PeerSpec, Spec, ImplementsGate

LEMMA SuiteStep ==
  ASSUME [SuiteNext]_suiteVars
  PROVE  [PeerNext]_peersVars
BY DEF SuiteNext, Tee, RunHermeticTests, NightlyJob, Judges, suiteVars

(* The suite, its helpers and its readers, is a LivenessGate.              *)
THEOREM SuiteImplementsTheGate == SuiteSpec => ImplementsGate
<1>1. SuiteInit => PeerInit
  BY DEF SuiteInit
<1>2. SuiteSpec => PeerSpec
  BY <1>1, SuiteStep, PTL DEF SuiteSpec, PeerSpec
<1> QED
  BY <1>2, PeersImplementTheGate

-----------------------------------------------------------------------------
(* The invariant of the suite.                                             *)

Others(s) ==
  \/ Start(s) \/ OptOut(s) \/ Decline(s) \/ RequireDonmaiSource(s)
  \/ RequireDonmaiBinary(s) \/ RecordItself(s) \/ Drive(s) \/ Pass(s)

(* What a step may do to the gates behind a smoke: nothing, or it passes   *)
(* one gate, which is no opt-out that the operator asked for.              *)
PassesGate(s, g) ==
  Calls(s, g) /\ Passes(s) /\ ~(g \in OptOuts /\ g \in asked)

LEMMA OtherMoves ==
  ASSUME NEW s \in Smokes, Others(s)
  PROVE  next' = next \/ \E g \in Gate \ {"peer"} : PassesGate(s, g)
<1> USE DEF PassesGate, Gate
<1>1. CASE Start(s)
  BY <1>1 DEF Start
<1>2. CASE OptOut(s)
  <2> PICK g \in OptOuts : /\ Calls(s, g)
                           /\ \/ g \in asked /\ Ends(s, "skip")
                              \/ g \notin asked /\ Passes(s)
    BY <1>2 DEF OptOut
  <2>1. g \in Gate \ {"peer"}
    BY DEF OptOuts
  <2> QED
    BY <2>1 DEF Ends
<1>3. CASE Decline(s)
  <2> PICK g \in Declines : Calls(s, g)
    BY <1>3 DEF Decline
  <2>1. g \in Gate \ {"peer"} /\ g \notin OptOuts
    BY DEF OptOuts, Declines
  <2> QED
    BY <1>3, <2>1 DEF Decline, Ends
<1>4. CASE RequireDonmaiSource(s)
  BY <1>4 DEF RequireDonmaiSource, Ends, OptOuts
<1>5. CASE RequireDonmaiBinary(s)
  BY <1>5 DEF RequireDonmaiBinary, Ends, OptOuts
<1>6. CASE RecordItself(s)
  BY <1>6 DEF RecordItself, Ends, OptOuts
<1>7. CASE Drive(s)
  BY <1>7 DEF Drive, Ends, OptOuts
<1>8. CASE Pass(s)
  BY <1>8 DEF Pass, Ends
<1> QED
  BY <1>1, <1>2, <1>3, <1>4, <1>5, <1>6, <1>7, <1>8 DEF Others

LEMMA PeerMoves ==
  ASSUME NEW s \in Smokes, EnsurePeerBinary(s)
  PROVE  /\ UNCHANGED overridden
         /\ \/ next' = next /\ handed' = handed
            \/ /\ PassesGate(s, "peer")
               /\ \E by \in {"operator", "path", "npm"}, v \in Versions \cup {NoVersion} :
                    /\ handed' = [handed EXCEPT ![s] = [by |-> by, version |-> v]]
                    /\ \/ by = "operator" /\ PeerOf[s] \in overridden
                       \/ by = "path" /\ GoodEnough(PeerOf[s], v)
                       \/ by = "npm" /\ v = Pin[PeerOf[s]]
<1> USE DEF PassesGate, OptOuts
<1>1. CASE UseOverride(s)
  BY <1>1 DEF UseOverride, Hands, HelperFrame
<1>2. CASE ProbePath(s)
  BY <1>2 DEF ProbePath, Hands, HelperFrame
<1>3. CASE NpmMissing(s)
  BY <1>3 DEF NpmMissing, Ends, HelperFrame
<1>4. CASE NpmInstall(s)
  BY <1>4 DEF NpmInstall, Ends, HelperFrame
<1>5. CASE CheckInstalled(s)
  BY <1>5 DEF CheckInstalled, Hands, Ends, HelperFrame
<1> QED
  BY <1>1, <1>2, <1>3, <1>4, <1>5 DEF EnsurePeerBinary

(* PeerNext, by what it means for the gates.                               *)
LEMMA PeerCases ==
  ASSUME [PeerNext]_peersVars
  PROVE  \/ \E s \in Smokes : EnsurePeerBinary(s)
         \/ (\E s \in Smokes : Others(s)) /\ UNCHANGED peerVars
         \/ UNCHANGED <<asked, next, overridden, handed>> /\ peer' \in {peer, "off"}
BY DEF PeerNext, peersVars, peerVars, Others, TestMain, Panics, vars, runVars

LEMMA PassedGate ==
  ASSUME TypeOK, NEW s \in Smokes, NEW g, PassesGate(s, g), NEW x \in Smokes, NEW G
  PROVE  Behind(x, G)' <=> Behind(x, G) \/ (x = s /\ g \in G)
<1>1. next[s] \in DOMAIN Gates[s] /\ Gates[s][next[s]] = g /\ next' = [next EXCEPT ![s] = @ + 1]
  BY DEF PassesGate, Calls, Passes
<1> QED
  BY <1>1, GatePassed

LEMMA PeerTypeStep ==
  ASSUME PeerTypeOK, [PeerNext]_peersVars
  PROVE  PeerTypeOK'
<1>1. overridden' \in SUBSET Peers /\ handed' \in [Smokes -> Handed]
  <2>1. CASE \E s \in Smokes : EnsurePeerBinary(s)
    <3> PICK s \in Smokes : EnsurePeerBinary(s)
      BY <2>1
    <3>1. \A by \in {"operator", "path", "npm"}, v \in Versions \cup {NoVersion} :
            [by |-> by, version |-> v] \in Handed
      BY DEF Handed
    <3> QED
      BY <3>1, PeerMoves DEF PeerTypeOK
  <2> QED
    BY <2>1, PeerCases DEF PeerTypeOK, peerVars
<1>2. peer' \in {"off", "npm", "installed"}
  <2>1. CASE \E s \in Smokes : EnsurePeerBinary(s)
    BY <2>1 DEF EnsurePeerBinary, UseOverride, ProbePath, NpmMissing, NpmInstall,
                CheckInstalled, Hands
  <2> QED
    BY <2>1, PeerCases DEF PeerTypeOK, peerVars
<1> QED
  BY <1>1, <1>2 DEF PeerTypeOK

(* Whatever a helper hands over fits.                                      *)
LEMMA HandedFits ==
  ASSUME PeerTypeOK, NEW s \in Smokes,
         NEW by \in {"operator", "path", "npm"}, NEW v \in Versions \cup {NoVersion},
         handed' = [handed EXCEPT ![s] = [by |-> by, version |-> v]],
         UNCHANGED overridden,
         \/ by = "operator" /\ PeerOf[s] \in overridden
         \/ by = "path" /\ GoodEnough(PeerOf[s], v)
         \/ by = "npm" /\ v = Pin[PeerOf[s]]
  PROVE  Fit(s)'
<1>1. handed'[s] = [by |-> by, version |-> v]
  BY DEF PeerTypeOK
<1>2. PeerOf[s] \in Peers
  BY PeerAssumption
<1>3. CASE by = "operator" /\ PeerOf[s] \in overridden
  BY <1>1, <1>3 DEF Fit
<1>4. CASE by = "npm" /\ v = Pin[PeerOf[s]]
  BY <1>1, <1>4 DEF Fit
<1>5. CASE by = "path" /\ GoodEnough(PeerOf[s], v)
  <2>1. CASE PeerOf[s] = "pi"
    BY <1>1, <1>5, <2>1 DEF Fit, GoodEnough
  <2>2. CASE PeerOf[s] = "opencode"
    <3>1. v \in Version /\ Pin["opencode"] \in Version
      BY <1>5, PeerAssumption DEF GoodEnough, Peers
    <3>2. compareDottedVersions(v, Pin["opencode"]) >= 0
      BY <1>5, <2>2 DEF GoodEnough
    <3>3. NoOlder(v, Pin["opencode"])
      BY <3>1, <3>2, CompareIsNumeric
    <3> QED
      BY <1>1, <1>5, <2>2, <3>3 DEF Fit
  <2> QED
    BY <1>2, <2>1, <2>2 DEF Peers
<1> QED
  BY <1>3, <1>4, <1>5

LEMMA FitStep ==
  ASSUME TypeOK, PeerTypeOK, PeerIsFit, [PeerNext]_peersVars
  PROVE  PeerIsFit'
<1> SUFFICES ASSUME NEW x \in Smokes, Behind(x, {"peer"})' PROVE Fit(x)'
  BY DEF PeerIsFit
<1>1. ASSUME next' = next PROVE Behind(x, {"peer"})
  BY <1>1 DEF Behind
<1>2. ASSUME UNCHANGED <<overridden, handed>>, Behind(x, {"peer"}) PROVE Fit(x)'
  BY <1>2 DEF PeerIsFit, Fit
<1>3. ASSUME NEW s \in Smokes, EnsurePeerBinary(s) PROVE Fit(x)'
  <2>1. CASE next' = next /\ handed' = handed
    BY <1>1, <1>2, <1>3, <2>1, PeerMoves
  <2>2. CASE ~(next' = next /\ handed' = handed)
    <3>1. UNCHANGED overridden /\ PassesGate(s, "peer")
      BY <1>3, <2>2, PeerMoves
    <3>2. PICK by \in {"operator", "path", "npm"}, v \in Versions \cup {NoVersion} :
                 /\ handed' = [handed EXCEPT ![s] = [by |-> by, version |-> v]]
                 /\ \/ by = "operator" /\ PeerOf[s] \in overridden
                    \/ by = "path" /\ GoodEnough(PeerOf[s], v)
                    \/ by = "npm" /\ v = Pin[PeerOf[s]]
      BY <1>3, <2>2, PeerMoves
    <3>3. CASE x = s
      BY <3>1, <3>2, <3>3, HandedFits
    <3>4. CASE x # s
      <4>1. handed'[x] = handed[x]
        BY <3>2, <3>4 DEF PeerTypeOK
      <4>2. Behind(x, {"peer"})
        BY <3>1, <3>4, PassedGate
      <4> QED
        BY <3>1, <4>1, <4>2 DEF PeerIsFit, Fit
    <3> QED
      BY <3>3, <3>4
  <2> QED
    BY <2>1, <2>2
<1>4. ASSUME NEW s \in Smokes, Others(s), UNCHANGED peerVars PROVE Fit(x)'
  <2>1. CASE next' = next
    BY <1>1, <1>2, <1>4, <2>1 DEF peerVars
  <2>2. CASE next' # next
    <3>1. PICK g \in Gate \ {"peer"} : PassesGate(s, g)
      BY <1>4, <2>2, OtherMoves
    <3>2. Behind(x, {"peer"})
      BY <3>1, PassedGate
    <3> QED
      BY <1>2, <1>4, <3>2 DEF peerVars
  <2> QED
    BY <2>1, <2>2
<1> QED
  BY <1>1, <1>2, <1>3, <1>4, PeerCases

(* Under -short no gate "short" is ever behind a smoke.                    *)
LEMMA ShortStep ==
  ASSUME TypeOK, [PeerNext]_peersVars, NEW x \in Smokes,
         "short" \in asked => ~Behind(x, {"short"})
  PROVE  "short" \in asked' => ~Behind(x, {"short"})'
<1>1. asked' = asked
  <2>1. [Next]_vars
    BY PeerStep
  <2> QED
    BY <2>1 DEF Next, vars, runVars, Start, OptOut, Decline, RequireDonmaiSource,
                RequireDonmaiBinary, RecordItself, EnsurePeer, Drive, Pass, TestMain, Panics
<1>2. ASSUME next' = next PROVE Behind(x, {"short"})' <=> Behind(x, {"short"})
  BY <1>2 DEF Behind
<1>3. ASSUME NEW s \in Smokes, NEW g, PassesGate(s, g), "short" \in asked
      PROVE  Behind(x, {"short"})' <=> Behind(x, {"short"})
  BY <1>3, PassedGate DEF PassesGate, OptOuts
<1>4. next' = next \/ \E s \in Smokes, g \in Gate : PassesGate(s, g)
  <2>1. "peer" \in Gate
    BY DEF Gate
  <2> QED
    BY <2>1, PeerCases, PeerMoves, OtherMoves
<1> QED
  BY <1>1, <1>2, <1>3, <1>4

LEMMA SuiteInitInv == SuiteInit => SuiteIInv
<1> SUFFICES ASSUME SuiteInit PROVE SuiteIInv
  OBVIOUS
<1>1. IInv
  BY InitInv DEF SuiteInit, PeerInit
<1>2. \A s \in Smokes, G \in SUBSET Gate : ~Behind(s, G)
  BY GatesOf DEF SuiteInit, PeerInit, Init, Behind
<1>3. PeerTypeOK
  BY DEF SuiteInit, PeerInit, PeerTypeOK, Handed, Nothing
<1>4. PeerIsFit /\ (\A s \in Smokes : "short" \in asked => ~Behind(s, {"short"}))
  <2>1. {"peer"} \in SUBSET Gate /\ {"short"} \in SUBSET Gate
    BY DEF Gate
  <2> QED
    BY <1>2, <2>1 DEF PeerIsFit
<1>5. SuiteTypeOK
  <2>1. 0 \in 0..MaxPlain
    BY SuiteAssumption
  <2>2. NoLog \in Log
    BY <2>1 DEF Log, NoLog
  <2>3. plain \in 0..MaxPlain /\ plainFail \in BOOLEAN /\ log \in Log
    BY <2>1, <2>2 DEF SuiteInit
  <2>4. verdict \in [Readers -> {"none", "green", "red"}]
    BY DEF SuiteInit
  <2> QED
    BY <2>3, <2>4 DEF SuiteTypeOK
<1>6. log.tee = "none" /\ \A r \in Readers : verdict[r] = "none"
  BY DEF SuiteInit, NoLog
<1>7. SuiteInv
  BY <1>4, <1>6 DEF SuiteInv, Readers
<1> QED
  BY <1>1, <1>3, <1>4, <1>5, <1>7 DEF SuiteIInv

LEMMA SuiteTypeStep ==
  ASSUME SuiteTypeOK, TypeOK, [SuiteNext]_suiteVars
  PROVE  SuiteTypeOK'
<1> USE DEF SuiteTypeOK, logVars
<1>1. CASE Tee
  <2>1. plain' \in 0..MaxPlain /\ plainFail' \in BOOLEAN /\ verdict' = verdict
    BY <1>1 DEF Tee
  <2>2. Ended \in SUBSET Smokes
    BY DEF Ended
  <2>3. log' \in Log
    <3>1. PICK S \in SUBSET Smokes, n \in 0..plain', t \in {"ok", "error"} :
            log' = [smokes |-> S, plain |-> n, tee |-> t]
      <4>1. plain' \in 0..plain'
        BY <2>1, SuiteAssumption
      <4> QED
        BY <1>1, <2>2, <4>1 DEF Tee
    <3>2. n \in 0..MaxPlain
      BY <2>1, <3>1, SuiteAssumption
    <3> QED
      BY <3>1, <3>2 DEF Log
  <2> QED
    BY <2>1, <2>3
<1>2. CASE RunHermeticTests \/ NightlyJob
  BY <1>2 DEF RunHermeticTests, NightlyJob, Judges, Readers
<1>3. CASE UNCHANGED <<logVars, verdict>>
  BY <1>3
<1> QED
  BY <1>1, <1>2, <1>3 DEF SuiteNext, suiteVars

(* The part of SuiteInv about the verdicts.                                *)
LEMMA VerdictStep ==
  ASSUME SuiteIInv, [SuiteNext]_suiteVars
  PROVE  /\ log'.tee # "none" => exit' # "none" /\ selected' = Smokes
         /\ log'.tee = "ok" => log'.smokes = Ended' /\ log'.plain = plain'
         /\ \A r \in Readers : verdict'[r] # "none" => log'.tee # "none"
         /\ verdict'["hermetic"] = "green" =>
              log'.tee = "ok" /\ goTestOK' /\ passCount' >= Floor
         /\ verdict'["nightly"] = "green" =>
              log'.tee = "ok" /\ goTestOK' /\ Canaries \subseteq Lines("pass")'
<1> USE DEF SuiteIInv, SuiteTypeOK, SuiteInv, logVars, Readers
<1>1. ASSUME UNCHANGED <<vars, logVars>>
      PROVE  /\ Ended' = Ended /\ goTestOK' = goTestOK /\ passCount' = passCount
             /\ Lines("pass")' = Lines("pass")
             /\ exit' = exit /\ selected' = selected
  BY <1>1 DEF vars, runVars, Ended, goTestOK, passCount, Lines
<1>2. CASE Tee
  <2>1. /\ exit # "none" /\ selected = Smokes /\ log.tee = "none"
        /\ UNCHANGED <<vars, verdict>>
    BY <1>2 DEF Tee, peersVars
  <2>2. \A r \in Readers : verdict'[r] = "none"
    BY <2>1
  <2>3. Ended' = Ended /\ exit' = exit /\ selected' = selected
    BY <2>1 DEF vars, runVars, Ended
  <2>4. log'.tee = "ok" => log'.smokes = Ended' /\ log'.plain = plain'
    <3>1. CASE log' = [smokes |-> Ended, plain |-> plain', tee |-> "ok"]
      BY <2>3, <3>1
    <3>2. CASE \E S \in SUBSET Ended, n \in 0..plain' :
                 log' = [smokes |-> S, plain |-> n, tee |-> "error"]
      BY <3>2
    <3> QED
      BY <1>2, <3>1, <3>2 DEF Tee
  <2> QED
    BY <2>1, <2>2, <2>3, <2>4
<1>3. CASE RunHermeticTests
  <2>1. UNCHANGED <<vars, logVars>> /\ log.tee # "none"
    BY <1>3 DEF RunHermeticTests, Judges, peersVars
  <2>2. verdict' = [verdict EXCEPT !["hermetic"] =
          IF log.tee = "ok" /\ goTestOK /\ failCount = 0 /\ passCount >= Floor
            THEN "green" ELSE "red"]
    BY <1>3 DEF RunHermeticTests, Judges
  <2>3. verdict'["nightly"] = verdict["nightly"]
    BY <2>2
  <2>4. verdict'["hermetic"] = "green" => log.tee = "ok" /\ goTestOK /\ passCount >= Floor
    BY <2>2
  <2>5. log' = log /\ plain' = plain
    BY <2>1
  <2> QED
    BY <1>1, <2>1, <2>3, <2>4, <2>5
<1>4. CASE NightlyJob
  <2>1. UNCHANGED <<vars, logVars>> /\ log.tee # "none"
    BY <1>4 DEF NightlyJob, Judges, peersVars
  <2>2. verdict' = [verdict EXCEPT !["nightly"] =
          IF /\ log.tee = "ok" /\ goTestOK
             /\ Canaries \cap Lines("skip") = {}
             /\ Canaries \subseteq Lines("pass")
            THEN "green" ELSE "red"]
    BY <1>4 DEF NightlyJob, Judges
  <2>3. verdict'["hermetic"] = verdict["hermetic"]
    BY <2>2
  <2>4. verdict'["nightly"] = "green" =>
          log.tee = "ok" /\ goTestOK /\ Canaries \subseteq Lines("pass")
    BY <2>2
  <2>5. log' = log /\ plain' = plain
    BY <2>1
  <2> QED
    BY <1>1, <2>1, <2>3, <2>4, <2>5
<1>5. CASE UNCHANGED <<logVars, verdict>> /\ [PeerNext]_peersVars
  <2>1. CASE log.tee = "none"
    BY <1>5, <2>1
  <2>2. CASE log.tee # "none"
    <3>1. UNCHANGED vars
      BY <1>5, <2>2, PeerStep, ExitIsFinal
    <3>2. log' = log /\ plain' = plain /\ verdict' = verdict
      BY <1>5
    <3> QED
      BY <1>1, <1>5, <3>1, <3>2
  <2> QED
    BY <2>1, <2>2
<1> QED
  BY <1>2, <1>3, <1>4, <1>5 DEF SuiteNext, suiteVars

LEMMA SuiteInvStep ==
  ASSUME SuiteIInv, [SuiteNext]_suiteVars
  PROVE  SuiteIInv'
<1>1. [PeerNext]_peersVars /\ [Next]_vars
  BY SuiteStep, PeerStep
<1>2. IInv'
  BY <1>1, TypeStep, SmokeStep, EvidenceStep, ExitStep DEF IInv, SuiteIInv
<1>3. PeerTypeOK' /\ PeerIsFit'
  BY <1>1, PeerTypeStep, FitStep DEF IInv, SuiteIInv
<1>4. SuiteTypeOK'
  BY SuiteTypeStep DEF IInv, SuiteIInv
<1>5. \A x \in Smokes : "short" \in asked' => ~Behind(x, {"short"})'
  BY <1>1, ShortStep DEF IInv, SuiteIInv, SuiteInv
<1>6. SuiteInv'
  BY <1>5, VerdictStep DEF SuiteInv
<1> QED
  BY <1>2, <1>3, <1>4, <1>6 DEF SuiteIInv

(* The inductive invariant of the suite holds in every reachable state,    *)
(* the helpers' and the readers' part included.                            *)
THEOREM SuiteInvariance == SuiteSpec => []SuiteIInv
<1>1. SuiteInit => SuiteIInv
  BY SuiteInitInv
<1>2. SuiteIInv /\ [SuiteNext]_suiteVars => SuiteIInv'
  BY SuiteInvStep
<1> QED
  BY <1>1, <1>2, PTL DEF SuiteSpec

(* Whatever peers, pins and versions there are, no smoke passes its peer   *)
(* gate without a CLI that fits.                                           *)
THEOREM PeersAreFit == SuiteSpec => []PeerIsFit
<1>1. SuiteIInv => PeerIsFit
  BY DEF SuiteIInv
<1> QED
  BY <1>1, SuiteInvariance, PTL

LEMMA HermeticFollows == SuiteIInv => HermeticGreenIsComplete
<1> SUFFICES ASSUME SuiteIInv, verdict["hermetic"] = "green"
             PROVE  /\ \A s \in Smokes : result[s] \in {"pass", "skip"}
                    /\ ~plainFail
                    /\ Cardinality({s \in Smokes : result[s] = "pass"}) + plain >= Floor
  BY DEF HermeticGreenIsComplete
<1>1. log.tee = "ok" /\ exit = "ok" /\ ~plainFail /\ passCount >= Floor
  BY DEF SuiteIInv, SuiteInv, goTestOK
<1>2. log.smokes = Ended /\ log.plain = plain /\ selected = Smokes
  BY <1>1 DEF SuiteIInv, SuiteInv
<1>3. \A s \in Smokes : result[s] \in {"pass", "skip"}
  BY <1>1, <1>2 DEF SuiteIInv, IInv, ExitInv
<1>4. Lines("pass") = {s \in Smokes : result[s] = "pass"}
  BY <1>2 DEF Lines, Ended
<1>5. Cardinality({s \in Smokes : result[s] = "pass"}) + plain >= Floor
  BY <1>1, <1>2, <1>4 DEF passCount
<1> QED
  BY <1>1, <1>3, <1>5

LEMMA ShortFollows == SuiteIInv => ShortRunsNothingLive
<1> SUFFICES ASSUME SuiteIInv, "short" \in asked, NEW s \in Smokes, ShortFirst(s)
             PROVE  s \notin driven /\ ledger[s] # "exercised"
  BY DEF ShortRunsNothingLive
<1>1. PICK i \in DOMAIN Gates[s] :
        /\ Gates[s][i] = "short"
        /\ \A j \in DOMAIN Gates[s] : Gates[s][j] \in {"drive"} \cup Records => i < j
  BY DEF ShortFirst
<1>2. next[s] \in Nat /\ i \in Nat /\ \A j \in DOMAIN Gates[s] : j \in Nat
  BY <1>1, GatesOf DEF SuiteIInv, IInv, TypeOK
<1>3. ~(i < next[s])
  BY <1>1 DEF SuiteIInv, SuiteInv, Behind
<1>4. ~Behind(s, {"drive"}) /\ ~Behind(s, Records)
  BY <1>1, <1>2, <1>3 DEF Behind
<1>5. ~(next[s] \in DOMAIN Gates[s] /\ Gates[s][next[s]] = "drive")
  BY <1>1, <1>2, <1>3
<1> QED
  BY <1>4, <1>5 DEF SuiteIInv, IInv, EvidenceInv

LEMMA CanariesFollow == SuiteIInv => GreenJobDroveCanaries
<1> SUFFICES ASSUME SuiteIInv, verdict["nightly"] = "green", NEW c \in Canaries
             PROVE  /\ c \in driven /\ ledger[c] = "exercised"
                    /\ Behind(c, {"peer"}) => Fit(c)
  BY DEF GreenJobDroveCanaries
<1>1. c \in Smokes /\ result[c] = "pass"
  BY SuiteAssumption DEF SuiteIInv, SuiteInv, Lines
<1>2. c \in driven /\ ledger[c] = "exercised"
  BY <1>1, PassedMeansDriven DEF SuiteIInv
<1> QED
  BY <1>1, <1>2 DEF SuiteIInv, PeerIsFit

(* A green pull-request job is complete, whatever tee has lost.            *)
THEOREM HermeticIsComplete == SuiteSpec => []HermeticGreenIsComplete
BY SuiteInvariance, HermeticFollows, PTL

(* -short keeps every smoke that asks for it first from running anything.  *)
THEOREM ShortIsHermetic == SuiteSpec => []ShortRunsNothingLive
BY SuiteInvariance, ShortFollows, PTL

(* A green nightly job has driven its canaries, with peers that fit.       *)
THEOREM CanariesSang == SuiteSpec => []GreenJobDroveCanaries
BY SuiteInvariance, CanariesFollow, PTL

(* What LivenessGate promises of a run holds of the suite as well.         *)
THEOREM SuiteEvidence == SuiteSpec => [](GreenRunDroveTheSUT /\ RedRunHasReason)
<1>1. SuiteIInv => GreenRunDroveTheSUT /\ RedRunHasReason
  BY GreenFollows, RedFollows DEF SuiteIInv
<1> QED
  BY <1>1, SuiteInvariance, PTL

(* Both jobs judge one and the same run: after tee, nothing of it moves.   *)
THEOREM NothingAfterTee == SuiteSpec => TheLogIsOver
<1>1. ASSUME SuiteIInv, [SuiteNext]_suiteVars, log.tee # "none"
      PROVE  UNCHANGED <<vars, logVars>>
  <2>1. UNCHANGED vars
    BY <1>1, SuiteStep, PeerStep, ExitIsFinal DEF SuiteIInv, SuiteInv
  <2>2. UNCHANGED logVars
    BY <1>1 DEF SuiteNext, Tee, RunHermeticTests, NightlyJob, Judges, suiteVars
  <2> QED
    BY <2>1, <2>2
<1>2. SuiteIInv /\ [SuiteNext]_suiteVars =>
        [log.tee # "none" => UNCHANGED <<vars, logVars>>]_suiteVars
  BY <1>1
<1> QED
  BY <1>2, SuiteInvariance, PTL DEF SuiteSpec, TheLogIsOver

=============================================================================
