------------------------ MODULE SourceLocate_proofs -------------------------
(***************************************************************************)
(* Proofs about SourceLocate: whatever the depth of the working directory, *)
(* the reach of the walk and the clones and removals under way, the place  *)
(* found held a checkout at some moment, and a walk that finds none had    *)
(* none to find.                                                           *)
(***************************************************************************)
EXTENDS SourceLocate, TLAPS

USE BoundsAssumption, NamesAssumption, ChangeAssumption, NoneAssumption DEF None

(* The level after a rejected one is the next of the reach, and there is   *)
(* none only at the end of the reach.                                      *)
LEMMA NextOfReach ==
  ASSUME NEW p \in Reach, ~Named, depth \in Levels
  PROVE  \/ NextLevel(p) = p + 1 /\ p + 1 \in Reach
         \/ NextLevel(p) = None /\ p + 1 \notin Reach
  BY DEF NextLevel, Reach, Levels

(* Rejecting the place looked at lengthens the report by it.               *)
LEMMA Rejecting ==
  ASSUME TypeOK, SearchInv, HistoryInv, Looking, UNCHANGED <<given, history, place, ledger>>,
         NEW f \in Facts, f \notin place[at], Reject(f)
  PROVE  /\ at' \in Places \union {None} /\ report' \in Seq(Places \X Reasons)
         /\ pc' \in {"failed", "stat"}
         /\ SearchInv'
<1>0. ~ledger'
  BY DEF SearchInv, Looking
<1>1. at \in Places
  BY DEF SearchInv, Named, First, Reach, TypeOK, Levels, Places
<1>2. at \notin steady
  BY <1>1 DEF HistoryInv, Genuine
<1>3. /\ Len(report') = Len(report) + 1
      /\ report' \in Seq(Places \X Reasons)
      /\ \A i \in 1..Len(report) : report'[i] = report[i]
      /\ report'[Len(report) + 1] = <<at, f>>
  BY <1>1 DEF Reject, TypeOK, Reasons
<1>4. Named' = Named /\ First' = First /\ Reach' = Reach
  BY DEF given, Named, First, Reach
<1>5. CASE Named
  <2>1. NextLevel(at) = None
    BY <1>5 DEF NextLevel
  <2>2. at = First /\ Len(report) = 0
    BY <1>5 DEF SearchInv, TypeOK
  <2>3. report'[1][1] = First /\ Len(report') = 1
    BY <1>3, <2>2
  <2> QED
    <3>1. pc' = "failed" /\ at' = None /\ steady' = steady
      BY <2>1 DEF Reject, history
    <3>2. ledger' => pc' = "done"
      BY <1>0, <3>1
    <3> QED
      BY <1>2, <1>3, <1>4, <1>5, <2>2, <2>3, <3>1, <3>2 DEF SearchInv, Looking, Found
<1>6. CASE ~Named
  <2>1. at \in Reach /\ Rejected(at - 1)
    BY <1>6 DEF SearchInv
  <2>2. at \in Nat \ {0} /\ Len(report) = at - 1 /\ Len(report') = at
    BY <1>3, <2>1 DEF Reach, Levels, Rejected
  <2>3. /\ Len(report') = at
        /\ \A i \in 1..at : report'[i][1] = i /\ i \notin steady'
    <3>1. report'[at][1] = at
      BY <1>3, <2>2
    <3>2. \A i \in 1..at - 1 : report'[i][1] = i /\ i \notin steady
      BY <1>3, <2>1, <2>2 DEF Rejected
    <3>3. \A i \in 1..at : i = at \/ i \in 1..at - 1
      BY <2>2
    <3> QED
      BY <1>2, <2>2, <3>1, <3>2, <3>3 DEF history
  <2>4. CASE NextLevel(at) = None
    <3>1. at + 1 \notin Reach
      BY <1>6, <2>1, <2>2, <2>4, NextOfReach DEF TypeOK
    <3>2. pc' = "failed" /\ at' = None
      BY <2>4 DEF Reject
    <3> QED
      BY <1>0, <1>3, <1>4, <1>6, <2>1, <2>3, <3>1, <3>2 DEF SearchInv, Looking, Found, Rejected
  <2>5. CASE NextLevel(at) # None
    <3>1. NextLevel(at) = at + 1 /\ at + 1 \in Reach
      BY <1>6, <2>1, <2>5, NextOfReach DEF TypeOK
    <3>2. pc' = "stat" /\ at' = at + 1 /\ at' - 1 = at
      BY <2>2, <2>5, <3>1 DEF Reject
    <3> QED
      BY <1>0, <1>3, <1>4, <1>6, <2>3, <3>1, <3>2
      DEF SearchInv, Looking, Found, Rejected, Reach, Levels, Places
  <2> QED
    BY <2>4, <2>5
<1> QED
  BY <1>3, <1>5, <1>6 DEF Reject, NextLevel, Places, Levels, Looking, Reach, SearchInv, TypeOK

(* A question answered keeps the invariant when its answer says what the   *)
(* next program counter assumes.                                           *)
LEMMA Asking ==
  ASSUME IInv, NEW here, NEW f \in Facts, NEW next, Ask(here, f, next),
         \/ here = "stat" /\ f = "dir" /\ next = "gomod"
         \/ here = "gomod" /\ f = "module" /\ next = "entry"
         \/ here = "entry" /\ f = "entry" /\ next = "located"
  PROVE  IInv'
<1> USE DEF IInv, Ask
<1>1. /\ UNCHANGED <<given, history, place, ledger>>
      /\ UNCHANGED <<depth, env, dir, steady, seen>>
  BY DEF given, history
<1>2. at \in Places /\ Looking
  BY DEF SearchInv, Named, First, Reach, TypeOK, Levels, Places, Looking
<1>3. CASE f \notin place[at] /\ Reject(f)
  <2>1. /\ at' \in Places \union {None} /\ report' \in Seq(Places \X Reasons)
        /\ pc' \in {"failed", "stat"}
        /\ SearchInv'
    BY <1>1, <1>2, <1>3, Rejecting
  <2>2. TypeOK' /\ LookInv' /\ HistoryInv'
    BY <1>1, <2>1 DEF TypeOK, LookInv, HistoryInv
  <2>3. LocatedWasGenuine'
    <3>1. ~ledger
      BY <1>2 DEF SearchInv, Looking
    <3> QED
      BY <1>1, <2>1, <3>1 DEF LocatedWasGenuine, Found
  <2> QED
    BY <2>1, <2>2, <2>3
<1>4. CASE f \in place[at] /\ pc' = next /\ UNCHANGED <<at, report>>
  <2>1. TypeOK' /\ HistoryInv'
    BY <1>1, <1>4 DEF TypeOK, HistoryInv
  <2>2. SearchInv'
    BY <1>1, <1>2, <1>4 DEF SearchInv, Looking, Found, Named, First, Reach, Rejected
  <2>3. LookInv' /\ LocatedWasGenuine'
    <3>1. place[at] \in Shapes
      BY <1>2 DEF TypeOK
    <3>2. "entry" \in place[at] /\ "module" \in place[at] => at \in seen
      BY <1>2, <3>1 DEF Shapes, Facts, Genuine, HistoryInv
    <3> QED
      BY <1>1, <1>2, <1>4, <3>2 DEF LookInv, LocatedWasGenuine, Found
  <2> QED
    BY <2>1, <2>2, <2>3
<1> QED
  BY <1>3, <1>4

(* Another process changing one place keeps the invariant if it leaves the *)
(* place a shape and, when the search is about to ask its last question of *)
(* the place, what LookInv says of it.                                     *)
LEMMA Changing ==
  ASSUME IInv, NEW p \in Places, NEW s \in Shapes, Becomes(p, s),
         p \notin Removing => place[p] \subseteq s,
         p \in Removing => s \subseteq place[p]
  PROVE  IInv'
<1> USE DEF IInv, Becomes
<1>1. UNCHANGED <<pc, at, report, ledger, depth, env, dir>>
  BY DEF search, given
<1>2. TypeOK'
  BY <1>1 DEF TypeOK
<1>3. steady' \subseteq steady /\ seen \subseteq seen'
  OBVIOUS
<1>4. HistoryInv'
  BY <1>1, <1>2 DEF HistoryInv, TypeOK
<1>5. SearchInv'
  BY <1>1, <1>3 DEF SearchInv, Looking, Found, Named, First, Reach, Rejected
<1>6. LocatedWasGenuine'
  BY <1>1, <1>3 DEF LocatedWasGenuine, Found
<1>7. LookInv'
  <2>1. at \in Places \union {None} /\ place' = [place EXCEPT ![p] = s]
    BY DEF TypeOK
  <2>2. SUFFICES ASSUME pc = "entry"
                 PROVE  /\ at \notin Removing => "module" \in place'[at]
                        /\ at \in Removing /\ "entry" \in place'[at] => at \in seen'
    BY <1>1 DEF LookInv
  <2>3. at \in Places
    BY <2>2 DEF SearchInv, Named, First, Reach, TypeOK, Levels, Places, Looking
  <2>4. CASE at = p
    BY <1>3, <2>1, <2>2, <2>3, <2>4 DEF LookInv, TypeOK
  <2>5. CASE at # p
    BY <1>3, <2>1, <2>2, <2>3, <2>5 DEF LookInv, TypeOK
  <2> QED
    BY <2>4, <2>5
<1> QED
  BY <1>2, <1>4, <1>5, <1>6, <1>7

(* The invariant is inductive: it holds initially, every step of the smoke *)
(* keeps it, and so does every step of a clone or of a removal.            *)
THEOREM Invariance == Spec => []IInv
<1>1. Init => IInv
  <2>1. SUFFICES ASSUME Init PROVE IInv
    OBVIOUS
  <2>2. TypeOK
    <3>1. report \in Seq(Places \X Reasons) /\ at \in Places \union {None}
      BY <2>1 DEF Init
    <3>2. steady \subseteq Places /\ seen \subseteq Places /\ ledger \in BOOLEAN
      BY <2>1 DEF Init
    <3> QED
      BY <2>1, <3>1, <3>2 DEF Init, TypeOK
  <2>3. SearchInv /\ LookInv /\ HistoryInv /\ LocatedWasGenuine
    BY <2>1 DEF Init, SearchInv, LookInv, HistoryInv, LocatedWasGenuine, Looking, Found
  <2> QED
    BY <2>2, <2>3 DEF IInv
<1>2. IInv /\ [Next]_vars => IInv'
  <2> SUFFICES ASSUME IInv, [Next]_vars PROVE IInv'
    OBVIOUS
  <2>1. CASE Start
    <3>1. UNCHANGED <<ledger, place, depth, env, dir, steady, seen>>
      BY <2>1 DEF Start, given, history
    <3>2. /\ report = <<>> /\ ~ledger
          /\ \/ pc' = "stat" /\ at' = First /\ report' = report
             \/ Named /\ pc' = "failed" /\ report' = <<<<First, "path">>>> /\ at' = at
             \/ ~Named /\ pc' = "nocwd" /\ at' = at /\ report' = report
      BY <2>1 DEF Start, IInv, SearchInv
    <3>3. First \in Places /\ (~Named => First = 1 /\ 1 \in Reach)
      BY DEF First, Named, Places, Levels, Reach, IInv, TypeOK
    <3>4. TypeOK' /\ HistoryInv' /\ LookInv' /\ LocatedWasGenuine'
      <4>1. report' \in Seq(Places \X Reasons)
        <5>1. <<First, "path">> \in Places \X Reasons /\ report \in Seq(Places \X Reasons)
          BY <3>3 DEF IInv, TypeOK, Reasons
        <5>2. <<<<First, "path">>>> \in Seq(Places \X Reasons)
          BY <5>1
        <5> QED
          BY <3>2, <5>1, <5>2
      <4> QED
        BY <3>1, <3>2, <3>3, <4>1
        DEF IInv, TypeOK, HistoryInv, LookInv, LocatedWasGenuine, Found
    <3>5. SearchInv'
      BY <3>1, <3>2, <3>3
      DEF IInv, SearchInv, Looking, Found, Named, First, Reach, Rejected
    <3> QED
      BY <3>4, <3>5 DEF IInv
  <2>2. CASE StatDir
    BY <2>2, Asking DEF StatDir, Facts
  <2>3. CASE ReadGoMod
    BY <2>3, Asking DEF ReadGoMod, Facts
  <2>4. CASE StatEntry
    BY <2>4, Asking DEF StatEntry, Facts
  <2>5. CASE BuildStat \/ GoBuild \/ RecordExercised
    <3>1. UNCHANGED <<at, report, place, depth, env, dir, steady, seen>>
      BY <2>5 DEF BuildStat, GoBuild, RecordExercised, given, history
    <3>2. /\ pc \in {"located", "build", "built"}
          /\ pc' \in {"build", "broken", "built", "done"}
          /\ ledger' \in BOOLEAN /\ (ledger' => pc' = "done")
      <4>1. CASE BuildStat \/ GoBuild
        BY <4>1 DEF BuildStat, GoBuild, IInv, TypeOK, SearchInv
      <4>2. CASE RecordExercised
        BY <4>2 DEF RecordExercised
      <4> QED
        BY <2>5, <4>1, <4>2
    <3>3. TypeOK' /\ HistoryInv' /\ LookInv' /\ LocatedWasGenuine'
      BY <3>1, <3>2
      DEF IInv, TypeOK, HistoryInv, LookInv, LocatedWasGenuine, Found
    <3>4. SearchInv'
      BY <3>1, <3>2
      DEF IInv, SearchInv, Looking, Found, Named, First, Reach, Rejected
    <3> QED
      BY <3>3, <3>4 DEF IInv
  <2>6. ASSUME NEW p \in Cloning, CloneWrites(p) PROVE IInv'
    <3>1. p \in Places /\ p \notin Removing
      OBVIOUS
    <3> QED
      BY <2>6, <3>1, Changing DEF CloneWrites
  <2>7. ASSUME NEW p \in Removing, RemovalTakes(p) PROVE IInv'
    BY <2>7, Changing DEF RemovalTakes
  <2>8. CASE UNCHANGED vars
    BY <2>8 DEF vars, IInv, TypeOK, SearchInv, LookInv, HistoryInv, LocatedWasGenuine,
                Looking, Found, Named, First, Reach, Rejected
  <2> QED
    BY <2>1, <2>2, <2>3, <2>4, <2>5, <2>6, <2>7, <2>8 DEF Next
<1> QED
  BY <1>1, <1>2, PTL DEF Spec

(* A place found held a checkout at some moment of the call, whatever      *)
(* clones and removals were under way, provided none was both at once.     *)
THEOREM FoundIsGenuine == Spec => []LocatedWasGenuine
<1>1. IInv => LocatedWasGenuine
  BY DEF IInv
<1> QED
  BY <1>1, Invariance, PTL

(* The walk misses no checkout that was there all along within its reach,  *)
(* and prefers the nearest one.                                            *)
THEOREM WalkFinds == Spec => [](WalkIsComplete /\ NearestSteady)
<1>1. IInv => WalkIsComplete
  <2> SUFFICES ASSUME IInv, pc = "failed", ~Named
               PROVE  /\ Reach \intersect steady = {}
                      /\ {report[i][1] : i \in DOMAIN report} = Reach
                      /\ \A i \in DOMAIN report : report[i][1] = i
    BY DEF WalkIsComplete
  <2>1. PICK n \in Reach : n + 1 \notin Reach /\ Rejected(n)
    BY DEF IInv, SearchInv
  <2>2. n \in Nat \ {0} /\ Reach = 1..n
    BY <2>1 DEF Reach, Levels, IInv, TypeOK
  <2>3. DOMAIN report = 1..n /\ \A i \in 1..n : report[i][1] = i /\ i \notin steady
    BY <2>1, <2>2 DEF Rejected, IInv, TypeOK
  <2> QED
    BY <2>2, <2>3
<1>2. IInv => NearestSteady
  <2> SUFFICES ASSUME IInv, Found, ~Named, NEW p \in Reach, p < at
               PROVE  p \notin steady
    BY DEF NearestSteady
  <2>1. at \in Reach /\ Rejected(at - 1)
    BY DEF IInv, SearchInv
  <2>2. p \in 1..at - 1
    BY <2>1 DEF Reach, Levels
  <2> QED
    BY <2>1, <2>2 DEF Rejected
<1> QED
  BY <1>1, <1>2, Invariance, PTL

(* A name given is the only place tested or reported.                      *)
THEOREM NameDecides == Spec => []NamedIsAuthoritative
<1>1. IInv => NamedIsAuthoritative
  BY DEF IInv, SearchInv, NamedIsAuthoritative
<1> QED
  BY <1>1, Invariance, PTL

-----------------------------------------------------------------------------
LEMMA Fewer ==
  /\ \A b \in Nat, k \in 1..3 : 3 * b + k + 3 \in Nat /\ 0 < 3 * b + k + 3
  /\ \A b \in Nat : 3 * b + 3 + 3 \in Nat
  /\ \A b, c \in Nat, k \in 1..3 : c + 1 = b => 3 * c + 3 + 3 < 3 * b + k + 3
  /\ \A b \in Nat, n \in Nat \ {0} : b <= n - 1 => 3 * b + 3 + 3 < 3 * n + 4
OBVIOUS

(* After a rejection there are three calls fewer, or none.                 *)
LEMMA AskingLess ==
  ASSUME IInv, Looking, NEW f, NEW here, NEW next, Ask(here, f, next),
         \/ here = "stat" /\ next = "gomod"
         \/ here = "gomod" /\ next = "entry"
         \/ here = "entry" /\ next = "located"
  PROVE  CallsLeft' \in Nat /\ CallsLeft' < CallsLeft
<1>1. /\ pc = here /\ (Named' <=> Named) /\ MaxWalk \in Nat
      /\ Named \/ (at \in Reach /\ at \in Nat /\ at <= MaxWalk)
  BY DEF Ask, given, Named, IInv, SearchInv, Reach, Levels
<1>2. Beyond \in Nat
  BY <1>1 DEF Beyond
<1>3. CASE f \in place[at] /\ pc' = next /\ UNCHANGED <<at, report>>
  <2>1. Beyond' = Beyond
    BY <1>1, <1>3 DEF Beyond
  <2> QED
    BY <1>1, <1>2, <1>3, <2>1 DEF CallsLeft, Looking, ToAsk
<1>4. CASE Reject(f)
  <2>1. /\ CallsLeft = 3 * Beyond + ToAsk + 3 /\ ToAsk \in 1..3
    BY <1>1 DEF CallsLeft, Looking, ToAsk
  <2>2. CASE NextLevel(at) = None
    <3>1. CallsLeft' = 0
      BY <1>4, <2>2 DEF Reject, CallsLeft, Looking
    <3> QED
      BY <1>2, <2>1, <3>1, Fewer
  <2>3. CASE NextLevel(at) # None
    <3>1. ~Named /\ at < MaxWalk /\ at' = at + 1 /\ pc' = "stat"
      BY <1>4, <2>3 DEF Reject, NextLevel
    <3>2. Beyond = MaxWalk - at /\ Beyond' = MaxWalk - (at + 1)
      BY <1>1, <3>1 DEF Beyond
    <3>3. CallsLeft' = 3 * Beyond' + 3 + 3
      BY <3>1 DEF CallsLeft, Looking, ToAsk
    <3>4. Beyond' \in Nat /\ Beyond' + 1 = Beyond
      BY <1>1, <3>1, <3>2
    <3>5. 3 * Beyond' + 3 + 3 < 3 * Beyond + ToAsk + 3
      BY <1>2, <2>1, <3>4, Fewer
    <3>6. 3 * Beyond' + 3 + 3 \in Nat
      BY <3>4, Fewer
    <3> QED
      BY <2>1, <3>3, <3>5, <3>6
  <2> QED
    BY <2>2, <2>3
<1> QED
  BY <1>3, <1>4 DEF Ask

(* Every call of the search brings it nearer to its end.                   *)
THEOREM SearchOnlyGoesDown == Spec => SearchGoesDown
<1> DEFINE Down == CallsLeft' \in Nat /\ CallsLeft' < CallsLeft /\ UNCHANGED place
           Same == CallsLeft' = CallsLeft /\ UNCHANGED <<search, given>>
<1>1. ASSUME UNCHANGED <<search, given>> PROVE CallsLeft' = CallsLeft
  BY <1>1 DEF search, given, CallsLeft, Looking, ToAsk, Beyond, Named
<1>2. ASSUME IInv, [Next]_vars PROVE [Down \/ Same]_vars
  <2>1. CASE Start
    <3>0. CASE pc' # "stat"
      <4>1. CallsLeft = 3 * MaxWalk + 4 /\ CallsLeft' = 0 /\ UNCHANGED place
        BY <2>1, <3>0 DEF Start, CallsLeft, Looking
      <4>2. 0 \in Nat /\ 0 < 3 * MaxWalk + 4
        OBVIOUS
      <4> QED
        BY <4>1, <4>2
    <3> SUFFICES ASSUME pc' = "stat" PROVE Down
      BY <3>0
    <3>1. /\ pc = "start" /\ pc' = "stat" /\ at' = First /\ (Named' <=> Named)
          /\ MaxWalk \in Nat \ {0} /\ UNCHANGED place
      BY <2>1 DEF Start, given, Named
    <3>2. Beyond' \in Nat /\ Beyond' <= MaxWalk - 1
      BY <3>1 DEF Beyond, First, Named
    <3>3. CallsLeft = 3 * MaxWalk + 4 /\ CallsLeft' = 3 * Beyond' + 3 + 3
      BY <3>1 DEF CallsLeft, Looking, ToAsk
    <3>4. 3 * Beyond' + 3 + 3 < 3 * MaxWalk + 4 /\ 3 * Beyond' + 3 + 3 \in Nat
      BY <3>1, <3>2, Fewer
    <3>5. CallsLeft' \in Nat /\ CallsLeft' < CallsLeft
      BY <3>3, <3>4
    <3> QED
      BY <3>1, <3>5
  <2>2. CASE StatDir
    BY <1>2, <2>2, AskingLess DEF StatDir, Ask, Looking
  <2>3. CASE ReadGoMod
    BY <1>2, <2>3, AskingLess DEF ReadGoMod, Ask, Looking
  <2>4. CASE StatEntry
    BY <1>2, <2>4, AskingLess DEF StatEntry, Ask, Looking
  <2>5. CASE BuildStat \/ GoBuild \/ RecordExercised
    BY <2>5 DEF BuildStat, GoBuild, RecordExercised, CallsLeft, Looking
  <2>6. ASSUME \/ \E p \in Cloning : CloneWrites(p)
               \/ \E p \in Removing : RemovalTakes(p)
        PROVE  Same
    BY <1>1, <2>6 DEF CloneWrites, RemovalTakes, Becomes
  <2> HIDE DEF Down, Same
  <2> QED
    BY <1>2, <2>1, <2>2, <2>3, <2>4, <2>5, <2>6 DEF Next
<1> QED
  BY <1>2, Invariance, PTL DEF Spec, SearchGoesDown
=============================================================================
