------------------------- MODULE GuardBLint_proofs -------------------------
(***************************************************************************)
(* Theorems about GuardBLint, for any files, rules, lines and allowlist.   *)
(***************************************************************************)
EXTENDS GuardBLint, TLAPS, WellFoundedInduction

USE SourcesAssumption, RulesAssumption, NothingAssumption DEF RuleIds, Sources, NonFiles

(* A report is about the rule and the source it was made for.              *)
LEMMA ReportShape ==
  ASSUME NEW r \in RuleIds, NEW s \in Sources, NEW l \in Lines \cup {Nothing}
  PROVE  /\ Report(r, s, l) \subseteq RuleIds \X Sources \X (Words \cup {Unresolved})
         /\ \A v \in Report(r, s, l) : v[1] = r /\ v[2] = s
<1>1. CASE Report(r, s, l) = {}
  BY <1>1
<1>2. CASE Report(r, s, l) # {}
  <2>1. l \in Lines /\ Report(r, s, l) = RecordLine(r, s, l)
    BY <1>2 DEF Report
  <2>2. Occurrences(r, l) \subseteq Words
    BY DEF Occurrences, Matched, Of
  <2>3. QED
    BY <2>1, <2>2 DEF RecordLine, Unrecognised
<1>3. QED
  BY <1>1, <1>2

(* is_allowed asks for an entry that names all of its four arguments.      *)
LEMMA AllowedIsExempt ==
  ASSUME NEW r, NEW s, NEW w, NEW l
  PROVE  IsAllowed(r, s, w, l) <=> Exempt(r, s, w, l)
BY DEF IsAllowed, Exempt

(* The identifiers of a rule that stand one separator apart begin somewhere*)
LEMMA RowBegins ==
  ASSUME NEW r \in RuleIds, NEW l \in Lines, NEW i \in DOMAIN l.read
  PROVE  \E m \in 0 .. i :
           /\ ~Of(r, l.read, i - 2 * m - 2)
           /\ \A k \in 0 .. m - 1 : Of(r, l.read, i - 2 * k - 2)
<1> DEFINE S == {n \in Nat : ~Of(r, l.read, i - 2 * n - 2)}
<1>1. i \in Nat /\ DOMAIN l.read = 1 .. Len(l.read)
  BY LinesAssumption
<1>2. i \in S
  <2>1. i - 2 * i - 2 < 1 /\ i - 2 * i - 2 \in Int
    BY <1>1
  <2>2. QED
    BY <1>1, <2>1 DEF Of
<1>3. PICK m \in S : \A n \in S : ~(<<n, m>> \in OpToRel(<, Nat))
  BY <1>2, NatLessThanWellFounded, WFMin, Zenon
<1>4. ASSUME NEW n \in S PROVE m <= n
  <2>1. m \in Nat /\ n \in Nat /\ ~(n < m)
    BY <1>3 DEF OpToRel
  <2>2. QED
    BY <2>1
<1>5. m \in 0 .. i /\ ~Of(r, l.read, i - 2 * m - 2)
  BY <1>1, <1>2, <1>4
<1>6. ASSUME NEW k \in 0 .. m - 1 PROVE Of(r, l.read, i - 2 * k - 2)
  BY <1>4, <1>5, <1>6
<1>7. QED
  BY <1>5, <1>6

(* Of identifiers in a row, grep -o loses every second one: one that is    *)
(* lost stands right behind one that is found.                             *)
LEMMA LostBehindFound ==
  ASSUME NEW r \in RuleIds, NEW l \in Lines,
         NEW i \in DOMAIN l.read, Of(r, l.read, i), ~Matched(r, l.read, i)
  PROVE  r \in Consuming /\ Matched(r, l.read, i - 2)
<1>1. i \in Nat /\ DOMAIN l.read = 1 .. Len(l.read) /\ Len(l.read) \in Nat
  BY LinesAssumption
<1>2. r \in Consuming
  BY DEF Matched
<1>3. PICK m \in 0 .. i :
        /\ ~Of(r, l.read, i - 2 * m - 2)
        /\ \A k \in 0 .. m - 1 : Of(r, l.read, i - 2 * k - 2)
  BY RowBegins
<1>4. m \in 0 .. Len(l.read) /\ m \in Nat
  BY <1>1
<1>5. \A k \in 0 .. m : Of(r, l.read, i - 2 * k)
  <2> SUFFICES ASSUME NEW k \in 0 .. m PROVE Of(r, l.read, i - 2 * k)
    OBVIOUS
  <2>1. CASE k = 0
    BY <1>1, <2>1
  <2>2. CASE k # 0
    <3>1. k - 1 \in 0 .. m - 1 /\ i - 2 * (k - 1) - 2 = i - 2 * k
      BY <1>1, <1>4, <2>2
    <3>2. Of(r, l.read, i - 2 * (k - 1) - 2)
      BY <1>3, <3>1
    <3>3. QED
      BY <3>1, <3>2
  <2>3. QED
    BY <2>1, <2>2
<1>6. m % 2 # 0
  BY <1>2, <1>3, <1>4, <1>5 DEF Matched
<1>7. m >= 1 /\ (m - 1) % 2 = 0 /\ m - 1 \in 0 .. Len(l.read)
  BY <1>4, <1>6
<1>8. ~Of(r, l.read, i - 2 - 2 * (m - 1) - 2)
  <2>1. i - 2 - 2 * (m - 1) - 2 = i - 2 * m - 2
    BY <1>1, <1>4
  <2>2. QED
    BY <1>3, <2>1
<1>9. ASSUME NEW k \in 0 .. m - 1 PROVE Of(r, l.read, i - 2 - 2 * k)
  <2>1. k + 1 \in 0 .. m /\ i - 2 * (k + 1) = i - 2 - 2 * k
    BY <1>1, <1>4
  <2>2. Of(r, l.read, i - 2 * (k + 1))
    BY <1>5, <2>1
  <2>3. QED
    BY <2>1, <2>2
<1>10. Of(r, l.read, i - 2)
  <2>1. 1 \in 0 .. m /\ i - 2 * 1 = i - 2
    BY <1>1, <1>4, <1>7
  <2>2. QED
    BY <1>5, <2>1
<1>11. QED
  BY <1>2, <1>7, <1>8, <1>9, <1>10 DEF Matched

(* If a line has an identifier of the rule left, grep -o finds one.        *)
LEMMA SomeIsFound ==
  ASSUME NEW r \in RuleIds, NEW l \in Lines, Occurrences(r, l) = {}, NEW i \in DOMAIN l.read
  PROVE  ~Of(r, l.read, i)
<1> SUFFICES ASSUME Of(r, l.read, i) PROVE FALSE
  OBVIOUS
<1>1. ASSUME NEW j, Matched(r, l.read, j) PROVE FALSE
  <2>1. l.read[j] \in Occurrences(r, l)
    BY <1>1 DEF Occurrences, Matched, Of
  <2>2. QED
    BY <2>1
<1>2. QED
  BY <1>1, LostBehindFound

(* A line that grep finds has, unless NUL bytes are in it, an occurrence.  *)
LEMMA FoundAsItIs ==
  ASSUME NEW r \in RuleIds, NEW l \in Intact, Present(r, l) # {}
  PROVE  Occurrences(r, l) # {}
<1>1. l \in Lines /\ l.read = l.text
  BY DEF Intact
<1>2. PICK i \in DOMAIN l.read : Of(r, l.read, i)
  BY <1>1 DEF Present
<1>3. QED
  BY <1>1, <1>2, SomeIsFound

(* A rule that reports nothing of a line it found has nothing to object to *)
(* in what is left of the line, but for what is lost behind an exempted    *)
(* identifier.                                                             *)
LEMMA SilenceIsExempt ==
  ASSUME NEW r \in RuleIds, NEW s \in Sources, NEW l \in Lines \ {Nothing},
         Present(r, l) # {}, Report(r, s, l) = {}
  PROVE  /\ \E i \in DOMAIN l.read : Of(r, l.read, i) /\ Exempt(r, s, l.read[i], l)
         /\ \A i \in DOMAIN l.read :
              Of(r, l.read, i) =>
                \/ Exempt(r, s, l.read[i], l)
                \/ /\ r \in Consuming
                   /\ Of(r, l.read, i - 2) /\ Exempt(r, s, l.read[i - 2], l)
<1>1. RecordLine(r, s, l) = {}
  BY DEF Report
<1>2. Occurrences(r, l) # {}
  BY <1>1 DEF RecordLine, Unrecognised
<1>3. ASSUME NEW o \in Occurrences(r, l), ~IsAllowed(r, s, o, l) PROVE FALSE
  <2>1. <<r, s, o>> \in {<<r, s, w>> : w \in {x \in Occurrences(r, l) : ~IsAllowed(r, s, x, l)}}
    BY <1>3
  <2>2. QED
    BY <1>1, <2>1 DEF RecordLine
<1>4. ASSUME NEW j, Matched(r, l.read, j) PROVE Exempt(r, s, l.read[j], l)
  <2>1. l.read[j] \in Occurrences(r, l)
    BY <1>4 DEF Occurrences, Matched, Of
  <2>2. QED
    BY <1>3, <2>1, AllowedIsExempt
<1>5. \E i \in DOMAIN l.read : Of(r, l.read, i) /\ Exempt(r, s, l.read[i], l)
  <2>1. PICK j \in DOMAIN l.read : Matched(r, l.read, j)
    BY <1>2 DEF Occurrences
  <2>2. QED
    BY <1>4, <2>1 DEF Matched
<1>6. ASSUME NEW i \in DOMAIN l.read, Of(r, l.read, i)
      PROVE  \/ Exempt(r, s, l.read[i], l)
             \/ /\ r \in Consuming
                /\ Of(r, l.read, i - 2) /\ Exempt(r, s, l.read[i - 2], l)
  <2>1. CASE Matched(r, l.read, i)
    BY <1>4, <2>1
  <2>2. CASE ~Matched(r, l.read, i)
    <3>1. r \in Consuming /\ Matched(r, l.read, i - 2)
      BY <1>6, <2>2, LostBehindFound
    <3>2. Of(r, l.read, i - 2)
      BY <3>1 DEF Matched
    <3>3. QED
      BY <1>4, <3>1, <3>2
  <2>3. QED
    BY <2>1, <2>2
<1>7. QED
  BY <1>5, <1>6

(* Whatever is reported of a line is left of it and exempted by no entry.  *)
LEMMA ReportIsReal ==
  ASSUME NEW r \in RuleIds, NEW s \in Sources, NEW l \in Lines \cup {Nothing},
         NEW v \in Report(r, s, l)
  PROVE  /\ l # Nothing /\ Present(r, l) # {}
         /\ \/ /\ v[3] \in {l.read[i] : i \in {j \in DOMAIN l.read : Of(r, l.read, j)}}
               /\ ~Exempt(r, s, v[3], l)
            \/ /\ v[3] = Unresolved /\ l \notin Intact
               /\ \A i \in DOMAIN l.read : ~Of(r, l.read, i)
<1>1. l # Nothing /\ l \in Lines /\ Present(r, l) # {} /\ v \in RecordLine(r, s, l)
  BY DEF Report
<1>2. CASE v \in Unrecognised(r, s, l)
  <2>1. Occurrences(r, l) = {} /\ v = <<r, s, Unresolved>>
    BY <1>2 DEF Unrecognised
  <2>2. QED
    BY <1>1, <2>1, FoundAsItIs, SomeIsFound
<1>3. CASE v \notin Unrecognised(r, s, l)
  <2>1. PICK w \in Occurrences(r, l) : v = <<r, s, w>> /\ ~IsAllowed(r, s, w, l)
    BY <1>1, <1>3 DEF RecordLine
  <2>2. w \in {l.read[i] : i \in {j \in DOMAIN l.read : Of(r, l.read, j)}}
    BY DEF Occurrences, Matched
  <2>3. QED
    BY <1>1, <2>1, <2>2, AllowedIsExempt
<1>4. QED
  BY <1>2, <1>3

-----------------------------------------------------------------------------
LEMMA InitInv == Init => IInv
BY DEF Intact, Init, IInv, TypeOK, StageInv, ScanInv, Codes, TrackedFiles

LEMMA StepInv == IInv /\ [Next]_vars => IInv'
<1> SUFFICES ASSUME IInv, [Next]_vars PROVE IInv'
  OBVIOUS
<1> USE DEF IInv, TypeOK, StageInv, ScanInv, Codes, Examined, Text, Goto, Exit, repository, Intact
<1>1. CASE UsageError
  BY <1>1 DEF UsageError
<1>2. CASE CollectFiles
  <2>1. files' \subseteq Files
    BY <1>2 DEF CollectFiles, Asked, TrackedFiles, Args
  <2>2. /\ pc = "args" /\ pc' = "list" /\ code' = code
        /\ rule = 1 /\ violations = {} /\ nonfile = {} /\ code = "none"
        /\ UNCHANGED <<args, work, repository, touched, nonfile, rule, left, violations>>
    BY <1>2 DEF CollectFiles
  <2>3. left = {}
    BY <2>2
  <2>4. TypeOK'
    BY <2>1, <2>2, <2>3
  <2>5. StageInv' /\ ScanInv'
    BY <2>2
  <2>6. QED
    BY <2>4, <2>5
<1>3. CASE NothingToScan
  BY <1>3 DEF NothingToScan
<1>4. CASE LoadAllowlist
  BY <1>4 DEF LoadAllowlist
<1>5. CASE Flatten
  BY <1>5 DEF Flatten
<1>6. ASSUME NEW f \in Files, ScanFile(f) PROVE IInv'
  <2>1. /\ rule \in RuleIds /\ work[f] \in Lines \cup {Nothing} /\ f \in Sources
        /\ Text(f) = work[f]
    BY <1>6 DEF ScanFile
  <2>2. /\ Report(rule, f, work[f]) \subseteq RuleIds \X Sources \X (Words \cup {Unresolved})
        /\ \A v \in Report(rule, f, work[f]) : v[1] = rule /\ v[2] = f
    BY <2>1, ReportShape
  <2>3. TypeOK'
    BY <1>6, <2>2 DEF ScanFile
  <2>4. StageInv'
    BY <1>6 DEF ScanFile
  <2>5. \A v \in violations' :
          /\ v[2] \in files' \cup nonfile'
          /\ v[2] \in touched' \/ v \in Report(v[1], v[2], Text(v[2])')
    BY <1>6, <2>1, <2>2 DEF ScanFile
  <2>6. \A r \in RuleIds, s \in nonfile' :
          r < rule' => Report(r, s, said'[s]) \subseteq violations'
    BY <1>6 DEF ScanFile
  <2>7. \A r \in RuleIds, h \in files' \ touched' :
          Examined(r, h)' => Report(r, h, work'[h]) \subseteq violations'
    BY <1>6, <2>1 DEF ScanFile
  <2>8. ScanInv'
    BY <2>5, <2>6, <2>7
  <2>9. QED
    BY <2>3, <2>4, <2>8
<1>7. CASE ScanNonFiles
  <2> DEFINE New == UNION {Report(rule, s, said[s]) : s \in nonfile}
  <2>1. rule \in RuleIds /\ rule' = rule + 1 /\ violations' = violations \cup New
    BY <1>7 DEF ScanNonFiles
  <2>2. \A s \in nonfile : s \in Sources /\ s \notin Files /\ Text(s) = said[s] /\ said[s] \in Lines
    OBVIOUS
  <2>3. \A s \in nonfile :
          /\ Report(rule, s, said[s]) \subseteq RuleIds \X Sources \X (Words \cup {Unresolved})
          /\ \A v \in Report(rule, s, said[s]) : v[1] = rule /\ v[2] = s
    BY <2>1, <2>2, ReportShape
  <2>4. New \subseteq RuleIds \X Sources \X (Words \cup {Unresolved})
    BY <2>3
  <2>5. TypeOK'
    BY <1>7, <2>1, <2>4 DEF ScanNonFiles
  <2>6. StageInv'
    BY <1>7, <2>1 DEF ScanNonFiles
  <2>7. \A v \in New : v[2] \in nonfile /\ v \in Report(v[1], v[2], Text(v[2]))
    <3>1. SUFFICES ASSUME NEW s \in nonfile, NEW v \in Report(rule, s, said[s])
                   PROVE  v[2] \in nonfile /\ v \in Report(v[1], v[2], Text(v[2]))
      OBVIOUS
    <3>2. v[1] = rule /\ v[2] = s /\ Text(s) = said[s]
      BY <2>2, <2>3
    <3>3. QED
      BY <3>2
  <2>8. \A v \in violations' :
          /\ v[2] \in files' \cup nonfile'
          /\ v[2] \in touched' \/ v \in Report(v[1], v[2], Text(v[2])')
    <3>1. UNCHANGED <<work, said, touched, files, nonfile>>
      BY <1>7 DEF ScanNonFiles
    <3>2. \A s \in Sources : Text(s)' = Text(s)
      BY <3>1
    <3>3. \A v \in violations : v[2] \in Sources
      OBVIOUS
    <3>4. \A v \in New : v[2] \in Sources
      BY <2>7
    <3>5. QED
      BY <2>1, <2>7, <3>1, <3>2, <3>3, <3>4
  <2>9. \A r \in RuleIds, s \in nonfile' :
          r < rule' => Report(r, s, said'[s]) \subseteq violations'
    <3>1. \A r \in RuleIds : r < rule' => r < rule \/ r = rule
      BY <2>1
    <3>2. nonfile' = nonfile /\ said' = said
      BY <1>7 DEF ScanNonFiles
    <3>3. \A s \in nonfile : Report(rule, s, said[s]) \subseteq New
      OBVIOUS
    <3>4. \A r \in RuleIds, s \in nonfile : r < rule => Report(r, s, said[s]) \subseteq violations
      BY <1>7 DEF ScanNonFiles
    <3>5. QED
      BY <2>1, <3>1, <3>2, <3>3, <3>4
  <2>10. \A r \in RuleIds, h \in files' \ touched' :
           Examined(r, h)' => Report(r, h, work'[h]) \subseteq violations'
    <3>1. files' = files /\ touched' = touched /\ work' = work /\ left = {}
      BY <1>7 DEF ScanNonFiles
    <3>2. \A r \in RuleIds, h \in files : Examined(r, h)' => r < rule \/ r = rule
      BY <1>7, <2>1 DEF ScanNonFiles
    <3>3. \A r \in RuleIds, h \in files \ touched :
            Examined(r, h) => Report(r, h, work[h]) \subseteq violations
      BY <1>7 DEF ScanNonFiles
    <3>4. QED
      BY <2>1, <3>1, <3>2, <3>3
  <2>11. ScanInv'
    BY <2>8, <2>9, <2>10
  <2>12. QED
    BY <2>5, <2>6, <2>11
<1>8. CASE Verdict
  BY <1>8 DEF Verdict
<1>9. ASSUME NEW f \in Files, Edit(f) PROVE IInv'
  <2>1. /\ work' \in [Files -> Lines \cup {Nothing}]
        /\ \A h \in Files : h # f => work'[h] = work[h]
        /\ touched' = touched \cup {f}
    BY <1>9 DEF Edit
  <2>2. TypeOK' /\ StageInv'
    BY <1>9, <2>1 DEF Edit
  <2>3. \A v \in violations : v[2] \in Sources
    OBVIOUS
  <2>4. ScanInv'
    BY <1>9, <2>1, <2>3 DEF Edit
  <2>5. QED
    BY <2>2, <2>4
<1>10. CASE UNCHANGED vars
  BY <1>10 DEF vars
<1>11. QED
  BY <1>1, <1>2, <1>3, <1>4, <1>5, <1>6, <1>7, <1>8, <1>9, <1>10 DEF Next

(* IInv is an inductive invariant of the linter: rule by rule and file by  *)
(* file, VIOLATIONS holds exactly what was found.                          *)
THEOREM Invariance == Spec => []IInv
<1>1. QED
  BY InitInv, StepInv, PTL DEF Spec

(* "guard-b: OK" is said only of identifiers that are exempted one by one, *)
(* or lost right behind one that is.                                       *)
THEOREM OKIsExempt == Spec => []CleanMeansExempt
<1>1. IInv => CleanMeansExempt
  <2> SUFFICES ASSUME IInv, code = "clean", NEW r \in RuleIds, NEW s \in Scanned,
                      Text(s) # Nothing, Present(r, Text(s)) # {}
               PROVE  /\ \E i \in DOMAIN Text(s).read :
                           Of(r, Text(s).read, i) /\ Exempt(r, s, Text(s).read[i], Text(s))
                      /\ \A i \in DOMAIN Text(s).read :
                           Of(r, Text(s).read, i) =>
                             \/ Exempt(r, s, Text(s).read[i], Text(s))
                             \/ /\ r \in Consuming /\ Of(r, Text(s).read, i - 2)
                                /\ Exempt(r, s, Text(s).read[i - 2], Text(s))
    BY DEF CleanMeansExempt
  <2>1. /\ s \in Sources /\ Text(s) \in Lines
        /\ violations = {} /\ r < rule
    BY DEF IInv, TypeOK, StageInv, Scanned, Text, Intact
  <2>2. Report(r, s, Text(s)) \subseteq violations
    BY <2>1 DEF IInv, TypeOK, ScanInv, Examined, Scanned, Text
  <2>3. Report(r, s, Text(s)) = {}
    BY <2>1, <2>2
  <2>4. QED
    BY <2>1, <2>3, SilenceIsExempt
<1>2. QED
  BY <1>1, Invariance, PTL

(* The sentence of guard-b-lint.sh about a second identifier on a line does*)
(* hold of every line without NUL bytes, for every rule that takes no      *)
(* separator, and for the others when the identifiers are more than one    *)
(* separator apart.                                                        *)
THEOREM SecondIsReportedIfApart ==
  Spec => [](code = "clean" =>
               \A r \in RuleIds, s \in Scanned :
                 Text(s) \in Intact /\ (r \notin Consuming \/ Spaced(r, Text(s)))
                   => Clean(r, s, Text(s)))
<1>1. CleanMeansExempt =>
        (code = "clean" =>
           \A r \in RuleIds, s \in Scanned :
             Text(s) \in Intact /\ (r \notin Consuming \/ Spaced(r, Text(s)))
               => Clean(r, s, Text(s)))
  <2> SUFFICES ASSUME CleanMeansExempt, code = "clean", NEW r \in RuleIds, NEW s \in Scanned,
                      Text(s) \in Intact, r \notin Consuming \/ Spaced(r, Text(s)),
                      NEW w \in Present(r, Text(s)), Text(s) # Nothing
               PROVE  Exempt(r, s, w, Text(s))
    BY DEF Clean
  <2>1. Text(s).read = Text(s).text
    BY DEF Intact
  <2>2. PICK i \in DOMAIN Text(s).read : Of(r, Text(s).read, i) /\ w = Text(s).read[i]
    BY <2>1 DEF Present
  <2>3. \/ Exempt(r, s, w, Text(s))
        \/ r \in Consuming /\ Of(r, Text(s).read, i - 2)
    BY <2>2 DEF CleanMeansExempt
  <2>4. QED
    BY <2>1, <2>2, <2>3 DEF Spaced
<1>2. QED
  BY <1>1, OKIsExempt, PTL

(* Each reported violation is of a line that holds an identifier, and names*)
(* one that the shell has of it and that no entry exempts, if any is left. *)
THEOREM ReportsAreReal == Spec => []ViolationsAreReal
<1>1. IInv => ViolationsAreReal
  <2> SUFFICES ASSUME IInv, NEW v \in violations, v[2] \notin touched
               PROVE  /\ v[2] \in Scanned /\ Text(v[2]) # Nothing
                      /\ Present(v[1], Text(v[2])) # {}
                      /\ \/ /\ v[3] \in {Text(v[2]).read[i] :
                                          i \in {j \in DOMAIN Text(v[2]).read :
                                                   Of(v[1], Text(v[2]).read, j)}}
                            /\ ~Exempt(v[1], v[2], v[3], Text(v[2]))
                         \/ /\ v[3] = Unresolved /\ Text(v[2]) \notin Intact
                            /\ \A i \in DOMAIN Text(v[2]).read : ~Of(v[1], Text(v[2]).read, i)
    BY DEF ViolationsAreReal
  <2>1. v[1] \in RuleIds /\ v[2] \in Sources /\ v \in Report(v[1], v[2], Text(v[2]))
    BY DEF IInv, TypeOK, ScanInv
  <2>2. v[2] \in Scanned
    BY DEF IInv, ScanInv, Scanned
  <2>3. Text(v[2]) \in Lines \cup {Nothing}
    BY <2>1 DEF IInv, TypeOK, Text, Intact
  <2>4. QED
    BY <2>1, <2>2, <2>3, ReportIsReal
<1>2. QED
  BY <1>1, Invariance, PTL

(* Whatever git fails to list, an OK covers what was named, what a valid   *)
(* range holds and standard input.                                         *)
THEOREM OKCoversWhatWasAsked == Spec => []OnlyGitLoses
<1> DEFINE Listed  == args.named \subseteq files /\ files \subseteq Asked
           Flat    == /\ args.range = "valid" => Commits \subseteq nonfile
                      /\ args.stdin => Stdin \in nonfile
           CoverInv == /\ pc \in {"list", "flatten", "scan", "verdict"} \/ code = "clean" => Listed
                       /\ pc \in {"scan", "verdict"} \/ code = "clean" => Flat
<1>1. Init => CoverInv
  BY DEF Init
<1>2. CoverInv /\ [Next]_vars => CoverInv'
  <2> SUFFICES ASSUME CoverInv, [Next]_vars PROVE CoverInv'
    OBVIOUS
  <2>1. UNCHANGED <<args, index, staged>>
    BY DEF Next, vars, repository, UsageError, CollectFiles, NothingToScan, LoadAllowlist,
           Flatten, ScanFile, ScanNonFiles, Verdict, Edit
  <2>2. Asked' = Asked
    BY <2>1 DEF Asked, TrackedFiles
  <2>3. CASE CollectFiles
    <3>1. Listed'
      BY <2>1, <2>2, <2>3 DEF CollectFiles, Asked
    <3> QED
      BY <2>3, <3>1 DEF CollectFiles, Goto
  <2>4. CASE Flatten
    <3>1. pc' = "scan" => Flat'
      BY <2>1, <2>4 DEF Flatten, Exit
    <3> QED
      BY <2>1, <2>2, <2>4, <3>1 DEF Flatten, Goto, Exit
  <2>5. CASE UsageError \/ NothingToScan \/ LoadAllowlist \/ Verdict
    BY <2>1, <2>2, <2>5 DEF UsageError, NothingToScan, LoadAllowlist, Verdict, Goto, Exit
  <2>6. CASE ScanNonFiles \/ \E f \in Files : ScanFile(f) \/ Edit(f)
    BY <2>1, <2>2, <2>6 DEF ScanNonFiles, ScanFile, Edit, Goto
  <2>7. CASE UNCHANGED vars
    BY <2>1, <2>2, <2>7 DEF vars
  <2> QED
    BY <2>3, <2>4, <2>5, <2>6, <2>7 DEF Next
<1>3. CoverInv => OnlyGitLoses
  BY DEF OnlyGitLoses
<1> QED
  BY <1>1, <1>2, <1>3, PTL DEF Spec

=============================================================================
