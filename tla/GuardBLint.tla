----------------------------- MODULE GuardBLint -----------------------------
(***************************************************************************)
(* scripts/guard-b-lint.sh: one run of the content linter over files of    *)
(* the working tree, commit messages and standard input.  It asks git for  *)
(* the files and commits, loads the allowlist, and then goes through the   *)
(* rules one by one, reading every file again for each, while an editor    *)
(* may be at work on them.                                                 *)
(*                                                                         *)
(* A source has one line here: the linter treats lines one by one, and a   *)
(* location is a file and a line.  A line is a sequence of the identifiers *)
(* that rules are about and of separators, one character each; the rest of *)
(* its words match nothing and read as separators.  It is there twice: as  *)
(* grep sees it in the file, where a NUL byte is a separator, and as the   *)
(* shell has it after read, which drops NUL bytes and joins what was around*)
(* them to other words.                                                    *)
(***************************************************************************)
EXTENDS Integers, Sequences

CONSTANTS
  Files,
  Commits,     \* those of the range
  Stdin,       \* what arrives on standard input
  NRules,      \* RULES, in their order
  Words,       \* identifiers
  RuleOf,      \* the rule that forbids each of them
  Consuming,   \* the rules whose pattern takes a separator on either side
  Lines,
  Sep,         \* a separator
  Nothing,     \* no readable regular file, or not in the index
  Unresolved,  \* the report of a line without an occurrence
  Allow        \* the entries of .guard-allowlist

RuleIds  == 1 .. NRules
NonFiles == Commits \cup {Stdin}
Sources  == Files \cup NonFiles

ASSUME SourcesAssumption == Files \cap NonFiles = {}
ASSUME RulesAssumption ==
  /\ NRules \in Nat \ {0}
  /\ RuleOf \in [Words -> RuleIds] /\ Consuming \subseteq RuleIds
ASSUME NothingAssumption == Nothing \notin Lines /\ Unresolved \notin Words
(* Two identifiers in a row would be one word, and none.                   *)
WellFormed(t) == \A i \in 1 .. Len(t) - 1 : t[i] \in Words => t[i + 1] \notin Words
ASSUME LinesAssumption ==
  \A l \in Lines :
    /\ l \in [text : Seq(Words \cup {Sep}), read : Seq(Words \cup {Sep})]
    /\ WellFormed(l.text) /\ WellFormed(l.read)
ASSUME AllowAssumption ==
  Allow \subseteq [rules : SUBSET RuleIds, at : SUBSET Sources,
                   words : SUBSET Words, lines : SUBSET {l.read : l \in Lines}]

VARIABLES
  pc,
  code,       \* the exit status
  args,
  work,       \* the working tree
  index,      \* git's index
  staged,     \* the files whose entry there is not that of HEAD
  said,       \* the commit messages and standard input
  touched,    \* history: the files edited during the run
  files,      \* FILES
  nonfile,    \* what is in NONFILE_SRC
  rule,       \* the rule being looked for
  left,       \* the files it has not been looked for in
  violations  \* VIOLATIONS

repository == <<index, staged, said>>
vars == <<pc, code, args, work, repository, touched, files, nonfile, rule, left, violations>>

Args == [staged : BOOLEAN, all : BOOLEAN, range : {"none", "valid", "broken"},
         stdin : BOOLEAN, named : SUBSET Files]
Codes == {"none", "clean", "violations", "usage", "tool"}

-----------------------------------------------------------------------------
(* What the patterns see.                                                  *)

(* Rule r finds an identifier at position i of t.                          *)
Of(r, t, i) == i \in DOMAIN t /\ t[i] \in Words /\ RuleOf[t[i]] = r

(* grep -o goes from left to right and does not use a character twice.  Of *)
(* identifiers with one separator between them, that separator goes into   *)
(* the first match and the second identifier is lost; the third is found   *)
(* again, and so on.                                                       *)
Matched(r, t, i) ==
  /\ Of(r, t, i)
  /\ r \in Consuming =>
       \E n \in 0 .. Len(t) :
         /\ n % 2 = 0
         /\ \A k \in 0 .. n : Of(r, t, i - 2 * k)
         /\ ~Of(r, t, i - 2 * n - 2)

(* What grep -n finds in the file, and what grep -o then finds in what the *)
(* shell has read.                                                         *)
Present(r, l)     == {l.text[i] : i \in {j \in DOMAIN l.text : Of(r, l.text, j)}}
Occurrences(r, l) == {l.read[i] : i \in {j \in DOMAIN l.read : Matched(r, l.read, j)}}

(* is_allowed: rule, location, identifier and line have to be the entry's. *)
IsAllowed(r, s, w, l) ==
  \E e \in Allow : r \in e.rules /\ s \in e.at /\ w \in e.words /\ l.read \in e.lines

Unrecognised(r, s, l) == IF Occurrences(r, l) = {} THEN {<<r, s, Unresolved>>} ELSE {}

(* Slips in RecordLine: one exempted identifier exempts the line, and one  *)
(* that is not reports the line.                                           *)
ExemptsLine(r, s, l) ==
  Unrecognised(r, s, l) \cup
    {<<r, s, w>> : w \in {o \in Occurrences(r, l) :
                            \A p \in Occurrences(r, l) : ~IsAllowed(r, s, p, l)}}

ReportsLine(r, s, l) ==
  Unrecognised(r, s, l) \cup
    {<<r, s, w>> : w \in {o \in Occurrences(r, l) :
                            \E p \in Occurrences(r, l) : ~IsAllowed(r, s, p, l)}}

(* record_line, for a line that grep found: each occurrence that is left of*)
(* it and not allowed.  The line itself is reported when none is left, and *)
(* only then.                                                              *)
RecordLine(r, s, l) ==
  Unrecognised(r, s, l) \cup
    {<<r, s, w>> : w \in {o \in Occurrences(r, l) : ~IsAllowed(r, s, o, l)}}

(* What rule r reports about s when it reads l.                            *)
Report(r, s, l) ==
  IF l = Nothing \/ Present(r, l) = {} THEN {} ELSE RecordLine(r, s, l)

Text(s) == IF s \in Files THEN work[s] ELSE said[s]

-----------------------------------------------------------------------------
(* No NUL byte gets into a commit message, and the shell has dropped those *)
(* of standard input before anything looks at it.                          *)
Intact == {l \in Lines : l.read = l.text}

TrackedFiles == {f \in Files : index[f] # Nothing}

Init ==
  /\ pc = "args" /\ code = "none"
  /\ args \in Args
  /\ work \in [Files -> Lines \cup {Nothing}]
  /\ index \in [Files -> Lines \cup {Nothing}]
  /\ staged \in SUBSET TrackedFiles
  /\ said \in [NonFiles -> Intact]
  /\ touched = {} /\ files = {} /\ nonfile = {}
  /\ rule = 1 /\ left = {} /\ violations = {}

Exit(c) == pc' = "done" /\ code' = c
Goto(p) == pc' = p /\ UNCHANGED code

Asked == args.named \cup (IF args.staged THEN staged ELSE {})
                    \cup (IF args.all THEN TrackedFiles ELSE {})

(* An unknown flag, or a last flag without its argument. *)
UsageError ==
  /\ pc = "args"
  /\ Exit("usage")
  /\ UNCHANGED <<args, work, repository, touched, files, nonfile, rule, left, violations>>

(* The loop over the arguments.  git runs in a process substitution: when  *)
(* it fails, what it has printed is taken for all there is.                *)
CollectFiles ==
  /\ pc = "args"
  /\ \/ files' = Asked
     \/ /\ args.staged \/ args.all
        /\ files' \in {some \in SUBSET Asked : args.named \subseteq some}
  /\ Goto("list")
  /\ UNCHANGED <<args, work, repository, touched, nonfile, rule, left, violations>>

NothingToScan ==
  /\ pc = "list"
  /\ files = {} /\ args.range = "none" /\ ~args.stdin
  /\ Exit("clean")
  /\ UNCHANGED <<args, work, repository, touched, files, nonfile, rule, left, violations>>

(* A malformed or blanket entry of the allowlist is refused.               *)
LoadAllowlist ==
  /\ pc = "list"
  /\ ~(files = {} /\ args.range = "none" /\ ~args.stdin)
  /\ Goto("flatten") \/ Exit("usage")
  /\ UNCHANGED <<args, work, repository, touched, files, nonfile, rule, left, violations>>

(* A slip in Flatten: git rev-list --no-merges, as it once was.            *)
NoMerges ==
  /\ pc = "flatten"
  /\ \/ /\ \E shas \in SUBSET Commits :
             /\ args.range = "none" => shas = {}
             /\ nonfile' = shas \cup (IF args.stdin THEN {Stdin} ELSE {})
        /\ left' = files
        /\ Goto("scan")
     \/ UNCHANGED <<nonfile, left>> /\ Exit("tool")
  /\ UNCHANGED <<args, work, repository, touched, files, rule, violations>>

(* The commit messages, then standard input.  A failure of git rev-list is *)
(* not noticed; one of git log, or of mktemp, ends the script.             *)
Flatten ==
  /\ pc = "flatten"
  /\ \/ /\ \E shas \in SUBSET Commits :
             /\ args.range = "none" => shas = {}
             /\ args.range = "valid" => shas = Commits
             /\ nonfile' = shas \cup (IF args.stdin THEN {Stdin} ELSE {})
        /\ left' = files
        /\ Goto("scan")
     \/ UNCHANGED <<nonfile, left>> /\ Exit("tool")
  /\ UNCHANGED <<args, work, repository, touched, files, rule, violations>>

(* One file for one rule. *)
ScanFile(f) ==
  /\ pc = "scan"
  /\ f \in left
  /\ violations' = violations \cup Report(rule, f, work[f])
  /\ left' = left \ {f}
  /\ UNCHANGED <<pc, code, args, work, repository, touched, files, nonfile, rule>>

(* A slip in ScanNonFiles: the files are not gone through again.           *)
FilesOnce ==
  /\ pc = "scan"
  /\ left = {}
  /\ violations' = violations \cup UNION {Report(rule, s, said[s]) : s \in nonfile}
  /\ rule' = rule + 1
  /\ IF rule = NRules THEN Goto("verdict") ELSE UNCHANGED <<pc, code>>
  /\ UNCHANGED <<args, work, repository, touched, files, nonfile, left>>

(* The commit messages and standard input, and on to the next rule. *)
ScanNonFiles ==
  /\ pc = "scan"
  /\ left = {}
  /\ violations' = violations \cup UNION {Report(rule, s, said[s]) : s \in nonfile}
  /\ rule' = rule + 1
  /\ IF rule = NRules THEN Goto("verdict") /\ UNCHANGED left
                      ELSE UNCHANGED <<pc, code>> /\ left' = files
  /\ UNCHANGED <<args, work, repository, touched, files, nonfile>>

Verdict ==
  /\ pc = "verdict"
  /\ Exit(IF violations = {} THEN "clean" ELSE "violations")
  /\ UNCHANGED <<args, work, repository, touched, files, nonfile, rule, left, violations>>

(* Somebody saves or removes a file.  Bound: once in a run, as nothing is  *)
(* promised of a file after that.                                          *)
Edit(f) ==
  /\ pc # "done" /\ f \notin touched
  /\ work' \in {[work EXCEPT ![f] = l] : l \in (Lines \cup {Nothing}) \ {work[f]}}
  /\ touched' = touched \cup {f}
  /\ UNCHANGED <<pc, code, args, repository, files, nonfile, rule, left, violations>>

Next ==
  \/ UsageError \/ CollectFiles \/ NothingToScan \/ LoadAllowlist \/ Flatten
  \/ \E f \in Files : ScanFile(f)
  \/ ScanNonFiles \/ Verdict
  \/ \E f \in Files : Edit(f)

Spec == Init /\ [][Next]_vars

-----------------------------------------------------------------------------
(* Every variable keeps its type.                                          *)
TypeOK ==
  /\ pc \in {"args", "list", "flatten", "scan", "verdict", "done"}
  /\ code \in Codes /\ args \in Args
  /\ work \in [Files -> Lines \cup {Nothing}]
  /\ index \in [Files -> Lines \cup {Nothing}]
  /\ staged \subseteq Files /\ said \in [NonFiles -> Intact]
  /\ touched \subseteq Files /\ files \subseteq Files /\ nonfile \subseteq NonFiles
  /\ rule \in 1 .. NRules + 1 /\ left \subseteq files
  /\ violations \subseteq RuleIds \X Sources \X (Words \cup {Unresolved})

(* Where the run is, and what it may have found there.                     *)
StageInv ==
  /\ pc = "done" <=> code # "none"
  /\ pc \in {"args", "list", "flatten"} =>
       rule = 1 /\ left = {} /\ nonfile = {} /\ violations = {}
  /\ pc = "scan" => rule <= NRules
  /\ pc = "verdict" => rule = NRules + 1 /\ left = {}
  /\ code = "clean" =>
       /\ violations = {}
       /\ \/ rule = NRules + 1 /\ left = {}
          \/ files = {} /\ nonfile = {}

Examined(r, f) == r < rule \/ (r = rule /\ f \notin left)

(* What the rules up to now found in the text as it is, is reported; what  *)
(* is reported was found in a text that is still there, or was edited.     *)
ScanInv ==
  /\ pc \in {"scan", "verdict"} \/ code = "clean" =>
       /\ \A r \in RuleIds, f \in files \ touched :
            Examined(r, f) => Report(r, f, work[f]) \subseteq violations
       /\ \A r \in RuleIds, s \in nonfile : r < rule => Report(r, s, said[s]) \subseteq violations
  /\ \A v \in violations :
       /\ v[2] \in files \cup nonfile
       /\ v[2] \in touched \/ v \in Report(v[1], v[2], Text(v[2]))

(* The inductive invariant.                                                *)
IInv == TypeOK /\ StageInv /\ ScanInv

(* An entry of the allowlist names all there is about an identifier.       *)
Exempt(r, s, w, l) ==
  \E e \in Allow : <<r, s, w, l.read>> \in e.rules \X e.at \X e.words \X e.lines

(* Two identifiers of a rule are more than one separator apart.            *)
Spaced(r, l) == \A i \in DOMAIN l.text : Of(r, l.text, i) => ~Of(r, l.text, i - 2)

Clean(r, s, l) ==
  l # Nothing => \A w \in Present(r, l) : Exempt(r, s, w, l)

Scanned == (files \ touched) \cup nonfile

(* "guard-b: OK": in all that was to be scanned, and was not edited during *)
(* the run, each identifier is exempted by an entry of its own, and not by *)
(* one for another identifier, rule or place, or stands right behind one   *)
(* that is and that took the separator between them; no two in a row are   *)
(* lost.  Of a line with NUL bytes this is so of what the shell has left of*)
(* it, and a line that grep found is not passed over when nothing is left. *)
CleanMeansExempt ==
  code = "clean" =>
    \A r \in RuleIds, s \in Scanned :
      LET l == Text(s)
          Entered(i) == Of(r, l.read, i) /\ Exempt(r, s, l.read[i], l)
      IN  l # Nothing /\ Present(r, l) # {} =>
            /\ \E i \in DOMAIN l.read : Entered(i)
            /\ \A i \in DOMAIN l.read :
                 Of(r, l.read, i) => Entered(i) \/ (r \in Consuming /\ Entered(i - 2))

(* A listing of git that fails is not noticed, and what it did not print   *)
(* is not scanned.  That is all that can be lost: the files named in the   *)
(* arguments, every commit of a range that git knows, merges included, and *)
(* standard input are part of every OK, and nothing else is, unless git    *)
(* was asked for it.                                                       *)
OnlyGitLoses ==
  code = "clean" =>
    /\ args.named \subseteq files
    /\ args.range = "valid" => Commits \subseteq nonfile
    /\ args.stdin => Stdin \in nonfile
    /\ files \subseteq Asked

(* A violation is reported of a line that holds an identifier of the rule. *)
(* What it names is an identifier of the rule in what the shell has of the *)
(* line, which is the line unless NUL bytes are in it, and is exempted by  *)
(* no entry; or nothing, and then no identifier of the rule is left there. *)
ViolationsAreReal ==
  \A v \in violations :
    v[2] \notin touched =>
      LET l == Text(v[2])
          Left == {l.read[i] : i \in {j \in DOMAIN l.read : Of(v[1], l.read, j)}}
      IN  /\ v[2] \in Scanned /\ l # Nothing /\ Present(v[1], l) # {}
          /\ \/ v[3] \in Left /\ ~Exempt(v[1], v[2], v[3], l)
             \/ v[3] = Unresolved /\ l \notin Intact /\ Left = {}

(* "a second, unlisted identifier sharing a line with an exempted one is   *)
(* still reported" (guard-b-lint.sh), however the two are separated.       *)
SecondIdentifierReported ==
  code = "clean" => \A r \in RuleIds, s \in Scanned : Clean(r, s, Text(s))

=============================================================================
