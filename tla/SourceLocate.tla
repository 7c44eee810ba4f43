---------------------------- MODULE SourceLocate ----------------------------
(***************************************************************************)
(* How a smoke finds the donmai checkout it is to test and builds it:      *)
(* RequireDonmaiSourceAt, LocateDonmaiSource, describeNonDonmaiCheckout    *)
(* and RequireDonmaiBinary (src/harness/sut.go, live_gate.go, build.go).   *)
(*                                                                         *)
(* A place is a path that may hold a checkout: place i is the entry named  *)
(* "donmai" of the directory i - 1 levels above the working directory, and *)
(* EnvPlace and DirPlace are what $DONMAI_SMOKES_DONMAI_DIR and the        *)
(* caller's directory name.  What is at a place is the set of the facts    *)
(* the code asks of it: it is a directory, its go.mod declares donmai's    *)
(* module, it has cmd/donmai.  The code asks them one system call at a     *)
(* time, while a clone into the place, or the removal of a work tree, may  *)
(* be under way in another process.                                        *)
(***************************************************************************)
EXTENDS Integers, Sequences

CONSTANTS MaxWalk,        \* maxSourceWalkUp
          MaxDepth,       \* bounds the number of directories from the root to the working directory
          EnvPlace, DirPlace,
          Cloning,        \* places another process is cloning into
          Removing,       \* places another process is removing
          Still           \* what the places nobody touches may hold

Levels == 1..MaxDepth
Places == Levels \union {EnvPlace, DirPlace}

Facts == {"dir", "module", "entry"}
Shapes == {s \in SUBSET Facts : s # {} => "dir" \in s}
Genuine(s) == s = Facts
Reasons == Facts \union {"path"}

ASSUME BoundsAssumption == MaxWalk \in Nat \ {0} /\ MaxDepth \in Nat \ {0}
ASSUME NamesAssumption == EnvPlace \notin Levels /\ DirPlace \notin Levels
                          /\ EnvPlace # DirPlace
ASSUME ChangeAssumption == /\ Cloning \subseteq Places /\ Removing \subseteq Places
                           /\ Cloning \intersect Removing = {} /\ Still \subseteq Shapes

None == 0
ASSUME NoneAssumption == EnvPlace # None /\ DirPlace # None

VARIABLES
  pc,        \* the next system call of the smoke
  depth,     \* the working directory is depth - 1 levels below the root
  env, dir,  \* whether the variable and the caller's directory are set
  at,        \* the place being looked at, then the one found
  report,    \* SUTNotFoundError.Candidates: places rejected and why, mostly the fact missing
  place,     \* what each place holds
  steady,    \* places that have held a checkout ever since the call began
  seen,      \* places that have held one at some moment since then
  ledger     \* TRUE once the smoke is filed as having exercised the program

search == <<pc, at, report, ledger>>
given == <<depth, env, dir>>
history == <<steady, seen>>
vars == <<pc, depth, env, dir, at, report, place, steady, seen, ledger>>

Init ==
  /\ pc = "start"
  /\ depth \in Levels
  /\ env \in BOOLEAN /\ dir \in BOOLEAN
  /\ at = None
  /\ report = <<>>
  /\ place \in [Places -> Shapes]
  /\ \A p \in Places \ (Cloning \union Removing) : place[p] \in Still
  /\ steady = {p \in Places : Genuine(place[p])}
  /\ seen = steady
  /\ ledger = FALSE

-----------------------------------------------------------------------------
(* The smoke.  A directory the caller names beats the variable, and either *)
(* of them beats the walk.                                                 *)
Named == dir \/ env

(* A slip in First: the walk leaves out the working directory's sibling.   *)
FromTheParent == IF dir THEN DirPlace ELSE IF env THEN EnvPlace
                 ELSE IF MaxWalk > 1 /\ depth > 1 THEN 2 ELSE 1

First == IF dir THEN DirPlace ELSE IF env THEN EnvPlace ELSE 1

(* The first candidate, made absolute.  A name that cannot be made so is   *)
(* rejected unseen; a walk needs a working directory, and without one the  *)
(* call fails and has nothing to report.                                   *)
Start ==
  /\ pc = "start"
  /\ \/ pc' = "stat" /\ at' = First /\ UNCHANGED report
     \/ Named /\ pc' = "failed" /\ report' = <<<<First, "path">>>> /\ UNCHANGED at
     \/ ~Named /\ pc' = "nocwd" /\ UNCHANGED <<at, report>>
  /\ UNCHANGED <<ledger, place, given, history>>

(* Slips in NextLevel: the walk ends one directory early, and a name that  *)
(* is rejected leads to the walk.                                          *)
OneTooFew(p) == IF ~Named /\ p + 1 < MaxWalk /\ p < depth THEN p + 1 ELSE None

FallsBackToWalk(p) == IF p \notin Levels THEN 1
                      ELSE IF p < MaxWalk /\ p < depth THEN p + 1 ELSE None

(* The walk goes one directory up after a rejection unless it has looked   *)
(* at MaxWalk of them or stands at the root; a named place has no next.    *)
NextLevel(p) == IF ~Named /\ p < MaxWalk /\ p < depth THEN p + 1 ELSE None

Reject(fact) ==
  /\ report' = Append(report, <<at, fact>>)
  /\ at' = NextLevel(at)
  /\ pc' = IF NextLevel(at) = None THEN "failed" ELSE "stat"

(* One question of describeNonDonmaiCheckout: the fact holds and the next  *)
(* question follows, or the place is rejected for want of it.              *)
Ask(here, fact, next) ==
  /\ pc = here
  /\ \/ fact \in place[at] /\ pc' = next /\ UNCHANGED <<at, report>>
     \/ fact \notin place[at] /\ Reject(fact)
  /\ UNCHANGED <<ledger, place, given, history>>

StatDir == Ask("stat", "dir", "gomod")
(* A slip in ReadGoMod: a directory of the right name is enough.           *)
NameIsEnough == Ask("gomod", "dir", "entry")

ReadGoMod == Ask("gomod", "module", "entry")
StatEntry == Ask("entry", "entry", "located")

(* BuildBinary looks at the directory again before it runs go build.       *)
BuildStat ==
  /\ pc = "located"
  /\ pc' = IF "dir" \in place[at] THEN "build" ELSE "broken"
  /\ UNCHANGED <<at, report, ledger, place, given, history>>

(* go build fails when it cannot find the module or the package, and may   *)
(* fail otherwise: the source does not compile or the time is up.          *)
GoBuild ==
  /\ pc = "build"
  /\ pc' \in {"broken"} \union (IF Genuine(place[at]) THEN {"built"} ELSE {})
  /\ UNCHANGED <<at, report, ledger, place, given, history>>

RecordExercised ==
  /\ pc = "built"
  /\ pc' = "done"
  /\ ledger' = TRUE
  /\ UNCHANGED <<at, report, place, given, history>>

-----------------------------------------------------------------------------
(* Other processes.  A clone adds to a place, the directory first; a       *)
(* removal takes from it, the directory last.                              *)
Becomes(p, s) ==
  /\ place' = [place EXCEPT ![p] = s]
  /\ steady' = steady \ {q \in {p} : ~Genuine(s)}
  /\ seen' = seen \union {q \in {p} : Genuine(s)}
  /\ UNCHANGED <<search, given>>

CloneWrites(p) ==
  \E f \in Facts \ place[p] :
     place[p] \union {f} \in Shapes /\ Becomes(p, place[p] \union {f})

RemovalTakes(p) ==
  \E f \in place[p] :
     place[p] \ {f} \in Shapes /\ Becomes(p, place[p] \ {f})

Ended == pc \in {"failed", "nocwd", "broken", "done"}

Next ==
  \/ Start \/ StatDir \/ ReadGoMod \/ StatEntry
  \/ BuildStat \/ GoBuild \/ RecordExercised
  \/ ~Ended /\ \E p \in Cloning : CloneWrites(p)
  \/ ~Ended /\ \E p \in Removing : RemovalTakes(p)

Spec == Init /\ [][Next]_vars

-----------------------------------------------------------------------------
Reach == {p \in Levels : p <= MaxWalk /\ p <= depth}
Looking == pc \in {"stat", "gomod", "entry"}
Found == pc \in {"located", "build", "built", "broken", "done"}

(* The variables keep their types.                                         *)
TypeOK ==
  /\ pc \in {"start", "stat", "gomod", "entry", "located", "build", "built",
            "failed", "nocwd", "broken", "done"}
  /\ depth \in Levels
  /\ env \in BOOLEAN /\ dir \in BOOLEAN /\ ledger \in BOOLEAN
  /\ at \in Places \union {None}
  /\ report \in Seq(Places \X Reasons)
  /\ place \in [Places -> Shapes]
  /\ steady \subseteq Places /\ seen \subseteq Places

(* What the search has rejected: each level below the one looked at, none  *)
(* of which has held a checkout all along.                                 *)
Rejected(n) ==
  /\ Len(report) = n
  /\ \A i \in 1..n : report[i][1] = i /\ i \notin steady

SearchInv ==
  /\ pc = "start" => report = <<>>
  /\ ledger => pc = "done"
  /\ Looking \/ Found => IF Named THEN at = First /\ report = <<>>
                                  ELSE at \in Reach /\ Rejected(at - 1)
  /\ pc = "failed" =>
       IF Named THEN /\ Len(report) = 1 /\ report[1][1] = First
                     /\ report[1][2] = "path" \/ First \notin steady
                ELSE \E n \in Reach : n + 1 \notin Reach /\ Rejected(n)

(* What the answers given so far say of the place by now: a clone keeps    *)
(* the facts it has shown, and a removal, which does not, shows the last   *)
(* one only of a place that had held them all.                             *)
LookInv ==
  pc = "entry" => /\ at \notin Removing => "module" \in place[at]
                  /\ at \in Removing /\ "entry" \in place[at] => at \in seen

HistoryInv ==
  /\ \A p \in Places : Genuine(place[p]) => p \in seen
  /\ \A p \in steady : Genuine(place[p])

(* A search that succeeds names a place that, at some moment of the call,  *)
(* was a donmai checkout all at once, though its three questions were      *)
(* asked at three moments; so no smoke is filed as having exercised        *)
(* something else (describeNonDonmaiCheckout, RequireDonmaiBinary).        *)
LocatedWasGenuine == Found \/ ledger => at \in seen

(* The walk fails only if no checkout was there all along within its       *)
(* reach, and then it names every place of its reach, nearest first        *)
(* (LocateDonmaiSource, SUTNotFoundError.Candidates).  Without a working   *)
(* directory there is no walk.                                             *)
WalkIsComplete ==
  pc = "failed" /\ ~Named =>
    /\ Reach \intersect steady = {}
    /\ {report[i][1] : i \in DOMAIN report} = Reach
    /\ \A i \in DOMAIN report : report[i][1] = i

(* The walk prefers the nearest: it passes over no checkout that was there *)
(* all along (LocateDonmaiSource).                                         *)
NearestSteady == Found /\ ~Named => \A p \in Reach : p < at => p \notin steady

(* A name given is authoritative: what is tested is the caller's directory *)
(* if there is one and else the variable's, and when that is no checkout   *)
(* the smoke fails and says only so (LocateDonmaiSource,                   *)
(* RequireDonmaiSourceAt).                                                 *)
NamedIsAuthoritative ==
  Named => /\ Found => at = First
           /\ pc = "failed" => Len(report) = 1 /\ report[1][1] = First

(* How many system calls the smoke can still make: three for each place    *)
(* the walk may yet come to, and a start, two looks and a record.          *)
ToAsk  == CASE pc = "stat" -> 3 [] pc = "gomod" -> 2 [] pc = "entry" -> 1 [] OTHER -> 0
Beyond == IF Named THEN 0 ELSE MaxWalk - at
CallsLeft ==
  CASE pc = "start"   -> 3 * MaxWalk + 4
    [] Looking        -> 3 * Beyond + ToAsk + 3
    [] pc = "located" -> 3
    [] pc = "build"   -> 2
    [] pc = "built"   -> 1
    [] OTHER          -> 0

(* The search ends, whatever comes and goes meanwhile: each call of the    *)
(* smoke leaves it fewer to make, and a clone or a removal takes none back *)
(* (LocateDonmaiSource asks of no place twice).                            *)
SearchGoesDown ==
  [][\/ CallsLeft' \in Nat /\ CallsLeft' < CallsLeft /\ UNCHANGED place
     \/ CallsLeft' = CallsLeft /\ UNCHANGED <<search, given>>]_vars

(* The inductive invariant.                                                *)
IInv == TypeOK /\ SearchInv /\ LookInv /\ HistoryInv /\ LocatedWasGenuine
=============================================================================
