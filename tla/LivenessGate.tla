---------------------------- MODULE LivenessGate ----------------------------
(***************************************************************************)
(* Did this run of the suite prove anything?  Every live smoke passes the  *)
(* gates of harness/live_gate.go, which skip it, fail it or let it on, and *)
(* file what happened into the ledger of harness/liveness.go.  After the   *)
(* last smoke TestMain (liveness_test.go) weighs the ledger and may turn a *)
(* green run red.                                                          *)
(*                                                                         *)
(* A smoke is the sequence of gates it calls, in the order it calls them.  *)
(* Live smokes do not call t.Parallel, so one runs at a time, in any order *)
(* (-shuffle).  What a gate finds on the machine is open at each call: a   *)
(* step may name its own checkout, want its own tool, build with a         *)
(* deadline of its own.  -short and the knob are fixed for the run.        *)
(***************************************************************************)
EXTENDS Naturals, Sequences

CONSTANTS
  Smokes,  \* the live smokes of the package
  Gates,   \* [Smokes -> Seq(Gate)]: what each of them calls, up to its body
  NoSmoke  \* between two smokes

(* short, knob: SkipIfShort, SkipIfKnob.  tool: SkipIfToolMissing.         *)
(* source: RequireDonmaiSourceAt.  probe: a probe of the checkout or the   *)
(* machine that may DeclineLive.  build: RequireDonmaiBinary.  record: a   *)
(* smoke that builds a consumer of its own and calls RecordLive itself.    *)
(* peer: EnsurePiBinary, EnsureOpenCodeBinary and the other places that    *)
(* call t.Skip directly.  drive: the body that runs the code under test.   *)
Gate == {"short", "knob", "tool", "source", "probe", "build", "record",
         "peer", "drive"}
OptOuts  == {"short", "knob"}
Declines == {"tool", "probe"}
Records  == {"build", "record"}
Skips    == OptOuts \cup Declines \cup {"peer"}

(* The smokes as they are written: each one drives the SUT and files       *)
(* evidence, calls nothing that could overwrite the evidence with an       *)
(* opt-out or leave it standing over an unrecorded skip, and does not skip *)
(* once it has driven the SUT.                                             *)
ASSUME NoSmokeAssumption == NoSmoke \notin Smokes
ASSUME GatesAssumption ==
  /\ Gates \in [Smokes -> Seq(Gate)]
  /\ \A s \in Smokes :
       /\ \E i \in DOMAIN Gates[s] : Gates[s][i] = "drive"
       /\ \E i \in DOMAIN Gates[s] : Gates[s][i] \in Records
       /\ \A i, j \in DOMAIN Gates[s] :
            /\ Gates[s][i] \in Records /\ Gates[s][j] \in OptOuts \cup {"peer"} => j < i
            /\ Gates[s][i] = "drive" /\ Gates[s][j] \in Skips => j < i

VARIABLES
  asked,    \* the opt-outs the operator asked for: a subset of OptOuts
  selected, \* the smokes that -run selects
  current,  \* the smoke under way, or NoSmoke
  next,     \* [Smokes -> Nat]: the index of the gate it calls next
  result,   \* [Smokes -> Results]: what go test reports of it
  ledger,   \* [Smokes -> Outcomes]: liveLedger.records
  driven,   \* the smokes whose body has run the code under test
  exit      \* the exit code of the test binary, "none" while it runs

runVars == <<asked, selected>>
vars    == <<runVars, current, next, result, ledger, driven, exit>>

Results  == {"none", "pass", "skip", "fail"}
Outcomes == {"none", "opted-out", "exercised", "declined"}
Exits    == {"none", "ok", "fail", "panic"}

Init ==
  /\ asked \in SUBSET OptOuts
  /\ selected \in SUBSET Smokes
  /\ current = NoSmoke
  /\ next   = [s \in Smokes |-> 1]
  /\ result = [s \in Smokes |-> "none"]
  /\ ledger = [s \in Smokes |-> "none"]
  /\ driven = {}
  /\ exit   = "none"

(* RecordLive: the last outcome filed under a name stands. *)
RecordLive(s, outcome) == ledger' = [ledger EXCEPT ![s] = outcome]

Calls(s, gate) ==
  /\ current = s
  /\ next[s] \in DOMAIN Gates[s]
  /\ Gates[s][next[s]] = gate

Passes(s) ==
  /\ next' = [next EXCEPT ![s] = @ + 1]
  /\ UNCHANGED <<current, result>>

Ends(s, r) ==
  /\ result' = [result EXCEPT ![s] = r]
  /\ current' = NoSmoke
  /\ UNCHANGED next

Start(s) ==
  /\ exit = "none"
  /\ current = NoSmoke
  /\ s \in selected
  /\ result[s] = "none"
  /\ current' = s
  /\ UNCHANGED <<runVars, next, result, ledger, driven, exit>>

(* A slip in OptOut: recorded, and on it goes. *)
RecordedNotSkipped(s) ==
  /\ \E g \in OptOuts :
       /\ Calls(s, g)
       /\ IF g \in asked THEN RecordLive(s, "opted-out") ELSE UNCHANGED ledger
       /\ Passes(s)
  /\ UNCHANGED <<runVars, driven, exit>>

(* SkipIfShort and SkipIfKnob. *)
OptOut(s) ==
  /\ \E g \in OptOuts :
       /\ Calls(s, g)
       /\ IF g \in asked
            THEN RecordLive(s, "opted-out") /\ Ends(s, "skip")
            ELSE UNCHANGED ledger /\ Passes(s)
  /\ UNCHANGED <<runVars, driven, exit>>

(* SkipIfToolMissing, and a probe that calls DeclineLive. *)
Decline(s) ==
  /\ \E g \in Declines : Calls(s, g)
  /\ \/ RecordLive(s, "declined") /\ Ends(s, "skip")
     \/ UNCHANGED ledger /\ Passes(s)
  /\ UNCHANGED <<runVars, driven, exit>>

(* RequireDonmaiSourceAt: a checkout, or t.Fatalf.  Nothing is recorded.   *)
RequireDonmaiSource(s) ==
  /\ Calls(s, "source")
  /\ Passes(s) \/ Ends(s, "fail")
  /\ UNCHANGED <<runVars, ledger, driven, exit>>

(* A slip in RequireDonmaiBinary: a failed build skipped, as the copies it *)
(* replaced did.                                                           *)
BuildFailureSkips(s) ==
  /\ Calls(s, "build")
  /\ \/ RecordLive(s, "exercised") /\ Passes(s)
     \/ UNCHANGED ledger /\ Ends(s, "skip")
  /\ UNCHANGED <<runVars, driven, exit>>

(* RequireDonmaiBinary: the source and the build, or t.Fatalf; recorded as *)
(* evidence before the smoke has driven the binary.                        *)
RequireDonmaiBinary(s) ==
  /\ Calls(s, "build")
  /\ \/ RecordLive(s, "exercised") /\ Passes(s)
     \/ UNCHANGED ledger /\ Ends(s, "fail")
  /\ UNCHANGED <<runVars, driven, exit>>

(* A smoke that calls RecordLive itself, having built its own consumer.    *)
RecordItself(s) ==
  /\ Calls(s, "record")
  /\ \/ RecordLive(s, "exercised") /\ Passes(s)
     \/ UNCHANGED ledger /\ Ends(s, "fail")
  /\ UNCHANGED <<runVars, driven, exit>>

(* EnsurePiBinary and the like: the peer's CLI is there or can be          *)
(* installed; installing it fails (t.Fatalf); neither is possible (t.Skip, *)
(* which no helper records).                                               *)
EnsurePeer(s) ==
  /\ Calls(s, "peer")
  /\ Passes(s) \/ Ends(s, "fail") \/ Ends(s, "skip")
  /\ UNCHANGED <<runVars, ledger, driven, exit>>

Drive(s) ==
  /\ Calls(s, "drive")
  /\ driven' = driven \cup {s}
  /\ Passes(s) \/ Ends(s, "fail")
  /\ UNCHANGED <<runVars, ledger, exit>>

Pass(s) ==
  /\ current = s
  /\ next[s] \notin DOMAIN Gates[s]
  /\ Ends(s, "pass")
  /\ UNCHANGED <<runVars, ledger, driven, exit>>

(* The code of m.Run. *)
RunCode == IF \E s \in Smokes : result[s] = "fail" THEN "fail" ELSE "ok"

Filed(outcome) == {s \in Smokes : ledger[s] = outcome}

(* Slips in CheckLiveness: opting out of some smokes excuses the rest, and *)
(* a declined run is red whatever else was exercised.                      *)
OptOutExcuses ==
  Filed("exercised") # {} \/ Filed("declined") = {} \/ Filed("opted-out") # {}
DeclineIsRed == Filed("declined") = {}

(* CheckLiveness: selected none, exercised some, or declined none. *)
CheckLiveness ==
  \/ \A s \in Smokes : ledger[s] = "none"
  \/ Filed("exercised") # {}
  \/ Filed("declined") = {}

(* TestMain, once every selected smoke has ended. *)
TestMain ==
  /\ exit = "none"
  /\ current = NoSmoke
  /\ \A s \in selected : result[s] # "none"
  /\ exit' = IF RunCode = "ok" /\ ~CheckLiveness THEN "fail" ELSE RunCode
  /\ UNCHANGED <<runVars, current, next, result, ledger, driven>>

(* go test -timeout, or a panic: the binary dies without its TestMain.     *)
Panics ==
  /\ exit = "none"
  /\ current # NoSmoke
  /\ exit' = "panic"
  /\ current' = NoSmoke
  /\ UNCHANGED <<runVars, next, result, ledger, driven>>

Next ==
  \/ \E s \in Smokes :
       \/ Start(s) \/ OptOut(s) \/ Decline(s) \/ RequireDonmaiSource(s)
       \/ RequireDonmaiBinary(s) \/ RecordItself(s) \/ EnsurePeer(s)
       \/ Drive(s) \/ Pass(s)
  \/ TestMain \/ Panics
  \/ exit # "none" /\ UNCHANGED vars

Spec == Init /\ [][Next]_vars

-----------------------------------------------------------------------------
(* Properties.                                                             *)

(* Every variable keeps its type.                                          *)
TypeOK ==
  /\ asked \in SUBSET OptOuts
  /\ selected \in SUBSET Smokes
  /\ current \in Smokes \cup {NoSmoke}
  /\ next \in [Smokes -> Nat \ {0}]
  /\ result \in [Smokes -> Results]
  /\ ledger \in [Smokes -> Outcomes]
  /\ driven \in SUBSET Smokes
  /\ exit \in Exits

(* A smoke that has called all its gates, or has ended by ending its test, *)
(* in terms of the gates behind it.                                        *)
Behind(s, gates) == \E i \in DOMAIN Gates[s] : i < next[s] /\ Gates[s][i] \in gates

(* What the ledger says of a smoke agrees with what go test says of it and *)
(* with the gates behind it.                                               *)
SmokeInv(s) ==
  /\ current = s => result[s] = "none" /\ exit = "none" /\ s \in selected
  /\ s \notin selected => result[s] = "none" /\ ledger[s] = "none" /\ s \notin driven
  /\ result[s] = "pass" => next[s] \notin DOMAIN Gates[s]
  /\ result[s] # "skip" => ledger[s] \in {"none", "exercised"}
  /\ result[s] = "skip" =>
       /\ next[s] \in DOMAIN Gates[s]
       /\ Gates[s][next[s]] \in Skips
       /\ ledger[s] \in {"opted-out", "declined"} \/ Gates[s][next[s]] = "peer"
  /\ ledger[s] = "opted-out" => asked # {}

EvidenceInv(s) ==
  /\ Behind(s, {"drive"}) => s \in driven
  /\ s \in driven =>
       \/ Behind(s, {"drive"})
       \/ /\ result[s] = "fail"
          /\ next[s] \in DOMAIN Gates[s] /\ Gates[s][next[s]] = "drive"
  /\ ledger[s] = "exercised" => Behind(s, Records)
  /\ result[s] # "skip" /\ Behind(s, Records) => ledger[s] = "exercised"

ExitInv ==
  /\ exit = "ok" => /\ \A s \in selected : result[s] \in {"pass", "skip"}
                    /\ CheckLiveness
  /\ exit = "fail" =>
       \/ \E s \in selected : result[s] = "fail"
       \/ ~CheckLiveness /\ \A s \in selected : result[s] \in {"pass", "skip"}

(* The inductive invariant: what the ledger knows of an ended smoke.       *)
IInv ==
  /\ TypeOK
  /\ \A s \in Smokes : SmokeInv(s) /\ EvidenceInv(s)
  /\ ExitInv

(* A run that reports success has driven the code under test, unless every *)
(* selected smoke was opted out of by the operator or skipped by a raw     *)
(* t.Skip: a missing or unbuildable checkout, a probe that declines and a  *)
(* missing tool never add up to a green run, in whatever order and mix.    *)
GreenRunDroveTheSUT ==
  exit = "ok" =>
    \/ \E s \in selected : result[s] = "pass" /\ s \in driven
    \/ \A s \in selected :
         /\ result[s] = "skip"
         /\ \/ ledger[s] = "opted-out" /\ asked # {}
            \/ ledger[s] = "none" /\ Gates[s][next[s]] = "peer"

(* The gate is no false alarm either: a run in which no smoke failed is    *)
(* red only when some smoke declined without being asked to and none got   *)
(* as far as its body.                                                     *)
RedRunHasReason ==
  exit = "fail" =>
    \/ \E s \in selected : result[s] = "fail"
    \/ /\ \E s \in selected : ledger[s] = "declined"
       /\ driven = {}

(* "A run that selected live smokes and exercised none is red even if      *)
(* every individual skip was, in isolation, defensible" (liveness_test.go),*)
(* but for the runs the operator opted out of.                             *)
ExercisedNoneIsRed ==
  exit = "ok" /\ asked = {} /\ selected # {} => \E s \in selected : s \in driven

(* Where that sentence fails is known exactly: a green run that was asked  *)
(* for no opt-out and drove nothing was skipped smoke by smoke at the raw  *)
(* t.Skip of a peer gate, with nothing filed; one selected smoke without   *)
(* such a gate is enough for the sentence to hold.                         *)
OnlyRawSkipsEscape ==
  exit = "ok" /\ asked = {} /\ selected \cap driven = {} =>
    \A s \in selected :
      /\ result[s] = "skip" /\ ledger[s] = "none"
      /\ next[s] \in DOMAIN Gates[s] /\ Gates[s][next[s]] = "peer"

(* What is known of a smoke stands: the evidence of one that has driven    *)
(* the code under test is never withdrawn, evidence filed before that only *)
(* by a gate that declines and ends the smoke, no outcome is revised once  *)
(* its smoke has ended, and nothing moves after the binary has exited.     *)
EvidenceStands ==
  [][/\ exit # "none" => UNCHANGED vars
     /\ driven \subseteq driven'
     /\ \A s \in Smokes :
          /\ s \in driven /\ ledger[s] = "exercised" => ledger'[s] = "exercised"
          /\ ledger[s] = "exercised" /\ ledger'[s] # "exercised" =>
               /\ ledger'[s] = "declined" /\ result'[s] = "skip"
               /\ Gates[s][next[s]] \in Declines
          /\ result[s] # "none" =>
               <<result[s], ledger[s], next[s]>> = <<result[s], ledger[s], next[s]>>'
    ]_vars

=============================================================================
