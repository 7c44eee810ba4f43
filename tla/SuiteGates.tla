----------------------------- MODULE SuiteGates -----------------------------
(***************************************************************************)
(* Who reads what the suite has printed.  The pull-request job runs        *)
(* scripts/run-hermetic-tests.sh, which runs everything under -short and   *)
(* counts the outcomes; the nightly job (.github/workflows/test.yml) runs  *)
(* everything and asks after its canaries by name.  Both read the log that *)
(* tee has written, and both see the exit code of go test.                 *)
(***************************************************************************)
EXTENDS PeerInstall, FiniteSets

CONSTANTS
  Canaries, \* the smokes the nightly job insists on
  Floor,    \* min_hermetic_tests
  MaxPlain  \* bound: the tests that are no live smokes

ASSUME SuiteAssumption ==
  /\ Canaries \subseteq Smokes
  /\ Floor \in Nat /\ MaxPlain \in Nat

VARIABLES
  plain,     \* how many of the other tests passed
  plainFail, \* one of the other tests failed
  log,       \* what tee has written, and how tee ended
  verdict    \* [Readers -> {"none", "green", "red"}]

logVars   == <<plain, plainFail, log>>
suiteVars == <<peersVars, logVars, verdict>>

Readers == {"hermetic", "nightly"}
Log     == [smokes : SUBSET Smokes, plain : 0..MaxPlain, tee : {"none", "ok", "error"}]
NoLog   == [smokes |-> {}, plain |-> 0, tee |-> "none"]

SuiteInit ==
  /\ PeerInit
  /\ plain = 0 /\ plainFail = FALSE /\ log = NoLog
  /\ verdict = [r \in Readers |-> "none"]

(* go test has ended, in one of the jobs, which select every test.  Every  *)
(* test that ended has a line in its output, of which tee writes all and   *)
(* exits 0, or some and exits with an error.                               *)
Ended == {s \in Smokes : result[s] # "none"}
Tee ==
  /\ exit # "none" /\ log.tee = "none" /\ selected = Smokes
  /\ plain' \in 0..MaxPlain /\ plainFail' \in BOOLEAN
  /\ \/ log' = [smokes |-> Ended, plain |-> plain', tee |-> "ok"]
     \/ \E S \in SUBSET Ended, n \in 0..plain' :
          log' = [smokes |-> S, plain |-> n, tee |-> "error"]
  /\ UNCHANGED <<peersVars, verdict>>

goTestOK  == exit = "ok" /\ ~plainFail
Lines(r)  == {s \in log.smokes : result[s] = r}
passCount == Cardinality(Lines("pass")) + log.plain
failCount == Cardinality(Lines("fail"))

Judges(reader, ok) ==
  /\ log.tee # "none" /\ verdict[reader] = "none"
  /\ verdict' = [verdict EXCEPT ![reader] = IF ok THEN "green" ELSE "red"]
  /\ UNCHANGED <<peersVars, logVars>>

(* A slip in RunHermeticTests: the exit code of the pipeline is that of    *)
(* its last command, and only the log is counted.                          *)
LastOfPipeline ==
  /\ "short" \in asked
  /\ Judges("hermetic", log.tee = "ok" /\ failCount = 0 /\ passCount >= Floor)

(* The script: tee, go test, the failures, the floor, in this order.       *)
RunHermeticTests ==
  /\ "short" \in asked
  /\ Judges("hermetic", log.tee = "ok" /\ goTestOK /\ failCount = 0 /\ passCount >= Floor)

(* A slip in NightlyJob: the exit code, and with it the ledger, is enough. *)
LedgerIsEnough ==
  /\ "short" \notin asked
  /\ Judges("nightly", log.tee = "ok" /\ goTestOK)

(* The job: go test under pipefail, then the guards, which want no SKIP    *)
(* line and a PASS line of each canary.                                    *)
NightlyJob ==
  /\ "short" \notin asked
  /\ Judges("nightly", /\ log.tee = "ok" /\ goTestOK
                       /\ Canaries \cap Lines("skip") = {}
                       /\ Canaries \subseteq Lines("pass"))

SuiteNext ==
  \/ PeerNext /\ UNCHANGED <<logVars, verdict>>
  \/ Tee \/ RunHermeticTests \/ NightlyJob

SuiteSpec == SuiteInit /\ [][SuiteNext]_suiteVars

-----------------------------------------------------------------------------
(* Properties.                                                             *)

SuiteTypeOK ==
  /\ plain \in 0..MaxPlain /\ plainFail \in BOOLEAN
  /\ log \in Log
  /\ verdict \in [Readers -> {"none", "green", "red"}]

(* What a verdict and the log rest on.                                     *)
SuiteInv ==
  /\ log.tee # "none" => exit # "none" /\ selected = Smokes
  /\ log.tee = "ok" => log.smokes = Ended /\ log.plain = plain
  /\ \A r \in Readers : verdict[r] # "none" => log.tee # "none"
  /\ verdict["hermetic"] = "green" =>
       log.tee = "ok" /\ goTestOK /\ passCount >= Floor
  /\ verdict["nightly"] = "green" =>
       log.tee = "ok" /\ goTestOK /\ Canaries \subseteq Lines("pass")
  /\ \A s \in Smokes : "short" \in asked => ~Behind(s, {"short"})

SuiteIInv == IInv /\ PeerTypeOK /\ PeerIsFit /\ SuiteTypeOK /\ SuiteInv

(* A green pull-request run has run to its end: every live smoke passed or *)
(* was skipped, no other test failed, and as many passed as the floor asks,*)
(* in truth and not only in what the log still shows.                      *)
HermeticGreenIsComplete ==
  verdict["hermetic"] = "green" =>
    /\ \A s \in Smokes : result[s] \in {"pass", "skip"}
    /\ ~plainFail
    /\ Cardinality({s \in Smokes : result[s] = "pass"}) + plain >= Floor

(* Nothing live runs under -short: a smoke that asks for it before its body*)
(* neither drives the code under test nor files evidence.                  *)
ShortFirst(s) ==
  \E i \in DOMAIN Gates[s] :
    /\ Gates[s][i] = "short"
    /\ \A j \in DOMAIN Gates[s] : Gates[s][j] \in {"drive"} \cup Records => i < j
ShortRunsNothingLive ==
  "short" \in asked =>
    \A s \in Smokes : ShortFirst(s) => s \notin driven /\ ledger[s] # "exercised"

(* What the ledger alone cannot promise, the guards of the nightly job do: *)
(* when the job is green, every canary has driven the code under test, its *)
(* evidence stands, and it did so with a peer that fits.                   *)
GreenJobDroveCanaries ==
  verdict["nightly"] = "green" =>
    \A c \in Canaries :
      /\ c \in driven /\ ledger[c] = "exercised"
      /\ Behind(c, {"peer"}) => Fit(c)

(* Once tee has ended, the suite and its log stand still, so that the two  *)
(* jobs judge the same run whichever of them comes first.                  *)
TheLogIsOver == [][log.tee # "none" => UNCHANGED <<vars, logVars>>]_suiteVars

=============================================================================
