----------------------------- MODULE PeerInstall -----------------------------
(***************************************************************************)
(* The gate "peer" of LivenessGate in detail: EnsurePiBinary               *)
(* (harness/pi_install.go) and EnsureOpenCodeBinary                        *)
(* (harness/opencode_install.go) hand a smoke a CLI that it drives beside  *)
(* the code under test: the operator's, one on PATH, or one that npm       *)
(* installs.  A version is the sequence of its dotted components.          *)
(***************************************************************************)
EXTENDS LivenessGate, Integers

CONSTANTS
  PeerOf,    \* [Smokes -> {"pi", "opencode"}]: whose peer the gate is for
  Pin,       \* [{"pi", "opencode"} -> Version]: the version wanted
  Versions,  \* versions that a CLI may report
  Word,      \* a component that is no number
  NoVersion  \* a CLI that is not there, fails, hangs or reports nothing

Peers   == {"pi", "opencode"}
Version == Seq(Nat \cup {Word}) \ {<<>>}

ASSUME PeerAssumption ==
  /\ Word \notin Nat
  /\ PeerOf \in [Smokes -> Peers]
  /\ Pin \in [Peers -> Version]
  /\ Versions \subseteq Version
  /\ NoVersion \notin Version

VARIABLES
  overridden, \* the peers whose EnvPiBin or EnvOpenCodeBin is set
  peer,       \* how far the helper is, "off" outside it
  handed      \* [Smokes -> Handed]: what it has handed to the smoke

peerVars  == <<overridden, peer, handed>>
peersVars == <<vars, peerVars>>

Nothing == [by |-> "nobody", version |-> NoVersion]
Handed  == [by : {"nobody", "operator", "path", "npm"}, version : Versions \cup {NoVersion}]

PeerInit ==
  /\ Init
  /\ overridden \in SUBSET Peers
  /\ peer = "off"
  /\ handed = [s \in Smokes |-> Nothing]

-----------------------------------------------------------------------------
(* compareDottedVersions: component by component, a missing one and one    *)
(* that is no number counting as 0.                                        *)
Component(v, i) == IF i \notin DOMAIN v \/ v[i] = Word THEN 0 ELSE v[i]
Longer(a, b)    == IF Len(a) < Len(b) THEN Len(b) ELSE Len(a)
Differ(a, b)    == {i \in 1..Longer(a, b) : Component(a, i) # Component(b, i)}
First(S)        == CHOOSE i \in S : \A j \in S : i <= j

(* A slip in compareDottedVersions: the longer version is the newer one.   *)
LengthFirst(a, b) ==
  IF Len(a) # Len(b) THEN (IF Len(a) < Len(b) THEN -1 ELSE 1)
  ELSE IF Differ(a, b) = {} THEN 0
  ELSE LET i == First(Differ(a, b))
       IN  IF Component(a, i) < Component(b, i) THEN -1 ELSE 1

compareDottedVersions(a, b) ==
  IF Differ(a, b) = {} THEN 0
  ELSE LET i == First(Differ(a, b))
       IN  IF Component(a, i) < Component(b, i) THEN -1 ELSE 1

(* What is taken from PATH: pi at the pin, opencode at the pin or above.   *)
GoodEnough(p, v) ==
  /\ v # NoVersion
  /\ IF p = "pi" THEN v = Pin[p] ELSE compareDottedVersions(v, Pin[p]) >= 0

-----------------------------------------------------------------------------
Hands(s, by, v) ==
  /\ handed' = [handed EXCEPT ![s] = [by |-> by, version |-> v]]
  /\ peer' = "off"
  /\ Passes(s)

HelperFrame == UNCHANGED <<runVars, ledger, driven, exit, overridden>>

(* The operator's own binary is taken as it is, whatever its version.      *)
UseOverride(s) ==
  /\ Calls(s, "peer") /\ peer = "off"
  /\ PeerOf[s] \in overridden
  /\ Hands(s, "operator", NoVersion)
  /\ HelperFrame

(* exec.LookPath and one --version, bounded. *)
ProbePath(s) ==
  /\ Calls(s, "peer") /\ peer = "off"
  /\ PeerOf[s] \notin overridden
  /\ \E v \in Versions \cup {NoVersion} :
       IF GoodEnough(PeerOf[s], v)
         THEN Hands(s, "path", v)
         ELSE peer' = "npm" /\ UNCHANGED <<current, next, result, handed>>
  /\ HelperFrame

(* npm is not there: t.Skip, the one end that no ledger sees.              *)
NpmMissing(s) ==
  /\ Calls(s, "peer") /\ peer = "npm"
  /\ Ends(s, "skip") /\ peer' = "off"
  /\ UNCHANGED handed
  /\ HelperFrame

(* A slip in NpmInstall: t.Errorf, which does not end the test.            *)
ErrorGoesOn(s) ==
  /\ Calls(s, "peer") /\ peer = "npm"
  /\ peer' = "installed"
  /\ result' \in {result, [result EXCEPT ![s] = "fail"]}
  /\ UNCHANGED <<current, next, handed>>
  /\ HelperFrame

(* npm install fails, runs into its deadline or leaves no binary:          *)
(* t.Fatalf; or it leaves one.                                             *)
NpmInstall(s) ==
  /\ Calls(s, "peer") /\ peer = "npm"
  /\ \/ Ends(s, "fail") /\ peer' = "off"
     \/ peer' = "installed" /\ UNCHANGED <<current, next, result>>
  /\ UNCHANGED handed
  /\ HelperFrame

(* A slip in CheckInstalled: what npm has installed is not asked.          *)
TrustNpm(s) ==
  /\ Calls(s, "peer") /\ peer = "installed"
  /\ \E v \in Versions \cup {NoVersion} : Hands(s, "npm", v)
  /\ HelperFrame

(* The installed binary must report the pin, to the letter. *)
CheckInstalled(s) ==
  /\ Calls(s, "peer") /\ peer = "installed"
  /\ \E v \in Versions \cup {NoVersion} :
       IF v = Pin[PeerOf[s]]
         THEN Hands(s, "npm", v)
         ELSE Ends(s, "fail") /\ peer' = "off" /\ UNCHANGED handed
  /\ HelperFrame

EnsurePeerBinary(s) ==
  \/ UseOverride(s) \/ ProbePath(s) \/ NpmMissing(s) \/ NpmInstall(s)
  \/ CheckInstalled(s)

PeerNext ==
  \/ \E s \in Smokes : EnsurePeerBinary(s)
  \/ /\ \/ \E s \in Smokes :
             \/ Start(s) \/ OptOut(s) \/ Decline(s) \/ RequireDonmaiSource(s)
             \/ RequireDonmaiBinary(s) \/ RecordItself(s) \/ Drive(s) \/ Pass(s)
        \/ TestMain
        \/ exit # "none" /\ UNCHANGED vars
     /\ UNCHANGED peerVars
  \/ Panics /\ peer' = "off" /\ UNCHANGED <<overridden, handed>>

PeerSpec == PeerInit /\ [][PeerNext]_peersVars

-----------------------------------------------------------------------------
(* Properties.                                                             *)

PeerTypeOK ==
  /\ overridden \in SUBSET Peers
  /\ peer \in {"off", "npm", "installed"}
  /\ handed \in [Smokes -> Handed]

(* Version v is no older than b, read as numbers: where they first differ  *)
(* v has the greater component.                                            *)
NoOlder(v, b) ==
  \A i \in 1..Longer(v, b) :
    (\A j \in 1..(i - 1) : Component(v, j) = Component(b, j))
      => Component(b, i) <= Component(v, i)

Fit(s) ==
  \/ handed[s].by = "operator" /\ PeerOf[s] \in overridden
  \/ handed[s].by = "npm" /\ handed[s].version = Pin[PeerOf[s]]
  \/ handed[s].by = "path" /\ IF PeerOf[s] = "pi" THEN handed[s].version = Pin["pi"]
                              ELSE NoOlder(handed[s].version, Pin["opencode"])

(* No smoke goes past its peer gate without a CLI that fits: the           *)
(* operator's, the pinned version, or for opencode one from PATH that is   *)
(* no older than the pin.                                                  *)
PeerIsFit ==
  \A s \in Smokes : Behind(s, {"peer"}) => Fit(s)

(* The helpers do to the run what the gate of LivenessGate does: they pass,*)
(* fail or skip, they file nothing, and a crash leaves nothing behind.     *)
ImplementsGate == Spec

=============================================================================
