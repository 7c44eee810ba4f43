--------------------------- MODULE MCLivenessGate ---------------------------
(* Live smokes of the package for TLC, gate by gate as they are written.   *)
EXTENDS SuiteGates, TLC

CONSTANTS handshake, serveLane, publication

(* step20 (handshake): the pinned pi, the fixture, the build, node.        *)
(* step18 (serve lane): opencode.  step34 (publication): a consumer module *)
(* of its own, no knob.                                                    *)
SomeSmokes == {handshake, serveLane, publication}

SomeGates ==
  handshake :> <<"short", "knob", "peer", "tool", "source", "probe",
                 "build", "probe", "drive">>
  @@ serveLane :> <<"short", "knob", "peer", "tool", "source", "probe",
                    "build", "drive">>
  @@ publication :> <<"short", "tool", "source", "probe", "drive", "record">>

SomePeers    == [s \in SomeSmokes |-> IF s = serveLane THEN "opencode" ELSE "pi"]
SomeCanaries == {handshake}

(* Versions below, at and above each pin, as numbers, as strings and in    *)
(* length, and one that is no number.                                      *)
Pins        == [p \in {"pi", "opencode"} |-> IF p = "pi" THEN <<0, 80>> ELSE <<1, 9>>]
SomeVersions == {<<0, 80>>, <<0, 80, 0>>, <<0, 9, 1>>, <<1, 8, 9>>, <<1, 9>>, <<1, 10>>,
                 <<1, Word>>}

=============================================================================
