--------------------------- MODULE MCControlToken ---------------------------
(***************************************************************************)
(* ControlToken for TLC: two daemons, a temporary directory each could     *)
(* share and the operator's home, and additions to an environment that     *)
(* override the token file, with a path that is absolute or is not, or the *)
(* state home.                                                             *)
(***************************************************************************)
EXTENDS ControlToken

CONSTANT Temp

MCHomes == {Temp, Operator}
MCExtras == {<<>>, <<<<"FILE", Other>>>>, <<<<"FILE", Relative>>>>, <<<<"STATE", Operator>>>>}
MCAmbient == <<<<"HOME", Operator>>>>
=============================================================================
