--------------------------- MODULE MCSourceLocate ---------------------------
(***************************************************************************)
(* SourceLocate for TLC: three directories, a walk of two of them; the     *)
(* nearest sibling is being cloned, the next one and the variable's        *)
(* directory are being removed.                                            *)
(***************************************************************************)
EXTENDS SourceLocate

MCCloning == {1}
MCRemoving == {2, EnvPlace}
MCStill == {{}, {"dir", "entry"}, Facts}
=============================================================================
