------------------------- MODULE MCDaemonLifecycle -------------------------
(* Small instances of DaemonLifecycle for TLC. *)
EXTENDS DaemonLifecycle, TLC

CONSTANTS t1, t2, p1, p2, body1, body2

OneTest      == {t1}
TwoTests     == {t1, t2}
OnePort      == {p1}
TwoPorts     == {p1, p2}
NoPorts      == {}
OneCaller    == {Cleanup}
ThreeCallers == {body1, body2, Cleanup}

=============================================================================
