----------------------------- MODULE TailBuffer -----------------------------
(***************************************************************************)
(* What a LogTail promises: a reader sees the last Cap bytes of everything *)
(* written, in the order in which it was written.  LogTail implements it.  *)
(***************************************************************************)
EXTENDS Integers, Sequences

CONSTANTS
  Cap,    \* how many bytes are retained
  Chunks  \* what may be passed to one Write

VARIABLES
  tail,   \* what a reader sees
  arg     \* what the last Write was passed

vars == <<tail, arg>>

(* The last n elements of s, or all of s when it is shorter. *)
LastOf(s, n) == IF Len(s) <= n THEN s ELSE SubSeq(s, Len(s) - n + 1, Len(s))

Init == tail = <<>> /\ arg = <<>>

Write(p) ==
  /\ arg' = p
  /\ tail' = LastOf(tail \o p, Cap)

Next == \E p \in Chunks : Write(p)

Spec == Init /\ [][Next]_vars

=============================================================================
