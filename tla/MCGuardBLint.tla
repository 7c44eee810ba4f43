---------------------------- MODULE MCGuardBLint ----------------------------
(***************************************************************************)
(* Two files, one commit and standard input; two rules, the first one with *)
(* a pattern that takes its separators; an allowlist that exempts one      *)
(* identifier of the first rule in one file and in the commit.             *)
(***************************************************************************)
EXTENDS GuardBLint, TLC

CONSTANTS f, g, commit, listed, unlisted, other

MCRuleOf == (listed :> 1) @@ (unlisted :> 1) @@ (other :> 2)

Line(t) == [text |-> t, read |-> t]
Apart    == <<listed, Sep, Sep, unlisted>>
Adjacent == <<listed, Sep, unlisted>>
Mixed    == <<listed, Sep, other>>
MCTextLines == {Line(Apart), Line(Adjacent), Line(Mixed)}

(* Lines with a NUL byte: in a word that nothing forbids, between two      *)
(* identifiers of one, and behind the second identifier of two.            *)
MCLines == MCTextLines \cup
  {[text |-> <<Sep>>, read |-> <<unlisted>>],
   [text |-> Mixed,   read |-> <<unlisted>>],
   [text |-> Apart,   read |-> <<listed, Sep, Sep>>]}

MCAllow ==
  {[rules |-> {1}, at |-> {f, commit}, words |-> {listed, other},
    lines |-> {l.read : l \in Lines}],
   [rules |-> {2}, at |-> {g}, words |-> {other}, lines |-> {Mixed}]}

(* The combinations of arguments that the hook and the workflow use, and   *)
(* files by name.                                                          *)
MCArgs ==
  {a \in Args :
     \/ ~a.staged /\ ~a.all /\ a.named \in {{}, Files} /\ (a.range = "none" \/ ~a.stdin)
     \/ a.staged # a.all /\ a.named = {} /\ a.range = "none" /\ ~a.stdin}

(* The index is the working tree, or a file of it is not tracked; the      *)
(* commit message is what the squash message will be.                      *)
Synced ==
  /\ args \in MCArgs
  /\ said \in {[s \in NonFiles |-> l] : l \in Intact}
  /\ work \in [Files -> Lines \cup {Nothing}]
  /\ index \in {[h \in Files |-> IF h \in t THEN work[h] ELSE Nothing] : t \in SUBSET Files}
  /\ Init
  /\ args.staged \/ staged = TrackedFiles

SyncedSpec == Synced /\ [][Next]_vars

=============================================================================
