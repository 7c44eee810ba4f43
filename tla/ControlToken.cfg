\* Two daemons that may share a home or a token file, with the operator's home
\* among the homes, and programs run against them.
SPECIFICATION Spec
CONSTANTS
  Daemons = {d1, d2}
  Homes <- MCHomes
  Other = Other
  Relative = Relative
  Operator = Operator
  Temp = Temp
  Extras <- MCExtras
  Ambient <- MCAmbient
INVARIANTS IInv MutationsAuthenticate NoForeignToken
\* The daemons of a run are spawned once each, and the run ends.
CHECK_DEADLOCK FALSE
