SPECIFICATION Spec
CONSTANTS
  scratch = scratch
  namespace = namespace
  Daemon = Daemon
  NilHook = NilHook
  NoWait = NoWait
  Leftovers <- TwoLeftovers
  Hooks <- FourHooks
  Hosts <- AllHosts
  MaxRuns = 2
  MinDeadline = 3
  MinInterval = 1
  MaxCall = 1
  MaxLag = 1
INVARIANTS
  IInv
  SteadyIsFound
  GivesUpInTime
  ReportNamesLeftovers
  DaemonLeftHasReason
PROPERTY
  EndsUnlessHeld
