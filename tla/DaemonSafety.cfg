SPECIFICATION FairSpec
CONSTANTS
  t1 = t1
  t2 = t2
  p1 = p1
  p2 = p2
  body1 = body1
  body2 = body2
  Cleanup = Cleanup
  Nobody = Nobody
  Foreign = Foreign
  Tests <- OneTest
  Callers <- ThreeCallers
  Ports <- TwoPorts
  ForeignPorts <- TwoPorts
INVARIANTS
  IInv
  FailedSpawnLeavesNoChild
  StopMeansReaped
  HomeRemovedAfterWriters
PROPERTIES
  NothingStartsOver
  ImplementsSession
  HangsOnlyOnHeldPipe
