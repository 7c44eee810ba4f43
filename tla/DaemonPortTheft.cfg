SPECIFICATION Spec
CONSTANTS
  t1 = t1
  t2 = t2
  p1 = p1
  p2 = p2
  body1 = body1
  body2 = body2
  Cleanup = Cleanup
  Nobody = Nobody
  Foreign = Foreign
  Tests <- TwoTests
  Callers <- OneCaller
  Ports <- OnePort
  ForeignPorts <- NoPorts
INVARIANTS
  UrlServedByChild
