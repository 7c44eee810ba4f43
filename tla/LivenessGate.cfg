SPECIFICATION SuiteSpec
CONSTANTS
  handshake = handshake
  serveLane = serveLane
  publication = publication
  NoSmoke = NoSmoke
  Word = Word
  NoVersion = NoVersion
  Smokes <- SomeSmokes
  Gates <- SomeGates
  PeerOf <- SomePeers
  Pin <- Pins
  Versions <- SomeVersions
  Canaries <- SomeCanaries
  Floor = 1
  MaxPlain = 1
INVARIANTS
  SuiteIInv
  GreenRunDroveTheSUT
  RedRunHasReason
  PeerIsFit
  HermeticGreenIsComplete
  ShortRunsNothingLive
  GreenJobDroveCanaries
PROPERTY
  ImplementsGate
