\* Any configuration that is started.
SPECIFICATION Spec
CONSTANTS
  OctetBits = 2
  MAX_PEERS = 2
  PeerOptions <- SomeOptions
  Peers = {p1, p2}
  MaxOptions = 3
CHECK_DEADLOCK FALSE
INVARIANT ConfiguredPeerUsed
