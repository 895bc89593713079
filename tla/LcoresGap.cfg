\* The same gateway, without options.
SPECIFICATION MainSpec
CONSTANTS
  OctetBits = 2
  MAX_PEERS = 1
  PeerOptions <- TwoMappings
  Peers = {1, 2}
  MaxOptions = 0
  EalLcores <- SomeLcores
  LanCores = 2
  WanCores = 1
  ArpInterval = 1
  TSC_MOD = 16
  MaxTime = 4
CHECK_DEADLOCK FALSE
INVARIANT EveryQueueRead
