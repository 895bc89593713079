\* Up to two --peer options for a table of one; two LAN lcores and a WAN lcore.
SPECIFICATION MainSpec
CONSTANTS
  OctetBits = 2
  MAX_PEERS = 1
  PeerOptions <- TwoMappings
  Peers = {1, 2}
  MaxOptions = 2
  EalLcores <- SomeLcores
  LanCores = 2
  WanCores = 1
  ArpInterval = 1
  TSC_MOD = 16
  MaxTime = 4
CHECK_DEADLOCK FALSE
INVARIANTS TypeOK TableHoldsOptions LcoresTypeOK QueuesServed PoolUntilSignal ArpRequestsBounded
 
