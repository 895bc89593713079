\* An ARQ ACK at a WAN core.
SPECIFICATION Spec
CONSTANTS
  MAX_PSN = 8
  WINDOW_SIZE = 2
  MAX_RETX_BURST = 1
  MAX_RETRY_COUNT = 1
  RETRY_TIMEOUT = 0
  CTR_MOD = 8
  RETRY_MOD = 3
  Mbufs <- AllMbufs
  NULL = NULL
  LanCores = {lan}
  WanCores = {wan}
  QPNs = {5, 6}
  LanCoreOf <- OneLanCore
  MAX_QP_CTX = 2
  BUFFER_HIGH_WATER = 75
  BUFFER_LOW_WATER = 50
  CONGESTION_CHECK_INTERVAL = 2
  CNP_TIMER = 1
  MaxLan = 4
INVARIANT AckReachesWindow
