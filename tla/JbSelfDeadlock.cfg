\* The lock as it is.
SPECIFICATION Spec
CONSTANTS
  MAX_PSN = 16
  JB_MAX_SEGMENTS = 4
  JB_MAX_PENDING_WRITES = 1
  UINT_MOD = 8
  QPNs = {5}
  Stream <- LongWrite
  FirstPsn <- StartAtWrap
  Channel = "any"
  Locks = {"spinlock"}
  Mbufs = {m1, m2}
  MaxRx = 6
  NONE = NONE
SYMMETRY MbufSymmetry
INVARIANTS CoreKeepsRunning
