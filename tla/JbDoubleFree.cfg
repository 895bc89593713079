\* Even in order.
SPECIFICATION Spec
CONSTANTS
  MAX_PSN = 16
  JB_MAX_SEGMENTS = 4
  JB_MAX_PENDING_WRITES = 1
  UINT_MOD = 8
  QPNs = {5}
  Stream <- LongWrite
  FirstPsn <- StartAtWrap
  Channel = "fifo"
  Locks = {"recursive"}
  Mbufs = {m1, m2, m3, m4}
  MaxRx = 6
  NONE = NONE
SYMMETRY MbufSymmetry
INVARIANTS NoPrematureFree
