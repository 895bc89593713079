\* Two QPs over a wire that neither loses nor reorders: more packets than slots.
SPECIFICATION Spec
CONSTANTS
  MAX_PSN = 16
  JB_MAX_SEGMENTS = 2
  JB_MAX_PENDING_WRITES = 2
  UINT_MOD = 8
  QPNs = {5, 6}
  Stream <- TwoWrites
  FirstPsn <- StartAtWrap
  Channel = "fifo"
  Locks = {"recursive"}
  Mbufs = {1, 2, 3, 4}
  MaxRx = 6
  NONE = NONE
PROPERTIES DeliversWholeWrites
