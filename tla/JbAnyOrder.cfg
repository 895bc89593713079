\* A QP and QPN 0 compete for one context over a wire that loses, repeats and
\* reorders, across the PSN wrap; the lock as it is and as its caller takes it;
\* four mbufs for five packets.
SPECIFICATION Spec
CONSTANTS
  MAX_PSN = 16
  JB_MAX_SEGMENTS = 4
  JB_MAX_PENDING_WRITES = 1
  UINT_MOD = 8
  QPNs = {0, 5}
  Stream <- LongAndShort
  FirstPsn <- StartAtWrap
  Channel = "any"
  Locks = {"spinlock", "recursive"}
  Mbufs = {m1, m2, m3, m4}
  MaxRx = 5
  NONE = NONE
SYMMETRY MbufSymmetry
INVARIANTS TypeOK TableExact ExpectedIsPrefix NackNamesFirstMissing MbufsAccounted NothingDeliverableWaits BatchContiguous AckNamesOffered
