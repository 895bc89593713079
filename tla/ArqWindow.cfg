\* A host in PSN order across the PSN wrap; the burst is smaller than the
\* window, as in the code; four packets overtake a window of three.
SPECIFICATION Spec
CONSTANTS
  MAX_PSN = 16
  WINDOW_SIZE = 3
  MAX_RETX_BURST = 2
  MAX_RETRY_COUNT = 1
  RETRY_TIMEOUT = 0
  CTR_MOD = 6
  RETRY_MOD = 3
  TX_RING_SIZE = 2
  FirstPsn = 14
  InOrderHost = TRUE
  MaxLan = 4
  Mbufs = {m1, m2, m3}
  NULL = NULL
SYMMETRY Symmetry
INVARIANTS TypeOK SlotOwnership RefcountExact InFlightReachable AckIsCumulative NackRetransmitsWithinBurst
