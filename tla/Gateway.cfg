\* Three packets, the last of them with PSN 0; a window of two, and a jitter
\* buffer of two segments.
SPECIFICATION Spec
CONSTANTS
  MAX_PSN = 8
  WINDOW_SIZE = 2
  MAX_RETX_BURST = 2
  MAX_RETRY_COUNT = 1
  RETRY_TIMEOUT = 0
  CTR_MOD = 8
  RETRY_MOD = 3
  Mbufs = {1, 2, 3}
  NULL = 0
  JB_MAX_SEGMENTS = 2
  QPN = 5
  Streams <- SomeStreams
  FirstPsn = 6
  MaxCopies = 2
  NONE = NONE
INVARIANTS TypeOK ReleasedUpToOffered
