SPECIFICATION Spec
CONSTANTS
  w1 = w1
  w2 = w2
  Worker <- Workers
  Program <- Mixed111
  MAX_AGTR_COUNT = 1
  DPDK_KEY_TOTAL = 2
  NO_CPUBUFF_COPY = FALSE
  TOTAL_AGTR_CNT = 1
SYMMETRY Symmetry
INVARIANTS
  TypeOK
  SameRoundSameKey
  ReplyIsFullSum
  AcceptedReplyIsAwaited
  FinishedExactlyOnce
  BufferLocalOrFullSum
  IndInv
PROPERTY RoundAdvancesWithSlot
CHECK_DEADLOCK FALSE
