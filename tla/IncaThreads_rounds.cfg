SPECIFICATION ThreadsSpec
CONSTANTS
  w1 = w1
  w2 = w2
  Worker <- Two
  Program <- Gradients111
  MAX_AGTR_COUNT = 1
  DPDK_KEY_TOTAL = 3
  NO_CPUBUFF_COPY = FALSE
  TOTAL_AGTR_CNT = 1
SYMMETRY Symmetry
INVARIANT SameRoundSameKey
CHECK_DEADLOCK FALSE
