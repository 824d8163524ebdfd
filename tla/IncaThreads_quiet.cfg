SPECIFICATION QuietSpec
CONSTANTS
  w1 = w1
  w2 = w2
  Worker <- Two
  Program <- Gradients211
  MAX_AGTR_COUNT = 1
  DPDK_KEY_TOTAL = 2
  NO_CPUBUFF_COPY = FALSE
  TOTAL_AGTR_CNT = 1
SYMMETRY Symmetry
PROPERTY RxThreadIsAtomic
CHECK_DEADLOCK FALSE
