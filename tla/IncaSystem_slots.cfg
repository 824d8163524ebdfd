SPECIFICATION Spec
CONSTANTS
  w1 = w1
  w2 = w2
  Worker <- Workers
  Program <- Gradients21
  MAX_AGTR_COUNT = 2
  DPDK_KEY_TOTAL = 4
  NO_CPUBUFF_COPY = FALSE
  TOTAL_AGTR_CNT = 3
SYMMETRY Symmetry
INVARIANTS
  FinishInv
CHECK_DEADLOCK FALSE
