SPECIFICATION FairSpec
CONSTANTS
  w1 = w1
  w2 = w2
  Worker <- Workers
  Program <- Gradients11
  MAX_AGTR_COUNT = 1
  DPDK_KEY_TOTAL = 2
  NO_CPUBUFF_COPY = FALSE
  TOTAL_AGTR_CNT = 1
CHECK_DEADLOCK FALSE
PROPERTY EveryTaskFinishes
