SPECIFICATION Spec
CONSTANTS
  w1 = w1
  w2 = w2
  Worker <- Workers
  Program <- Gradients2
  RouteTo <- Nobody
  MAX_AGTR_COUNT = 1
  DPDK_KEY_TOTAL = 2
  NO_CPUBUFF_COPY = FALSE
  CIRC_TIME = 2
  total_aggregator_cnt = 3
SYMMETRY Symmetry
INVARIANT EveryChunkIsSummed
CHECK_DEADLOCK FALSE
