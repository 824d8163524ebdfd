SPECIFICATION LosslessSpec
CONSTANTS
  w1 = w1
  w2 = w2
  w3 = w3
  Worker <- Three
  NormProgram <- Calls01
  Norm <- Norms
  MAX_AGTR_COUNT = 1
  NORM_SLOT = 1
  TOTAL_AGTR_CNT = 2
INVARIANTS
  NormTypeOK
  NormNotForgotten
  NormInv
PROPERTIES
  ImplementsAllReduce
  EveryNormCallReturns
CHECK_DEADLOCK FALSE
