SPECIFICATION Spec
CONSTANTS
  w1 = w1
  w2 = w2
  p1 = p1
  p2 = p2
  Worker <- Workers
  Param <- Parameters
  Styles = {"step", "skip"}
  Branches <- LayerSkipped
  backward_passes_per_step = 2
  Steps = 2
  LocalNorm <- LocalNorms
  Root = w1
  SameBranches = TRUE
  Bytes <- AroundThreshold
  MIN_COMPRESS = 8
  HalfPasses = 1
  Schedules <- Unfreezing
  Forward <- CrossPasses
  final_step = 3
  Momentum = TRUE
  Replicas = 2
  MergeCalls = 2
INVARIANTS
  AppliedIsAverage
  HookNeverRaises
  HandlesAccountedFor
  ForwardReadsUpdated
  UpdatesAreSynchronous
  StartsFromRoot
  UpdatedOnceWithEverything
  ReplicasAgree
PROPERTY TrainingFinishes
CHECK_DEADLOCK FALSE
