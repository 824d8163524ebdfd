SPECIFICATION Spec
CONSTANTS
  s = s
  h1 = h1
  h2 = h2
  p = p
  Scheduler = s
  Clusters <- SmallClusters
  Machines <- SmallMachines
  local_size = 2
  Bindings = {"off", "auto", "user"}
  UserCores <- TwoSections
  MaxFailures = 1
INVARIANTS
  CoresAreOwn
  NoFailureIsSwallowed
PROPERTY LaunchersReturn
CHECK_DEADLOCK FALSE
