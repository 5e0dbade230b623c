\* A ready plan whose fleet cannot be placed.
CONSTANTS
  Gpus <- SixGpus
  Replicas <- Planners
  Inventories <- Unused
  Requests <- Unused
  Plans <- MCPlans
  WorseCanary <- MCWorseCanary
  OtherBounds <- OtherTokenBounds
  Warm = {1, 2}
  RequiredWorkloads <- BothClasses
  Benchmark <- MCBenchmark
  CapacityRequirements <- MCCapacityRequirements
  BaselineRelease <- MCBaseline
  ReleaseRequirements <- MCReleaseRequirements
  ScalingBounds <- MCScalingBounds
  ScalingUsableRate = 75
  Benign = 5
  Oversize = 90
  LiveTokens = 82
SPECIFICATION FleetSpec
CHECK_DEADLOCK FALSE
INVARIANTS
  ReadyFleetExists
