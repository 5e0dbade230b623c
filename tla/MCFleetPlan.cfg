\* From the workload mix to placed replicas, on every shape of a six device
\* cluster, and each plan again with one input made worse.
CONSTANTS
  Gpus <- SixGpus
  Replicas <- Planners
  Inventories <- Unused
  Requests <- Unused
  Plans <- MCPlans
  WorseCanary <- MCWorseCanary
  OtherBounds <- OtherTokenBounds
  Warm = {1, 2}
  RequiredWorkloads <- BothClasses
  Benchmark <- MCBenchmark
  CapacityRequirements <- MCCapacityRequirements
  BaselineRelease <- MCBaseline
  ReleaseRequirements <- MCReleaseRequirements
  ScalingBounds <- MCScalingBounds
  ScalingUsableRate = 75
  Benign = 5
  Oversize = 90
  LiveTokens = 82
SPECIFICATION FleetSpec
CHECK_DEADLOCK FALSE
INVARIANTS
  TensorReplicasPlaceable
  PlacedWhatFits
  FitMeansConcurrency
  SmallestSufficientFleet
  ScalingAgreesWithPlan
PROPERTIES
  CounterfactualsFail
