\* Every workload of four requests, simulated twice.
CONSTANTS
  Ids <- MCIds
  Arrivals <- MCArrivals
  Outputs <- MCOutputs
  Capacities <- MCCapacities
  Shift = 2
SPECIFICATION CompareSpec
CHECK_DEADLOCK FALSE
INVARIANTS
  WithinCapacity
  FirstComeFirstServed
  StaticBatchesDrain
  NoLaneIdle
  SpanIsFirstArrivalToLastCompletion
  ContinuousNeverLater
  ShiftChangesNothing
PROPERTIES
  BothCallsReturn
