\* Every gate, asked again after each single change of its evidence.
CONSTANTS
  GateNames <- MCGateNames
  Evidence <- MCEvidence
  Measurements <- MCMeasurements
  Ideal <- MCIdeal
  Required <- MCRequired
  FirstRelease <- MCFirstRelease
  FormatBaseline <- MCFormatBaseline
  Traces <- MCTraces
  MaxPromotions = 3
SPECIFICATION Spec
INVARIANTS
  NamedControlsDecide
  ErosionBounded
  P95IsNearestRank
  EmittedSupplied
PROPERTIES
  WorseNeverPasses
