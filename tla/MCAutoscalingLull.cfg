\* autoscaling.py:70-71 on brief lulls.
CONSTANTS
  Loads <- MCTwoLoads
  Bounds <- MCBounds
  UsableRate = 2
  DrainTokens = 3
  Cooldown = 2
  Window = 2
  MaxAge = 3
  NoSample = NoSample
SPECIFICATION Spec
PROPERTIES
  LullLastsTheWindow
