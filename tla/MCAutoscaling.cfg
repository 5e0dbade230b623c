\* A window of two ticks, samples kept for one tick more, lost scrapes.
CONSTANTS
  Loads <- MCLoads
  Bounds <- MCBounds
  UsableRate = 2
  DrainTokens = 3
  Cooldown = 2
  Window = 2
  MaxAge = 3
  NoSample = NoSample
SPECIFICATION Spec
PROPERTIES
  TargetWithinBounds
  RecentPeakKept
  NoRaiseInsideCooldown
  NoCutBeforeAWindow
  Settles
