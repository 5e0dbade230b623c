\* Budget 3 with requests of 1 or 2 tokens: two or three of the callers fit
\* at once, the next is queued, the one after that is shed.
CONSTANTS
  a = a
  b = b
  c = c
  blank = blank
  Ids <- MCIds
  BlankIds <- MCBlankIds
  TokenCounts <- MCTokenCounts
  Times <- MCTimes
  Waits <- MCWaits
  MaxLiveTokens = 3
  MaxQueuedRequests = 1
  MaxTokensPerRequest = 2
SPECIFICATION Spec
SYMMETRY Callers
INVARIANTS
  TypeOK
  CountersMatchTable
  WithinPolicy
PROPERTIES
  ShedPermanent
  DecisionsStick
  NoRoomWasted
  ImplementsLedger
