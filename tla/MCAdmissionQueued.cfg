\* A policy whose per-request bound exceeds the whole live-token budget.
CONSTANTS
  a = a
  b = b
  c = c
  blank = blank
  Ids <- MCIds
  BlankIds <- MCBlankIds
  TokenCounts <- MCTokenCounts
  Times <- MCTimes
  Waits <- MCWaits
  MaxLiveTokens = 1
  MaxQueuedRequests = 1
  MaxTokensPerRequest = 2
SPECIFICATION Spec
PROPERTIES
  QueuedCanEverRun
