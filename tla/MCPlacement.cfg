\* Three racing planners, every mix of requests, three small clusters.
CONSTANTS
  m = m
  n = n
  Gpus <- MCGpus
  Inventories <- MCInventories
  Requests <- MCRequests
  Replicas <- Planners
SPECIFICATION Spec
CHECK_DEADLOCK FALSE
INVARIANTS
  NeverOversubscribed
  GroupsStayTogether
  RefusalsHold
PROPERTIES
  ColdLoadsForced
  EveryReplicaAnswered
