SPECIFICATION FairSpec
CONSTANTS
  Requests <- MCThree
  Ids <- MCIds
  IdOf <- MCDistinctId
  MaxConcurrentRequests = 1
  MaxQueuedRequests = 1
CHECK_DEADLOCK FALSE
PROPERTIES DisposeCompletes NoStarvation
