SPECIFICATION Spec
CONSTANTS
  Requests <- MCRequests
  Ids <- MCIds
  IdOf <- MCIdOf
  MaxConcurrentRequests = 1
  MaxQueuedRequests = 2
CHECK_DEADLOCK FALSE
INVARIANTS OneInFlightPerId AnsweredOnce ClosedTellsEveryone
