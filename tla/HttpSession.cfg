SPECIFICATION FairSpec
CONSTANTS
  r1 = r1 r2 = r2
  Nobody = Nobody Initialize = Initialize Get = Get
  Requests = {r1}
  NoteCount = 1
  HighWater = 1
  ReplaySize = 2
  MaxCuts = 2
CHECK_DEADLOCK FALSE
INVARIANTS GetBodyInOrder StreamsAreOwed NothingSlipsUnrecorded
PROPERTIES RequestAnswered SessionCollected
