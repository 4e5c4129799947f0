SPECIFICATION Spec
CONSTANTS
  r1 = r1 r2 = r2
  Nobody = Nobody Initialize = Initialize Get = Get
  Requests = {r1}
  NoteCount = 2
  HighWater = 1
  ReplaySize = 2
  MaxCuts = 1
CHECK_DEADLOCK FALSE
PROPERTIES ResumeLosesNothing
