SPECIFICATION FairSpec
CONSTANTS
  r1 = r1 r2 = r2
  Requests = {r1, r2}
  NoteCount = 2
CHECK_DEADLOCK FALSE
INVARIANTS SetupReadIsOver SetupKeepsFrames
PROPERTIES SetupEnds CloseSettles
