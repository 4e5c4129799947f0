SPECIFICATION FairSpec
CONSTANTS
  a = a b = b e1 = e1 e2 = e2
  Nobody = Nobody
  Runs = {a}
  Elicits = {e1, e2}
  Messages <- TwoCalls
  MaxIterations = 1
  MaxAborts = 1
CHECK_DEADLOCK FALSE
INVARIANTS StoryIsOrdered NothingLeftBehind
PROPERTIES BarrierOpens AbortEndsRun DisposeReleases
