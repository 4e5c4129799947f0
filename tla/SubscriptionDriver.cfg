SPECIFICATION FairSpec
CONSTANTS
  a = a b = b add = add addOther = addOther drop = drop
  g1 = g1 g2 = g2 g3 = g3
  Uris = {a, b}
  Callers = {add, addOther, drop}
  Change <- MCChange
  Gens = {g1, g2, g3}
  NoGen = NoGen Reconnect = Reconnect Nobody = Nobody
  AckTimeout = TRUE
  MaxDrops = 2
CHECK_DEADLOCK FALSE
INVARIANTS NoOrphanListen ListenMatchesCallers DropIsRetried
PROPERTIES CallsSettle
