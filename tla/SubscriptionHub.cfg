SPECIFICATION HubFairSpec
CONSTANTS
  l1 = l1 l2 = l2
  Listens = {l1, l2}
  MaxEvents = 3
  TaskEvents = {3}
  Filters = {{1, 2, 3}}
  MaxPending = 2
  MaxFaults = 1
CHECK_DEADLOCK FALSE
INVARIANTS EntryIsServed NothingLostSilently
PROPERTIES ChangesArrive GracefulEndSettles
