SPECIFICATION Spec
CONSTANTS
  o1 = o1 o2 = o2 o3 = o3 r1 = r1 r2 = r2
  a = a ab = ab ka = ka kb = kb v = v none = none
  Payloads = {ab}
  Keys = {ka, kb}
  KeysOf <- MCKeysOne
  Values = {v}
  NoValue = none NoPayload = NoPayload NoRecord = NoRecord
  Supported = {ab}
  Ops = {o1, o2}
  Holds <- MCHoldsAll
  Recoverers = {r1, r2}
  RecoverGiven = {TRUE, FALSE}
  HasTTL = TRUE
  SettleAttempts = 2
  MaxFaults = 1
  MaxCrashes = 1
  MaxTouches = 1
CHECK_DEADLOCK FALSE
SYMMETRY Slots
INVARIANTS ActiveTaskHasWork
PROPERTIES ImplementsLifecycle RecoveryIsExclusive
