SPECIFICATION FairSpec
CONSTANTS
  o1 = o1 o2 = o2 o3 = o3 r1 = r1 r2 = r2
  a = a ab = ab ka = ka kb = kb v = v none = none
  Payloads = {a}
  Keys = {ka}
  KeysOf <- MCKeySingle
  Values = {v}
  NoValue = none NoPayload = NoPayload NoRecord = NoRecord
  Supported = {a}
  Ops = {o1, o2, o3}
  Holds <- MCHoldsEach
  Recoverers = {r1}
  RecoverGiven = {TRUE}
  HasTTL = TRUE
  SettleAttempts = 1
  MaxFaults = 1
  MaxCrashes = 0
  MaxTouches = 0
CHECK_DEADLOCK FALSE
PROPERTIES WaitersSettle CancelReachesWork
