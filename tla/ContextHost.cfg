SPECIFICATION FairSpec
CONSTANTS
  k = k i1 = i1 i2 = i2 i3 = i3 s = s t = t c1 = c1 c2 = c2
  Nobody = Nobody
  Keys = {k}
  Instances = {i1, i2}
  Tools = {s, t}
  Offers <- MCOffers
  Changes = {c1}
CHECK_DEADLOCK FALSE
INVARIANTS NoOrphan AddedContextStays OffersOwnTools
PROPERTIES FailedAddLeavesNothing
