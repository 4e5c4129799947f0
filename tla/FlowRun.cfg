SPECIFICATION FairSpec
CONSTANTS
  form = form url = url other = other Approval = Approval
  Keys = {form, url, other}
  Kind <- MCKind
  HasTTL = TRUE
  MaxAsked = 1
  MaxTroubles = 1
CHECK_DEADLOCK FALSE
PROPERTIES InboxMatchesTask ImplementsLifecycle FollowsTask CancelEndsRun
