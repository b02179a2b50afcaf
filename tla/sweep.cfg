\* An index of two pages, a document on each, one of them may leave; every interruption, fair scheduling.
CONSTANTS
  d1 = d1  d2 = d2
  Docs = {d1, d2}
  Leaving = {d2}
  PageOf <- MCPageOf
  LastPage = 2
  PageLimits = {1, 3}
  MissedSweeps = 2
  SilentSweeps = 2
  NoDoc = NoDoc
  Faults = {"error", "crash"}
SPECIFICATION SweepFairSpec
INVARIANT ListedNeverWithdrawn
PROPERTY VisibilityFollowsListing
