\* An index of three pages of which an enumeration reads two, no fault.
CONSTANTS
  d1 = d1  d2 = d2
  Docs = {d1, d2}
  Leaving = {}
  PageOf <- MCPageOf
  LastPage = 3
  PageLimits = {2}
  MissedSweeps = 3
  SilentSweeps = 3
  NoDoc = NoDoc
  Faults = {}
SPECIFICATION SweepSpec
INVARIANT ListedNeverWithdrawn
