\* Two processes on one data directory, killed anywhere, two releases, one edited file.
CONSTANTS
  p1 = p1  p2 = p2  p3 = p3
  Pids = {p1, p2}
  Openers = {p1, p2}
  NoLock = NoLock
  PidsReturn = FALSE
  NoWriter = NoWriter
  Oldest = 1
  Newest = 2
  Texts = {"published", "edited"}
  Published = "published"
  Failing <- MCFailing
  Damaging = {}
  StartFaults = {"io", "kill"}
SPECIFICATION StartupFairSpec
INVARIANT RefusedByHolder
INVARIANT SchemaIsRecorded
INVARIANT ReadyKnowsSchema
INVARIANT WorkIsExclusive
PROPERTY RecordedForever
PROPERTY StartEnds
