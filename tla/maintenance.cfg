\* One collection at a time, two documents that may share their content; the index is lost and rebuilt, verified by single objects.
CONSTANTS
  d1 = d1  d2 = d2  h1 = h1  h2 = h2  w1 = w1
  Docs = {d1, d2}
  NoDoc = NoDoc
  Hashes = {h1, h2}
  NoHash = NoHash
  Writers = {w1}
  Faults = {"cleanup"}
  MaxVersion = 2
  Refs <- MCRefs
  Rank <- MCRank
  BatchSize = 1
  Decaying = {h2}
SPECIFICATION MaintenanceSpec
INVARIANT StoreSelfSufficient
INVARIANT VerifyCoversIndex
PROPERTY RebuiltIndex
