\* Two writers of two contents, a purge between collections, every fault, fair scheduling.
CONSTANTS
  h1 = h1  h2 = h2  r1 = r1  w1 = w1  w2 = w2
  Hashes = {h1, h2}
  NoHash = NoHash
  Refs = {r1}
  Writers = {w1, w2}
  Faults = {"io", "cleanup", "crash", "power"}
SPECIFICATION PurgeFairSpec
INVARIANT StoredIsDurable
INVARIANT NoUnexplainedHole
PROPERTY PurgeAloneRemoves
PROPERTY TombstoneForever
PROPERTY WriterReturns
