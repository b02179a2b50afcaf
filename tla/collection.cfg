\* Two collections of the same document; a crash, a power loss, an I/O error or a sweep of tmp/ at any step.
CONSTANTS
  d1 = d1  h1 = h1  h2 = h2  w1 = w1  w2 = w2
  Docs = {d1}
  NoDoc = NoDoc
  Hashes = {h1, h2}
  NoHash = NoHash
  Writers = {w1, w2}
  Faults = {"io", "cleanup", "crash", "power"}
  MaxVersion = 2
  Refs <- MCRefs
SPECIFICATION CollectionSpec
INVARIANT IndexConsistent
INVARIANT IndexedHasBytes
PROPERTY NoPhantomReference
PROPERTY ImplementsArchive
SYMMETRY MCSymmetry
