CONSTANTS
  w1 = w1
  w2 = w2
  short = short
  go = go
  a = a
  b = b
  NoWriter = NoWriter
  Writer = {w1, w2}
  Reader = {short, go}
  GoReader = {go}
  Word = {a, b}
  ZeroWord = a
  Capacity = 2
  Available <- MCAvailable
  MaxRevision = 3
SPECIFICATION FairSpec
INVARIANTS SnapshotFitsCaller NoTornSnapshot RevisionCountsCommits
PROPERTIES ImplementsAtomicPartition SnapshotReturns ReadersCatchUp
