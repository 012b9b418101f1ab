SPECIFICATION InputsSpec
CONSTANTS
  Parts = {"hosts", "replies", "report", "replace", "count"}
  p1 = p1  p2 = p2
  \* KnownHosts
  Proc = {p1, p2}
  Host = {h1, h2}
  Algorithm = {rsa, ed}
  Bits = {b1}
  Nobody = Nobody
  MaxForget = 1
  \* TableReadings, DeviceTables, OfflineReport
  RowKeys = {1, 2, 3}
  Unmanaged = {2}
  RowLimit = 3
  FileLimit = 18
  LineLimit = 17
  ChunkLines = 4
  FlushLines = 3
  RecordLimit = 1
  Captures <- MCCaptures
  \* DurableReplace
  MaxTries = 3
  MaxWrites = 3
  MaxHolds = 3
  \* StorageReconcile
  RawFile = {f1, f2}
  Us = Us  Them = Them
  MaxReconciled = 2
  MaxDeletions = 1
SYMMETRY Symmetry
INVARIANTS NeverMisread ResultIsTrue
PROPERTIES OnlyApprovedKeysAdded KnownKeysStay OnlyTheLatestChangesAreLost OrphansAreCounted
CHECK_DEADLOCK FALSE
