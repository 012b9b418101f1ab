SPECIFICATION RunsSpec
CONSTANTS
  Parts = {"session", "table", "release"}
  \* AppSession
  Process = {a, b}
  NoProcess = NoProcess
  MaxSessions = 4
  MaxFailures = 2
  \* ResultTable
  Flows = {1, 2}
  Asked <- MCAsked
  MaxCount = 2
  VisibleRows = 2
  ChunkRows = 1
  MaxQueryRuns = 2
  MaxShown = 2
  \* ContinuousRelease
  None = None
  MaxCommit = 3
  Builds = {c1, c2}
  Ids = {1, 2}
  MaxRuns = 4
  MaxFaults = 3
  MaxActions = 12
INVARIANTS UncleanIsReported TableIsOneOutcome PublicIsWhole CleanRunsConverge
PROPERTIES GrowthIsSinceShown TagMovesForward
CHECK_DEADLOCK FALSE
