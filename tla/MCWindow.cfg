SPECIFICATION WindowSpec
CONSTANTS
    p1 = p1
    Preview = {p1}
    MaxQueries = 2
    MaxJobs = 2
    MaxReads = 2
    MaxChanges = 1
INVARIANTS PollsAreScheduled DialogsFollowRequests CleanExitLeavesNothing
PROPERTY ClosingEnds
CHECK_DEADLOCK FALSE
