SPECIFICATION MCSpec
CONSTANTS
    r1 = r1
    r2 = r2
    raw1 = raw1
    rep1 = rep1
    out1 = out1
    Run = {r1}
    Raw = {raw1}
    RawOf <- MCRawOf
    Report = {rep1}
    Outside = {out1}
    All = All
    None = None
    MaxPending = 1
    MaxOps = 2
    MaxTrouble = 2
INVARIANTS NothingLost RestIsWhole CrashesAreSurvived
CHECK_DEADLOCK FALSE
