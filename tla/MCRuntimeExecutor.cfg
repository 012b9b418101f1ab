SPECIFICATION FairSpec
CONSTANTS
  Run = {r1, r2}
  Poll = {p1, p2, p3}
  Identity = {i1, i2}
  None = None
  MaxFaults = 2
INVARIANTS NothingInDoubtForgotten EveryRunHasAKeeper EngineKnowsWhatIsRecorded
PROPERTIES StopIsCarriedOut CallsReturn
CHECK_DEADLOCK FALSE
