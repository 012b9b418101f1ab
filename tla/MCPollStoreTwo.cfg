SPECIFICATION FairSpec
CONSTANTS
  x1 = x1  x2 = x2  r1 = r1  r2 = r2  p1 = p1  p2 = p2  d1 = d1  d2 = d2
  Proc = {x1, x2}
  Run = {r1}
  Poll = {p1}
  Payload = {d1}
  RawPayload = {d1}
  RunOf <- Single
  NoPayload = NoPayload
  Nobody = Nobody
  Attempts = 3
  MaxFaults = 3
INVARIANTS ReportsAreTrue NothingToRefuse
PROPERTIES OnlyAbandonedInterrupted LogSpec StartupEnds
