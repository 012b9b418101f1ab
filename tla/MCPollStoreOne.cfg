SPECIFICATION FairSpec
CONSTANTS
  x1 = x1  x2 = x2  r1 = r1  r2 = r2  p1 = p1  p2 = p2  d1 = d1  d2 = d2
  Proc = {x1}
  Run = {r1, r2}
  Poll = {p1, p2}
  Payload = {d1, d2}
  RawPayload = {d1}
  RunOf <- TwoRuns
  NoPayload = NoPayload
  Nobody = Nobody
  Attempts = 3
  MaxFaults = 2
INVARIANTS LeftoversAnchored
PROPERTIES UpMeansReconciled CallsReturn
