SPECIFICATION Spec
CONSTANTS
  Addr = {a1, a2}
  Device = {c1}
  Flow = {f1, f2}
  None = None
  MaxObservations = 1
  MaxEpoch = 1
  CloseAfter = 3
  BackoffSteps = 2
INVARIANTS LocationIsCurrent
PROPERTIES GoneFlowsAreClosed
