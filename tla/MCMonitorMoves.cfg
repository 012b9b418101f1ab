SPECIFICATION Spec
CONSTANTS
  Addr = {a1}
  Device = {c1, c2}
  Flow = {f1, f2}
  None = None
  MaxObservations = 2
  MaxEpoch = 0
  CloseAfter = 2
  BackoffSteps = 1
SYMMETRY Symmetry
INVARIANTS EvidenceKept MissedOnEvidence ChangedOnEvidence
