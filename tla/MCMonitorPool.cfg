SPECIFICATION Spec
CONSTANTS
  Target = {t1}
  None = None
  MaxConnections = 1
  Entries = 2
  Conns = 2
  MaxPolls = 2
  MaxEmptied = 1
  MaxTrust = 1
INVARIANTS NoConnectionLost CancelWakes
PROPERTY PollsEnd
CHECK_DEADLOCK FALSE
