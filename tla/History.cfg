SPECIFICATION FairSpec
CONSTANTS
  Devices = {d1, d2}
  Ops = {o1, o2}
  Missing = Missing
  Unknown = Unknown
  Failed = Failed
INVARIANTS
  HistoryTypeOK
  HistoryComplete
  AcknowledgedKept
PROPERTIES
  ReadsOwnWrites
  VisitsArrive
CHECK_DEADLOCK FALSE
