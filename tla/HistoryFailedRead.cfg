SPECIFICATION Spec
CONSTANTS
  Devices = {d1, d2}
  Ops = {o1, o2}
  Missing = Missing
  Unknown = Unknown
  Failed = Failed
INVARIANTS
  WritesFollowSuccessfulReads
CHECK_DEADLOCK FALSE
