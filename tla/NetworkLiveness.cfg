SPECIFICATION FairSpec
CONSTANTS
  Loads = {l1, l2, l3}
  Urls = {u1, u2}
  NoUrl = NoUrl
  MaxVersion = 2
PROPERTIES
  LoadsSettle
  ImplementsContract
CHECK_DEADLOCK FALSE
