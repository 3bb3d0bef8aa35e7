SPECIFICATION Spec
CONSTANTS
  Loads = {l1, l2, l3, l4, l5}
  Urls = {u1, u2}
  NoUrl = NoUrl
  MaxVersion = 2
SYMMETRY LoadSymmetry
INVARIANTS
  TypeOK
  CompletesOnce
  ResultsOnMain
  ResultsAreServed
  NoRegression
PROPERTIES
  CacheNeverRegresses
CHECK_DEADLOCK FALSE
