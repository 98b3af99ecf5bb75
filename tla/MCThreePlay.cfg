SPECIFICATION MCSpec
CONSTANTS
  Languages <- AllLanguages
  Source <- English
  Preferences <- AllPreferences
  Orders = {o1, o2}
  Handlers = {h1, h2}
  Sweeps = {s1, s2}
  MaxCalls = 2
  MaxSweeps = 2
  MaxDeaths = 1
  MaxWork = 7
SYMMETRY Symmetry
CHECK_DEADLOCK FALSE
INVARIANTS
  ThreePlayInv
  ReadyHasLanguages
  LastRetrievalAnnounces
  OrdersTracked
PROPERTY ThreePlayKeepsPromise
