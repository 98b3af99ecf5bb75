\* Two orders for two languages, two callbacks at a time, four in all.
SPECIFICATION Spec
CONSTANTS
  o1 = o1
  o2 = o2
  h1 = h1
  h2 = h2
  LastLanguage = 2
  Orders = {o1, o2}
  Handlers = {h1, h2}
  MaxCalls = 4
SYMMETRY CieloSymmetry
CHECK_DEADLOCK FALSE
INVARIANTS
  LastCallbackAnnounces
  ReadyHasTranscript
  CieloInv
PROPERTY CieloKeepsPromise
