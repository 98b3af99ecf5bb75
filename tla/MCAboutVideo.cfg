SPECIFICATION MCSpec

CONSTANTS
  f1 = f1
  f2 = f2
  Forms = {f1, f2}
  Codes = {"ABVID", "OTHER"}
  AboutCode = "ABVID"
  MaxForms = 2
  Uploads = {"serial"}
  MaxSends = 2
  MaxStops = 1

SYMMETRY Symmetry

INVARIANTS
  AboutInv
  FailedFirst
  SuccessOnce
  OneVideo

PROPERTIES
  SuccessStands
  NoneLost

CHECK_DEADLOCK FALSE
