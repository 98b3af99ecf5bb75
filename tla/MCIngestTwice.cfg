\* One upload, two tasks.
SPECIFICATION Spec
CONSTANTS
  u1 = u1
  u2 = u2
  w1 = w1
  w2 = w2
  Uploads = {u1}
  Tokened = {}
  Broken = {}
  Runs = {u1}
  RunOf <- MCRunOf
  Ingesters = {w1, w2}
  MaxNotices = 2
SYMMETRY TaskSymmetry
CHECK_DEADLOCK FALSE
INVARIANT OneRowPerUpload
