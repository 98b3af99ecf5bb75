\* Two tasks at a time, on one machine or two, a corrupt upload with a token
\* among them.
SPECIFICATION Spec
CONSTANTS
  u1 = u1
  u2 = u2
  w1 = w1
  w2 = w2
  Uploads = {u1, u2}
  Tokened = {u2}
  Broken = {u2}
  Runs = {u1, u2}
  RunOf <- MCRunOf
  Ingesters = {w1, w2}
  MaxNotices = 2
SYMMETRY TaskSymmetry
CHECK_DEADLOCK FALSE
INVARIANTS
  NoUploadLost
  IdsDistinct
  ProcessedIsQueued
  IngestInv
