\* Two keys, three posts to two accounts, two processes, runs of the command.
SPECIFICATION Spec
CONSTANTS
  a1 = a1
  a2 = a2
  p1 = p1
  p2 = p2
  Accounts = {a1, a2}
  Cielo24 = {a1}
  Processes = {p1, p2}
  MaxKeys = 3
  MaxPosts = 3
SYMMETRY Symmetry
CHECK_DEADLOCK FALSE
INVARIANTS
  CredentialsInv
  Readable
  UpdateKept
