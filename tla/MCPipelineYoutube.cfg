\* One video whose course publishes on YouTube: worker, heal, callback daemon.
SPECIFICATION BoundedSpec
CONSTANTS
  v1 = v1
  w1 = w1
  h1 = h1
  Videos = {v1}
  Invalid = {}
  Encodes = {"desktop_mp4", "youtube"}
  Transcribed = {v1}
  HasCredentials = {v1}
  MaxCopies = 1
  Workers = {w1}
  Healers = {h1}
  MaxCallbacks = 1
  MaxCrashes = 0
  MaxSweeps = 2
CHECK_DEADLOCK FALSE
INVARIANTS
  CompleteIsDelivered
  ValNeverAhead
PROPERTY KeepsPromise
