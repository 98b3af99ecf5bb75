\* Two workers deliver the two encodes of one video side by side.
SPECIFICATION BoundedSpec
CONSTANTS
  v1 = v1
  w1 = w1
  w2 = w2
  h1 = h1
  Videos = {v1}
  Invalid = {}
  Encodes = {"desktop_mp4", "hls"}
  Transcribed = {v1}
  HasCredentials = {v1}
  MaxCopies = 1
  Workers = {w1, w2}
  Healers = {h1}
  MaxCallbacks = 0
  MaxCrashes = 1
  MaxSweeps = 2
SYMMETRY WorkerSymmetry
CHECK_DEADLOCK FALSE
INVARIANTS
  TypeOK
  TranscriptAfterEncodes
  LastOneStartsTranscription
  IInv
