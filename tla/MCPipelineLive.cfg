\* One video, one worker, heal runs without end, one dead task, one callback:
\* every failure is repaired.
SPECIFICATION FairSpec
CONSTANTS
  v1 = v1
  w1 = w1
  h1 = h1
  Videos = {v1}
  Invalid = {}
  Encodes = {"desktop_mp4"}
  Transcribed = {v1}
  HasCredentials = {v1}
  MaxCopies = 1
  Workers = {w1}
  Healers = {h1}
  MaxCallbacks = 1
  MaxCrashes = 1
PROPERTIES
  HealCompletes
  ValCatchesUp
