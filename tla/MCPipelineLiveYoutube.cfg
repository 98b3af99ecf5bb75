\* One video whose course publishes on YouTube only, heal runs without end.
SPECIFICATION FairSpec
CONSTANTS
  v1 = v1
  w1 = w1
  h1 = h1
  Videos = {v1}
  Invalid = {}
  Encodes = {"youtube"}
  Transcribed = {}
  HasCredentials = {v1}
  MaxCopies = 1
  Workers = {w1}
  Healers = {h1}
  MaxCallbacks = 0
  MaxCrashes = 0
PROPERTY PublishedCompletes
