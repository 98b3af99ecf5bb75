\* One video of a listed course, two runs of the command, two callers of
\* edx-val, another writer of its row.
SPECIFICATION MCSpec
CONSTANTS
  c1 = c1
  c2 = c2
  r1 = r1
  w1 = w1
  Videos = {1}
  Encodes = {"desktop_mp4", "hls"}
  Hls = "hls"
  Callers = {c1, c2}
  Runs = {r1}
  Writers = {w1}
  BatchSize = 1
  MaxCalls = 1
  MaxRuns = 2
  MaxWrites = 1
SYMMETRY Symmetry
CHECK_DEADLOCK FALSE
INVARIANTS
  BackfillInv
  EncodesStay
  EncodesReported
  TranscriptionStaysOff
