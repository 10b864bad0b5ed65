SPECIFICATION Spec
CONSTANTS
  Streams = {s1, s2}
  Detectors = {d1, d2}
  Cal = Cal
  None = None
  Destroyed = Destroyed
  Stereo = TRUE
  FromTA = TRUE
  Faulty = {"L", "R"}
  MaxTries = 1
INVARIANTS MutualExclusion
