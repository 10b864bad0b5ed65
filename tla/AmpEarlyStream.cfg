SPECIFICATION Spec
CONSTANTS
  Streams = {s1, s2}
  Detectors = {d1, d2}
  Cal = Cal
  None = None
  Destroyed = Destroyed
  Stereo = FALSE
  FromTA = FALSE
  Faulty = {"M"}
  MaxTries = 2
SYMMETRY Alike
INVARIANTS NoPlaybackInCalibration
