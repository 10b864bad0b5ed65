SPECIFICATION Spec
CONSTANTS
  Streams = {s1, s2}
  Detectors = {d1, d2}
  Cal = Cal
  None = None
  Destroyed = Destroyed
  Stereo = TRUE
  FromTA = TRUE
  Faulty = {}
  MaxTries = 2
SYMMETRY Alike
INVARIANTS TypeOK QuietUnlessEarly MutexSound PlaybackProtected CalibrationApplied ZeroNeverWritten
PROPERTIES ErrorIsFinal ImplementsControl
