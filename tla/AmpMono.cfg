SPECIFICATION FairSpec
CONSTANTS
  Streams = {s1}
  Detectors = {d1}
  Cal = Cal
  None = None
  Destroyed = Destroyed
  Stereo = FALSE
  FromTA = FALSE
  Faulty = {"M"}
  MaxTries = 2
INVARIANTS FreshCalibrationApplied AwakeUntilProtected
PROPERTIES CalibrationTerminates CallsReturn DetectorsEnd
