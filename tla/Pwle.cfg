SPECIFICATION Spec
CONSTANTS
  Durations <- MCDurations
  Levels = {0, 100, 101}
  Frequencies = {1, 339, 340}
  Allowed <- MCAllowed
  Untuned = 38
  Resonant = 340
  Garbage = {TRUE, FALSE}
  Available = 2
  SizeLimit = 3
  MaxSegments = 5
  Width = 2000
  WritesFail = FALSE
INVARIANTS PlaysWhatIsAsked LevelsLimited DurationTold
