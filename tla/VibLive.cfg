SPECIFICATION FairSpec
CONSTANTS
  Callers = {c1, c2}
  Calls = {v1, v2}
  None = None
  Huge = Huge
  Endless = Endless
  Kinds = {"huge", "compose", "pwle"}
  Polling = TRUE
  HasAsp = TRUE
  Alsa = FALSE
  SysfsFails = TRUE
  Crashes = FALSE
INVARIANTS OwnDuration ExternalRemembered
PROPERTIES Completes CallsReturn
