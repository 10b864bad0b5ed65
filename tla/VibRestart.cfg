SPECIFICATION Spec
CONSTANTS
  Callers = {c1}
  Calls = {v1, v2, v3, v4}
  None = None
  Huge = Huge
  Endless = Endless
  Kinds = {"on", "huge", "perform", "compose"}
  Polling = FALSE
  HasAsp = FALSE
  Alsa = TRUE
  SysfsFails = TRUE
  Crashes = TRUE
SYMMETRY Alike
INVARIANTS OneWaiter ExternalRemembered
PROPERTIES StopsOnlyItsOwn
