SPECIFICATION Spec
CONSTANTS
  Callers = {c1}
  Calls = {v1, v2, v3, v4}
  None = None
  Huge = Huge
  Endless = Endless
  Kinds = {"on", "endless", "perform", "compose"}
  Polling = TRUE
  HasAsp = TRUE
  Alsa = FALSE
  SysfsFails = FALSE
  Crashes = FALSE
SYMMETRY Alike
INVARIANTS TypeOK
PROPERTIES PlaysOut NeverUnderAsp ImplementsSlot
