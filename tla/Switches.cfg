SPECIFICATION Spec
CONSTANTS
  Threads = {t1, t2}
  FlushFails = FALSE
PROPERTIES SunlightIsSwitch TouchIsSwitch
