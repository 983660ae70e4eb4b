\* A shutdown that times out under a helper.
CONSTANTS
  h1 = h1  h2 = h2
  MaxVersion = 2
  Delay = 2
  Backoff = 2
  Helper = {h1}
  Mode = {"service"}
  Faults = {"shutdown"}
  MaxFaults = 1
SPECIFICATION Spec
PROPERTIES ServiceComesBack
CHECK_DEADLOCK FALSE
