\* A service or a foreground agent and three releases, with every fault.
CONSTANTS
  h1 = h1  h2 = h2
  MaxVersion = 3
  Delay = 2
  Backoff = 3
  Helper = {h1, h2}
  Mode = {"service", "foreground"}
  Faults = {"stage", "damage", "prepare", "helper", "helper late", "shutdown", "stop", "exec", "replace", "restore",
            "start", "crash"}
  MaxFaults = 2
SPECIFICATION Spec
INVARIANT SelfUpdateSafe
PROPERTIES BackoffRespected UpdateEnds ServiceRecovers
CHECK_DEADLOCK FALSE
