\* Handshakes of one socket end, with a sync and a failed save.
CONSTANTS
  k1 = k1  k2 = k2  a1 = a1  p = p  s1 = s1  s2 = s2  t1 = t1
  Key = {k1}
  App = {a1}
  Cap = {p}
  Socket = {s1}
  Tab = {t1}
  MaxPending = 1
  MaxDecisions = 1
  MaxSyncs = 1
  MaxRestarts = 1
  MaxFaults = 1
SPECIFICATION Spec
INVARIANT GrantsSafe
PROPERTY HandshakeTerminates
CHECK_DEADLOCK FALSE
