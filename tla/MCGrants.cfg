\* Two keys of one app, two sockets, one authority session.
CONSTANTS
  k1 = k1  k2 = k2  a1 = a1  p = p  s1 = s1  s2 = s2  t1 = t1
  Key = {k1, k2}
  App = {a1}
  Cap = {p}
  Socket = {s1, s2}
  Tab = {t1}
  MaxPending = 1
  MaxDecisions = 2
  MaxSyncs = 0
  MaxRestarts = 0
  MaxFaults = 0
INIT Init
NEXT Next
SYMMETRY Symm
INVARIANT GrantsSafe
PROPERTY DecisionsFollowed
CHECK_DEADLOCK FALSE
