\* One settings request at a time, two in all.
CONSTANTS
  e0 = e0  e1 = e1  l1 = l1  l2 = l2  t1 = t1  t2 = t2  None = None
  Env = {e0, e1}
  Loop = {l1, l2}
  Tab = {t1}
  Legacy = e0
  MaxRequests = 2
  MaxRemoves = 0
SPECIFICATION Spec
PROPERTIES IdleRelayCloses
