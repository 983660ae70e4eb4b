\* Two sockets compete with the updater for updateMu, two channels for one bridge.
CONSTANTS
  s1 = s1  s2 = s2  b1 = b1  c1 = c1  c2 = c2  None = None
  Socket = {s1, s2}
  Recovered = {s1}
  Bridge = {b1}
  UDP = {}
  Channel = {c1, c2}
SPECIFICATION Spec
INVARIANT ConnectionsHeld
PROPERTIES  ForwardersEnd
\* Bridge ids run out, a panic stops the process.
CHECK_DEADLOCK FALSE
