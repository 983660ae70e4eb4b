\* Two sockets, one of which recovers panics; a UDP and a TCP bridge; two channels.
CONSTANTS
  s1 = s1  s2 = s2  b1 = b1  b2 = b2  c1 = c1  c2 = c2  None = None
  Socket = {s1, s2}
  Recovered = {s1}
  Bridge = {b1, b2}
  UDP = {b2}
  Channel = {c1}
INIT Init
NEXT Next
INVARIANTS TypeOK CounterExact
PROPERTY ImplementsGate
\* Bridge ids run out, a panic stops the process.
CHECK_DEADLOCK FALSE
