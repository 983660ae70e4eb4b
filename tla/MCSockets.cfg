\* A peer with one candidate and two messages; two relay sessions and one
\* process; two launchers and two takers; two connections of a native app;
\* one presentation request; one agent session with four calls and one tool
\* request; two platform connections and two callers; an RDP bridge with bytes
\* of four values and chains beyond two digits.
CONSTANTS
  l1 = l1  l2 = l2  t1 = t1  t2 = t2  c1 = c1  c2 = c2  a1 = a1  a2 = a2
  MaxCandidates = 1
  QueueSize = 1
  MaxInbox = 2
  Tenant = {"a", "b"}
  Encrypted = TRUE
  MaxProcs = 1
  MaxChunks = 2
  Budget = 3
  MaxFrames = 6
  Launcher = {l1, l2}
  Taker = {t1, t2}
  Page = {c1, c2}
  Perm = {"p", "m"}
  Manage = "m"
  MaxRevisions = 0
  MaxGrantEdits = 1
  Accel = {"A", "a", "B"}
  Key = {"k1", "k2"}
  KeyOf <- Spellings
  MaxShortcuts = 1
  MaxID = 2
  MaxRequests = 1
  MaxPressed = 1
  MaxStarts = 1
  MaxCalls = 4
  MaxTools = 1
  MaxHosts = 2
  Asker = {a1, a2}
  MaxAsked = 2
  Base = 4
  Chains = {1, 2, 3, 4, 15, 16}
  MaxData = 1
SPECIFICATION Spec
INVARIANTS SessionsSafe ExternalOpenSafe AgentSessionsSafe PlatformSafe RdpSafe
PROPERTIES SocketsUnwind WaitersAnswered
\* A peer, a process, a launcher, a socket or a session ends for good.
CHECK_DEADLOCK FALSE
