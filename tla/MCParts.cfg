\* One session, two attempts and two overlapping registration requests; a
\* peer with three candidates and a message; three datagrams; three
\* presentation requests with three spellings of two shortcuts and a limit of
\* one; two requests for one draft, an edit or a kill; two publishers, three
\* versions and one trouble (an edit, a failed write, a kill or an overlap); two
\* requests for node and a crash.
CONSTANTS
  s1 = s1  e1 = e1  e2 = e2  t1 = t1  t2 = t2
  Session = {s1}
  IceEnv = {e1, e2}
  IceTab = {t1, t2}
  MaxAttempts = 2
  MaxStops = 2
  MaxCandidates = 3
  QueueSize = 1
  MaxInbox = 1
  FrameBytes = 6
  HeaderBytes = 2
  IdBytes = 2
  MaxBody = 13
  MaxCount = 7
  MaxPending = 1
  MaxMessages = 3
  Accel = {"A", "a", "B"}
  Key = {"k1", "k2"}
  KeyOf <- Spellings
  MaxShortcuts = 1
  MaxID = 2
  MaxRequests = 3
  MaxPressed = 1
  Opener = {t1, t2}
  MaxMishaps = 1
  Publisher = {t1, t2}
  MaxVersion = 3
  MaxTroubles = 1
  Caller = {"r1", "r2"}
  Inherited <- InheritedPath
  Login <- LoginPath
  Extra <- ExtraDirs
  Indexes <- NodeIndexes
  NodeHomes = {"extra", "login"}
  MaxCrashes = 1
INIT Init
NEXT Next
SYMMETRY Symm
INVARIANTS IceSafe IcePeerSafe DatagramsSafe PresentationSafe DraftsSafe PublishSafe NodeRuntimeSafe
PROPERTY NothingTakenBack
\* Attempts, messages and versions run out.
CHECK_DEADLOCK FALSE
