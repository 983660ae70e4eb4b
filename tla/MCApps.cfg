\* Two sockets, one of which may close, and two promises; two connections, a new manifest and an edit
\* of the grant; three SSH
\* connections, two at a time, to two hosts with two keys, and a crash; two
\* copies of two files and a crash; two sign-in callbacks, three states, three
\* tokens of which one is refused, and a crash; two sessions of an app, three
\* changes and a crash.
CONSTANTS
  c1 = c1  c2 = c2
  Client = {c1, c2}
  MaxPromises = 2
  MaxLength = 1
  MaxCopies = 1
  MaxCloses = 1
  Page = {c1, c2}
  Perm = {"p", "m"}
  Manage = "m"
  MaxRevisions = 1
  MaxGrantEdits = 1
  Verifier = {c1, c2}
  SshHost = {"h1", "h2"}
  HostKey = {"k1", "k2"}
  MaxOpens = 3
  MaxHostCrashes = 1
  Copier = {c1, c2}
  FileName = {"f1", "f2"}
  MaxCopyCalls = 2
  MaxChunks = 2
  MaxCopyKills = 1
  Callback = {c1, c2}
  LoginState = {"s1", "s2", "s3"}
  Token = {"a1", "a2", "a3"}
  Refused = {"a3"}
  MaxLoginKills = 1
  SessionId = {"i1", "i2"}
  MaxNow = 3
  MaxSessionKills = 1
INIT Init
NEXT Next
SYMMETRY Symm
INVARIANTS PromisesSafe NativeSafe HostKeysSafe NetCopySafe LoginSafe AppSessionsSafe
PROPERTY OthersWorkKept
\* Promises and connections run out.
CHECK_DEADLOCK FALSE
