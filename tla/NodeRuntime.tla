----------------------------- MODULE NodeRuntime -----------------------------
(***************************************************************************)
(* The Node.js toolchain of app authoring (shellagent/apphost/nodejs.go):  *)
(* the PATH that is read once from the login shell, and the managed        *)
(* installation below the state directory.  The agent's start and the      *)
(* requests of several sockets work on the process's PATH at once; a crash *)
(* loses the PATH and keeps the disk.                                      *)
(***************************************************************************)
EXTENDS Naturals, Sequences, Functions

CONSTANTS
  Caller,     \* requests that need Node
  Inherited,  \* the PATH the process starts with
  Login,      \* the PATH of the login shell
  Extra,      \* extraExecutableDirs that exist
  Indexes,    \* what the index of nodejs.org may list, newest first
  NodeHomes,  \* directories outside the state directory that may hold node and npm
  MaxCrashes  \* crashes in all

Managed == "managed"
Boot == "boot"  \* ListenAndServe, which hydrates and prepends too
Parts == {"node", "npm", "lib"}
Archives == {<<"node", "npm", "lib">>, <<"lib", "node">>}
Dirs == Range(Inherited) \cup Range(Login) \cup Range(Extra) \cup {Managed}

\* nodejs.org lists the newest release first, which selectLatestLTS relies on.
ASSUME NodeRuntimeAssumption ==
  /\ Boot \notin Caller /\ MaxCrashes \in Nat /\ NodeHomes \subseteq Dirs \ {Managed}
  /\ Inherited \in Seq(Dirs) /\ Login \in Seq(Dirs) /\ Extra \in Seq(Dirs)
  /\ \A list \in Indexes :
       /\ list \in Seq([version : Nat, lts : BOOLEAN, built : BOOLEAN])
       /\ \A i, j \in DOMAIN list : i < j => list[i].version >= list[j].version

VARIABLES
  path,      \* the environment's PATH
  hydrated,  \* how far hydrateExecutablePath came
  nodeDirs,  \* those that hold node and npm
  pc,        \* where each caller is
  seen,      \* the PATH that prependPathDir has read
  index,     \* the index that was fetched
  verified,  \* what is left to extract of the archive that passed its checksum
  staged,    \* the files extracted so far
  chosen,    \* the version being installed
  toolchain, \* toolchain/node: its files
  installed, \* and its version
  crashes

nodeVars == <<path, hydrated, nodeDirs, pc, seen, index, verified, staged, chosen, toolchain,
              installed, crashes>>
diskVars == <<toolchain, installed>>
stagingVars == <<index, verified, staged, chosen>>

Hydrators == Caller \cup {Boot}
NodeSteps == {"idle", "hydrate", "extra", "setExtra", "look", "prepend", "set", "install", "extract",
              "remove", "rename", "ok", "failed"}

\* Types; at most one caller is past the lock.
NodeRuntimeTypeOK ==
  /\ Range(path) \subseteq Dirs
  /\ hydrated \in 0 .. Len(Extra) + 2 /\ nodeDirs \subseteq Dirs
  /\ pc \in [Hydrators -> NodeSteps]
  /\ \A c \in Hydrators : Range(seen[c]) \subseteq Dirs
  /\ index \in Indexes \cup {<<>>} /\ Range(verified) \subseteq Parts
  /\ staged \subseteq Parts /\ toolchain \subseteq Parts
  /\ crashes \in 0 .. MaxCrashes

NodeRuntimeInit ==
  /\ path = Inherited /\ hydrated = 0 /\ nodeDirs \in SUBSET NodeHomes
  /\ pc = [c \in Hydrators |-> "idle"] /\ seen = [c \in Hydrators |-> <<>>]
  /\ index = <<>> /\ verified = <<>> /\ staged = {} /\ chosen = 0
  /\ toolchain = {} /\ installed = 0 /\ crashes = 0

-----------------------------------------------------------------------------
(* Operators of nodejs.go *)

\* mergePathEntries: the entries of both, each at its first place.
AddEntry(entries, entry) ==
  IF entry \in Range(entries) THEN entries ELSE Append(entries, entry)

MergePathEntries(primary, fallback) ==
  LET entries == primary \o fallback
      merged[n \in 0 .. Len(entries)] ==
        IF n = 0 THEN <<>> ELSE AddEntry(merged[n - 1], entries[n])
  IN  merged[Len(entries)]

\* nodeAndNpmAvailable, with the managed directory as it is on disk.
NodeAndNpmAvailable ==
  \E d \in Range(path) :
    d \in IF {"node", "npm"} \subseteq toolchain THEN nodeDirs \cup {Managed} ELSE nodeDirs

\* managedNodeAvailable.
ManagedNodeAvailable == {"node", "npm"} \subseteq toolchain

Suitable(release) == release.lts /\ release.built /\ release.version # 0

\* Mutant: the loop does not stop at the first suitable release.
SelectLast(releases) ==
  LET suitable == {i \in DOMAIN releases : Suitable(releases[i])}
  IN  IF suitable = {} THEN 0
      ELSE releases[CHOOSE i \in suitable : \A j \in suitable : j <= i].version

\* selectLatestLTS: the first listed release with a build for this machine.
SelectLatestLTS(releases) ==
  LET suitable == {i \in DOMAIN releases : Suitable(releases[i])}
  IN  IF suitable = {} THEN 0
      ELSE releases[CHOOSE i \in suitable : \A j \in suitable : i <= j].version

-----------------------------------------------------------------------------
Goto(c, step) == pc' = [pc EXCEPT ![c] = step]

\* Mutant: nodeRuntimeMu is not taken.
EnterAnyway(c) ==
  /\ pc[c] = "idle" /\ Goto(c, "hydrate")
  /\ UNCHANGED <<path, hydrated, nodeDirs, seen, stagingVars, diskVars, crashes>>

\* ensureNodeRuntime takes nodeRuntimeMu; the start of the agent does not.
Enter(c) ==
  /\ pc[c] = "idle" /\ Goto(c, "hydrate")
  /\ c # Boot => \A d \in Caller : pc[d] \in {"idle", "ok", "failed"}
  /\ UNCHANGED <<path, hydrated, nodeDirs, seen, stagingVars, diskVars, crashes>>

\* hydrateExecutablePath, under pathHydrationMu.  The first caller runs the
\* login shell, which may fail, and prepends the extra directories one by one
\* (hydrated counts); the others wait until it is done.
HydrateShell(c) ==
  /\ pc[c] = "hydrate" /\ hydrated = 0
  /\ hydrated' = 1 /\ Goto(c, "extra")
  /\ \/ path' = MergePathEntries(Login, path)
     \/ UNCHANGED path
  /\ UNCHANGED <<nodeDirs, seen, stagingVars, diskVars, crashes>>

\* Mutant: a caller that finds pathHydrated set does not wait for the mutex.
HydratedUnlocked(c) ==
  /\ pc[c] = "hydrate" /\ hydrated # 0
  /\ Goto(c, "look")
  /\ UNCHANGED <<path, hydrated, nodeDirs, seen, stagingVars, diskVars, crashes>>

HydratedAlready(c) ==
  /\ pc[c] = "hydrate" /\ hydrated = Len(Extra) + 2
  /\ Goto(c, "look")
  /\ UNCHANGED <<path, hydrated, nodeDirs, seen, stagingVars, diskVars, crashes>>

\* prependPathDir reads the PATH ...
PrependReads(c) ==
  /\ \/ pc[c] = "prepend" /\ Goto(c, "set")
     \/ pc[c] = "extra" /\ hydrated \in 1 .. Len(Extra) /\ Goto(c, "setExtra")
  /\ seen' = [seen EXCEPT ![c] = path]
  /\ UNCHANGED <<path, hydrated, nodeDirs, stagingVars, diskVars, crashes>>

\* ... and sets it: an extra directory while hydrating, the managed one after.
HydrateSets(c) ==
  /\ pc[c] = "setExtra"
  /\ path' = MergePathEntries(<<Extra[hydrated]>>, seen[c])
  /\ hydrated' = hydrated + 1 /\ Goto(c, "extra")
  /\ UNCHANGED <<nodeDirs, seen, stagingVars, diskVars, crashes>>

HydrateEnds(c) ==
  /\ pc[c] = "extra" /\ hydrated = Len(Extra) + 1
  /\ hydrated' = hydrated + 1 /\ Goto(c, "look")
  /\ UNCHANGED <<path, nodeDirs, seen, stagingVars, diskVars, crashes>>

PrependSets(c) ==
  /\ pc[c] = "set"
  /\ path' = MergePathEntries(<<Managed>>, seen[c])
  /\ Goto(c, IF c = Boot THEN "ok" ELSE "look")
  /\ UNCHANGED <<hydrated, nodeDirs, seen, stagingVars, diskVars, crashes>>

\* ensureNodeRuntime looks for node and npm on the PATH, then in the state
\* directory, and installs otherwise; after a prepend it looks again.
Look(c) ==
  /\ pc[c] = "look"
  /\ Goto(c, IF c = Boot THEN IF ManagedNodeAvailable THEN "prepend" ELSE "ok"
             ELSE IF NodeAndNpmAvailable THEN "ok"
             ELSE IF ManagedNodeAvailable /\ Managed \notin Range(path) THEN "prepend"
             ELSE "install")
  /\ UNCHANGED <<path, hydrated, nodeDirs, seen, stagingVars, diskVars, crashes>>

-----------------------------------------------------------------------------
(* installOfficialNode *)

\* The index, the archive and its checksum.
Download(c) ==
  /\ pc[c] = "install"
  /\ \E fetched \in Indexes, archive \in Archives :
       /\ index' = fetched /\ chosen' = SelectLatestLTS(fetched)
       /\ chosen' # 0 /\ verified' = archive
  /\ staged' = {} /\ Goto(c, "extract")
  /\ UNCHANGED <<path, hydrated, nodeDirs, seen, diskVars, crashes>>

\* No index, no LTS build, no archive, a wrong checksum, a full disk: the
\* staging directory is removed.
InstallFails(c) ==
  /\ pc[c] \in {"install", "extract", "rename"} /\ Goto(c, "failed")
  /\ staged' = {} /\ verified' = <<>>
  /\ UNCHANGED <<path, hydrated, nodeDirs, seen, index, chosen, diskVars, crashes>>

\* Mutant: the archive is extracted into place.
ExtractInPlace(c) ==
  /\ pc[c] = "extract" /\ verified # <<>>
  /\ toolchain' = toolchain \cup {Head(verified)} /\ verified' = Tail(verified)
  /\ UNCHANGED <<path, hydrated, nodeDirs, pc, seen, index, staged, chosen, installed, crashes>>

\* extractTarGz or extractZipArchive, one entry at a time.
Extract(c) ==
  /\ pc[c] = "extract" /\ verified # <<>>
  /\ staged' = staged \cup {Head(verified)} /\ verified' = Tail(verified)
  /\ UNCHANGED <<path, hydrated, nodeDirs, pc, seen, index, chosen, diskVars, crashes>>

\* nodeRootFromExtracted: an archive without node and npm is refused.
Extracted(c) ==
  /\ pc[c] = "extract" /\ verified = <<>>
  /\ Goto(c, IF {"node", "npm"} \subseteq staged THEN "remove" ELSE "failed")
  /\ UNCHANGED <<path, hydrated, nodeDirs, seen, stagingVars, diskVars, crashes>>

\* os.RemoveAll of the destination, file by file, and os.Rename.
RemoveOld(c) ==
  /\ pc[c] = "remove"
  /\ IF toolchain = {}
       THEN Goto(c, "rename") /\ UNCHANGED toolchain
       ELSE \E f \in toolchain : toolchain' = toolchain \ {f} /\ UNCHANGED pc
  /\ UNCHANGED <<path, hydrated, nodeDirs, seen, stagingVars, installed, crashes>>

RenameNew(c) ==
  /\ pc[c] = "rename" /\ Goto(c, "prepend")
  /\ toolchain' = staged /\ installed' = chosen /\ staged' = {}
  /\ UNCHANGED <<path, hydrated, nodeDirs, seen, index, verified, chosen, crashes>>

\* The request returned and another one may come.
Again(c) ==
  /\ c # Boot /\ pc[c] \in {"ok", "failed"} /\ Goto(c, "idle")
  /\ UNCHANGED <<path, hydrated, nodeDirs, seen, stagingVars, diskVars, crashes>>

\* The agent is killed and started again.
AgentCrashes ==
  /\ crashes < MaxCrashes /\ crashes' = crashes + 1
  /\ path' = Inherited /\ hydrated' = 0
  /\ pc' = [c \in Hydrators |-> "idle"] /\ seen' = [c \in Hydrators |-> <<>>]
  /\ index' = <<>> /\ verified' = <<>> /\ staged' = {} /\ chosen' = 0
  /\ UNCHANGED <<nodeDirs, diskVars>>

NodeRuntimeNext ==
  \/ AgentCrashes
  \/ \E c \in Hydrators :
       \/ Enter(c) \/ HydrateShell(c) \/ HydratedAlready(c) \/ PrependReads(c) \/ HydrateSets(c)
       \/ HydrateEnds(c) \/ PrependSets(c) \/ Look(c) \/ Download(c) \/ InstallFails(c)
       \/ Extract(c) \/ Extracted(c) \/ RemoveOld(c) \/ RenameNew(c) \/ Again(c)

NodeRuntimeSpec == NodeRuntimeInit /\ [][NodeRuntimeNext]_nodeVars

\* Whatever fails and whenever the agent is killed, toolchain/node is absent
\* or all of an archive that passed its checksum and holds node and npm:
\* managedNodeAvailable looks at two files only.
ToolchainWhole == toolchain \in {{}, Parts}

\* The installed version is the newest LTS release that was listed with a
\* build for this machine.
NewestLTSInstalled ==
  \A c \in Caller :
    pc[c] = "prepend" /\ index # <<>> /\ installed = chosen /\ chosen # 0 =>
      \A i \in DOMAIN index : Suitable(index[i]) => index[i].version <= installed

\* Whatever installation fails, overlaps another or is cut off, the toolchain
\* that is found is whole and the right one (ensureNodeToolchain).
NodeRuntimeSafe == NodeRuntimeTypeOK /\ ToolchainWhole /\ NewestLTSInstalled

\* A request that went on has node and npm on the PATH, and as long as the
\* agent runs no directory that was put there is lost again, although the
\* agent's start and the requests read, merge and set the PATH without a
\* common lock.
PathKept ==
  /\ Range(path) \subseteq Range(path') \/ crashes' # crashes
  /\ \A c \in Caller : pc'[c] = "ok" => NodeAndNpmAvailable'
====
