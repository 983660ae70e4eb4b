------------------------------- MODULE Publish -------------------------------
(***************************************************************************)
(* Publishing a local project (shellagent/apps_publish.go): the version is *)
(* bumped in up to four files, the sources and the runnable are collected  *)
(* and uploaded, the revision is posted, and a failure writes the original *)
(* files back.  No lock is taken: the requests of two sockets may publish  *)
(* one project at once.  The user edits meanwhile, every step may fail,    *)
(* those of the restore too, and the agent may be killed.                  *)
(***************************************************************************)
EXTENDS Naturals, Sequences

CONSTANTS
  Publisher,    \* the requests that publish the project
  MaxVersion,   \* the highest patch number
  MaxTroubles   \* the user's edits, failed writes, kills and overlaps in all

ASSUME PublishAssumption == MaxVersion \in Nat \ {0} /\ MaxTroubles \in Nat

Manifest == "app.json"
Versioned == <<Manifest, "version.json", "package.json", "package-lock.json">>
Named == {Versioned[i] : i \in 1 .. 4}
Absent == [version |-> 0, text |-> 0]
\* A file of which a write was cut off after os.WriteFile had truncated it.
CutFile == [version |-> 0, text |-> MaxTroubles + 1]
NoFiles == [f \in Named |-> Absent]
NoJob == [at |-> "idle", original |-> NoFiles, version |-> 0, bump |-> FALSE, writing |-> 1,
          sent |-> NoFiles, touched |-> {}]

VARIABLES
  tree,       \* the versioned files
  job,        \* of each publishAppProject: the files it read, the version to publish and whether
              \* it is a bump, which write is next, the source it sent, and the files that the
              \* user changed or a restore failed on since they were read
  beside,     \* publications that have overlapped another one
  repeats,    \* two have overlapped at some time, or an answer of Dyner was lost
  revisions,  \* versions that Dyner has accepted, in order
  troubles

publishVars == <<tree, job, beside, repeats, revisions, troubles>>
dynerVars == <<repeats, revisions>>

Bytes == [version : 0 .. MaxVersion, text : 0 .. MaxTroubles + 1]
Jobs ==
  [at : {"idle", "bump", "account", "collect", "upload", "post", "restore",
         "ok", "failed", "unwritten"},
   original : [Named -> Bytes], version : 0 .. MaxVersion, bump : BOOLEAN, writing : 1 .. 5,
   sent : [Named -> Bytes], touched : SUBSET Named]

\* Types of the project and of its publications.
PublishTypeOK ==
  /\ tree \in [Named -> Bytes] /\ job \in [Publisher -> Jobs]
  /\ beside \subseteq Publisher /\ repeats \in BOOLEAN
  /\ revisions \in Seq(1 .. MaxVersion)
  /\ troubles \in 0 .. MaxTroubles

PublishInit ==
  /\ tree \in [Named -> {Absent, [version |-> 1, text |-> 0]}] /\ tree[Manifest] # Absent
  /\ job = [p \in Publisher |-> NoJob] /\ beside = {} /\ repeats = FALSE
  /\ revisions = <<>> /\ troubles = 0

-----------------------------------------------------------------------------
Trouble == troubles < MaxTroubles /\ troubles' = troubles + 1
Publishing == {p \in Publisher : job[p].at # "idle"}

\* The files are read; app.json and version.json must not be damaged.  Without
\* a version in app.json that of version.json counts, and a bump needs one.
Read(p) ==
  /\ job[p].at = "idle" /\ CutFile \notin {tree[Manifest], tree["version.json"]}
  /\ \E asked \in BOOLEAN :
       LET current == IF tree[Manifest].version # 0 THEN tree[Manifest].version
                                                    ELSE tree["version.json"].version
       IN  /\ current < MaxVersion /\ (asked => current # 0)
           /\ job' = [job EXCEPT ![p] = [NoJob EXCEPT
                !.at = IF asked THEN "bump" ELSE "account", !.original = tree, !.bump = asked,
                !.version = IF asked THEN current + 1 ELSE current]]
  /\ beside' = (IF Publishing = {} THEN {} ELSE Publishing \cup {p})
  /\ repeats' = (repeats \/ Publishing # {})
  /\ IF Publishing = {} THEN UNCHANGED troubles ELSE Trouble
  /\ UNCHANGED <<tree, revisions>>

\* version.json is written even when it was absent; a package file only when
\* it is there and is JSON.
Writes(p, f) ==
  f \in {Manifest, "version.json"} \/ job[p].original[f] \notin {Absent, CutFile}

\* The file that a publication writes at this moment.
BeingWritten(p, f) ==
  /\ job[p].writing <= 4 /\ f = Versioned[job[p].writing]
  /\ \/ job[p].at = "bump" /\ Writes(p, f)
     \/ job[p].at = "restore" /\ job[p].bump /\ job[p].original[f] # Absent

\* Writes of these publications fail or are cut off: each file is as it was,
\* or truncated.
CutOff(publishers) ==
  \E cut \in SUBSET {f \in Named : \E p \in publishers : BeingWritten(p, f)} :
    tree' = [f \in Named |-> IF f \in cut THEN CutFile ELSE tree[f]]

\* A write that ends; beside one of another publication the two may mingle.
EndWrite(p, f, content) ==
  \/ tree' = [tree EXCEPT ![f] = content]
  \/ /\ \E q \in Publisher \ {p} : BeingWritten(q, f)
     /\ tree' = [tree EXCEPT ![f] = CutFile]

\* Mutant: the lock file keeps its version.
BumpedNoLock(p, f) ==
  [version |-> IF f = "package-lock.json" THEN job[p].original[f].version ELSE job[p].version,
   text |-> job[p].original[f].text]

Bumped(p, f) == [version |-> job[p].version, text |-> job[p].original[f].text]

\* One write after the other.  One that fails returns before the deferred
\* restore is registered.
BumpWrite(p) ==
  /\ job[p].at = "bump" /\ job[p].writing <= 4
  /\ \/ LET f == Versioned[job[p].writing]
        IN  /\ IF Writes(p, f) THEN EndWrite(p, f, Bumped(p, f)) ELSE UNCHANGED tree
            /\ job' = [job EXCEPT ![p].writing = IF @ = 4 THEN 1 ELSE @ + 1,
                                  ![p].at = IF job[p].writing = 4 THEN "account" ELSE @]
            /\ UNCHANGED troubles
     \/ CutOff({p}) /\ Trouble /\ job' = [job EXCEPT ![p].at = "unwritten"]
  /\ UNCHANGED <<beside, dynerVars>>

\* The account and the store id.
Account(p) ==
  /\ job[p].at = "account" /\ job' = [job EXCEPT ![p].at = "collect"]
  /\ UNCHANGED <<tree, beside, dynerVars, troubles>>

\* collectPublishSource: digests of the files as they are now.
Collect(p) ==
  /\ job[p].at = "collect" /\ job' = [job EXCEPT ![p].at = "upload", ![p].sent = tree]
  /\ UNCHANGED <<tree, beside, dynerVars, troubles>>

\* uploadPublishSources: Dyner has the contents of the digests already, or gets
\* them; a pack that does not match them is refused.
Upload(p) ==
  /\ job[p].at = "upload" /\ job' = [job EXCEPT ![p].at = "post"]
  /\ UNCHANGED <<tree, beside, dynerVars, troubles>>

\* Mutant: what was accepted is restored as well.
PostRestoring(p) ==
  /\ job[p].at = "post" /\ job[p].version # 0 /\ Len(revisions) < MaxVersion
  /\ revisions' = Append(revisions, job[p].version)
  /\ job' = [job EXCEPT ![p].at = "restore"]
  /\ UNCHANGED <<tree, beside, repeats, troubles>>

\* The revision is posted: accepted, or accepted with the answer lost.
Post(p) ==
  /\ job[p].at = "post" /\ job[p].version # 0 /\ Len(revisions) < MaxVersion
  /\ revisions' = Append(revisions, job[p].version)
  /\ \/ job' = [job EXCEPT ![p].at = "ok"] /\ UNCHANGED repeats
     \/ job' = [job EXCEPT ![p].at = "restore", ![p].sent = NoFiles] /\ repeats' = TRUE
  /\ UNCHANGED <<tree, beside, troubles>>

\* Anything from the account to the post fails.
PublishFails(p) ==
  /\ job[p].at \in {"account", "collect", "upload", "post"}
  /\ job' = [job EXCEPT ![p].at = "restore", ![p].sent = NoFiles]
  /\ UNCHANGED <<tree, beside, dynerVars, troubles>>

\* Mutant: package.json is forgotten.
RestoreThree(p) ==
  /\ job[p].at = "restore" /\ job[p].bump /\ job[p].writing <= 4
  /\ LET f == Versioned[job[p].writing]
     IN  \/ /\ IF Writes(p, f) /\ f # "package.json"
                 THEN EndWrite(p, f, job[p].original[f]) ELSE UNCHANGED tree
            /\ job' = [job EXCEPT ![p].writing = @ + 1] /\ UNCHANGED troubles
         \/ /\ CutOff({p}) /\ Trouble
            /\ job' = [job EXCEPT ![p].writing = @ + 1, ![p].touched = @ \cup {f}]
  /\ UNCHANGED <<beside, dynerVars>>

\* The deferred restore writes the original bytes back, or removes version.json
\* when there was none.  What fails is not reported.
Restore(p) ==
  /\ job[p].at = "restore" /\ job[p].bump /\ job[p].writing <= 4
  /\ LET f == Versioned[job[p].writing]
     IN  \/ /\ IF f = "version.json" \/ job[p].original[f] # Absent
                 THEN EndWrite(p, f, job[p].original[f]) ELSE UNCHANGED tree
            /\ job' = [job EXCEPT ![p].writing = @ + 1] /\ UNCHANGED troubles
         \/ /\ CutOff({p}) /\ Trouble
            /\ job' = [job EXCEPT ![p].writing = @ + 1, ![p].touched = @ \cup {f}]
  /\ UNCHANGED <<beside, dynerVars>>

Failed(p) ==
  /\ job[p].at = "restore" /\ (job[p].bump => job[p].writing = 5)
  /\ job' = [job EXCEPT ![p].at = "failed"]
  /\ UNCHANGED <<tree, beside, dynerVars, troubles>>

\* The result goes to the caller.
Reply(p) ==
  /\ job[p].at \in {"ok", "failed", "unwritten"}
  /\ job' = [job EXCEPT ![p] = NoJob] /\ beside' = beside \ {p}
  /\ UNCHANGED <<tree, dynerVars, troubles>>

UserEdits ==
  /\ Trouble
  /\ \E f \in Named :
       /\ tree[f] \notin {Absent, CutFile} /\ tree' = [tree EXCEPT ![f].text = troubles + 1]
       /\ job' = [p \in Publisher |-> IF job[p].at = "idle" THEN job[p]
                                      ELSE [job[p] EXCEPT !.touched = @ \cup {f}]]
  /\ UNCHANGED <<beside, dynerVars>>

\* The agent is killed, and with it every publication.
PublishKilled ==
  /\ Trouble /\ CutOff(Publisher)
  /\ job' = [p \in Publisher |-> NoJob] /\ beside' = {}
  /\ UNCHANGED dynerVars

PublishNext ==
  \/ UserEdits \/ PublishKilled
  \/ \E p \in Publisher :
       \/ Read(p) \/ BumpWrite(p) \/ Account(p) \/ Collect(p) \/ Upload(p) \/ Post(p)
       \/ PublishFails(p) \/ Restore(p) \/ Failed(p) \/ Reply(p)

PublishSpec == PublishInit /\ [][PublishNext]_publishVars

\* A publication that failed, and that no other one overlapped, leaves every
\* file as it was, the absent version.json too, but for the files that the user
\* has touched and those on which the restore itself failed.  (A failed write
\* of the bump is not undone, nor is a bump that a kill ended.)
FailureRestores ==
  \A p \in Publisher \ beside : job[p].at = "failed" =>
    \A f \in Named \ job[p].touched : tree[f] = job[p].original[f]

\* After a publication with a bump that no other one overlapped, all the files
\* it wrote carry the version that Dyner has accepted, and so does the source
\* that Dyner received.
PublishedVersionOnDisk ==
  \A p \in Publisher \ beside : job[p].at = "ok" /\ job[p].bump =>
    \A f \in Named : Writes(p, f) =>
      revisions[Len(revisions)] \in {tree[f].version} \cap {job[p].sent[f].version}

\* The files on disk agree with what was published, or with what was there
\* before a publication that failed (publishApp and its deferred restore).
PublishSafe == PublishTypeOK /\ FailureRestores /\ PublishedVersionOnDisk

\* With bumps, a version is published a second time only when Dyner's answer
\* to the first was lost, and the bump undone, or when two publications have
\* overlapped.  Neither a failed restore nor a kill brings a version back.
NoVersionTwice ==
  ~repeats /\ revisions' # revisions =>
    \A p \in Publisher : job[p].bump /\ job[p].at = "post" =>
      \A i \in DOMAIN revisions : revisions[i] < job[p].version
====
