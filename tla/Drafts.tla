------------------------------- MODULE Drafts -------------------------------
(***************************************************************************)
(* One local draft of an app (shellagent/apps.go, live_preview.go and      *)
(* apphost/source_snapshot.go, runnable_archive.go): opening it from the   *)
(* store, creating it from the starter, and its live preview.  Requests of *)
(* several sockets work on the same directory without a lock, the user     *)
(* edits its files, and the agent may be killed between any two steps.     *)
(***************************************************************************)
EXTENDS Naturals

CONSTANTS
  Opener,      \* requests that open, create or preview the draft
  MaxMishaps   \* the user's edits and the kills in all: of the agent, and of a dev command by it

Source == {"app.json", "src"}
Content == {"index.html", "asset"}
Files == Source \cup Content

ASSUME DraftsAssumption == MaxMishaps \in Nat /\ "none" \notin Opener

VARIABLES
  project,   \* the files of the draft: what each was written from
  step,      \* where each request is
  reused,    \* it found app.json, while that matters
  staging,   \* its staging directory
  unpacked,  \* its .runnable- staging directory
  torn,      \* a removal or the starter was cut off, or two requests overlapped in one
  preview,   \* s.previews of this root
  holder,    \* who holds previewMu
  servers,   \* dev servers started and not ended by a kill; one that ends by itself still counts
  draftKills, edits

draftVars == <<project, step, reused, staging, unpacked, torn, preview, holder, servers,
               draftKills, edits>>
previewVars == <<preview, holder, servers>>
budgets == <<draftKills, edits>>

Nothing == [f \in {} |-> ""]
Overlaid(tree, top) ==
  [f \in DOMAIN tree \cup DOMAIN top |-> IF f \in DOMAIN top THEN top[f] ELSE tree[f]]
PutFile(tree, f, value) == Overlaid(tree, [g \in {f} |-> value])
Remaining(tree, gone) == [f \in DOMAIN tree \ gone |-> tree[f]]

\* Types of the directories and requests.
DraftsTypeOK ==
  /\ DOMAIN project \subseteq Files
  /\ \A f \in DOMAIN project : project[f] \in {"store", "unverified", "forged", "starter", "edited"}
  /\ step \in [Opener -> {"idle", "source", "runnable", "swap", "remove", "rename", "starter",
                          "node", "preview", "wait"}]
  /\ reused \in [Opener -> BOOLEAN] /\ torn \in BOOLEAN
  /\ \A c \in Opener : DOMAIN staging[c] \subseteq Files /\ DOMAIN unpacked[c] \subseteq Content
  /\ preview \in {"none", "static", "vite"} /\ holder \in Opener \cup {"none"}
  /\ servers \in Nat /\ draftKills \in Nat /\ edits \in Nat /\ draftKills + edits <= MaxMishaps

DraftsInit ==
  /\ project = Nothing /\ step = [c \in Opener |-> "idle"] /\ reused = [c \in Opener |-> FALSE]
  /\ staging = [c \in Opener |-> Nothing] /\ unpacked = [c \in Opener |-> Nothing]
  /\ torn = FALSE
  /\ preview = "none" /\ holder = "none" /\ servers = 0
  /\ draftKills = 0 /\ edits = 0

-----------------------------------------------------------------------------
Mishap == draftKills + edits < MaxMishaps
To(c, next) == step' = [step EXCEPT ![c] = next]

\* The deferred os.RemoveAll of both staging directories.
Cleaned(c) ==
  /\ staging' = [staging EXCEPT ![c] = Nothing] /\ unpacked' = [unpacked EXCEPT ![c] = Nothing]

\* openAppDraft: a draft with app.json is reused, and gets a new runnable
\* when content/index.html is missing.
OpenAppDraft(c) ==
  /\ step[c] = "idle"
  /\ reused' = [reused EXCEPT ![c] = "app.json" \in DOMAIN project]
  /\ To(c, IF "app.json" \notin DOMAIN project THEN "source"
           ELSE IF "index.html" \notin DOMAIN project THEN "runnable" ELSE "node")
  /\ UNCHANGED <<project, staging, unpacked, torn, previewVars, budgets>>

\* What the store sends: an object either matches the snapshot's digest or it
\* is forged; the snapshot itself is checked against the revision's digest.
Accepted(object) == object = "store"

\* Mutant: the objects of the pack are not verified.
WriteUnverified(c) ==
  /\ step[c] = "source" /\ \E f \in Source \ DOMAIN staging[c], object \in {"store", "forged"} :
       staging' = [staging EXCEPT ![c] = PutFile(@, f, object)]
  /\ UNCHANGED <<project, step, reused, unpacked, torn, previewVars, budgets>>

\* Mutant: the source is materialized in the draft's directory.
WriteInPlace(c) ==
  /\ step[c] = "source" /\ \E f \in Source \ DOMAIN staging[c], object \in {"store", "forged"} :
       /\ Accepted(object) /\ staging' = [staging EXCEPT ![c] = PutFile(@, f, object)]
       /\ project' = PutFile(project, f, object)
  /\ UNCHANGED <<step, reused, unpacked, torn, previewVars, budgets>>

\* materializeSourceSnapshot writes one file after the other.
WriteSource(c) ==
  /\ step[c] = "source" /\ \E f \in Source \ DOMAIN staging[c], object \in {"store", "forged"} :
       Accepted(object) /\ staging' = [staging EXCEPT ![c] = PutFile(@, f, object)]
  /\ UNCHANGED <<project, step, reused, unpacked, torn, previewVars, budgets>>

SourceWritten(c) ==
  /\ step[c] = "source" /\ Source \subseteq DOMAIN staging[c] /\ To(c, "runnable")
  /\ UNCHANGED <<project, reused, staging, unpacked, torn, previewVars, budgets>>

\* materializeRunnableArchive up to the staging directory: the archive is
\* compared with runnable_sha256 when the revision has one, and unpacked.
Unpack(c) ==
  /\ step[c] = "runnable" /\ To(c, "swap")
  /\ \E hashed \in BOOLEAN, archive \in {"store", "forged"} :
       /\ hashed => Accepted(archive)
       /\ unpacked' = [unpacked EXCEPT ![c] =
            [f \in Content |-> IF hashed THEN archive ELSE "unverified"]]
  /\ UNCHANGED <<project, reused, staging, torn, previewVars, budgets>>

\* A download, a digest, a path or the disk is wrong: the request fails and
\* its staging directories are removed.
OpenFails(c) ==
  /\ step[c] \in {"source", "runnable", "node"} /\ To(c, "idle") /\ Cleaned(c)
  /\ reused' = [reused EXCEPT ![c] = FALSE]
  /\ UNCHANGED <<project, torn, previewVars, budgets>>

\* Its end: the content directory is removed and the new one renamed into
\* place, in the staging directory of a new draft or in the draft itself.
SwapStaged(c) ==
  /\ step[c] = "swap" /\ ~reused[c] /\ To(c, "remove")
  /\ staging' = [staging EXCEPT ![c] = Overlaid(@, unpacked[c])]
  /\ unpacked' = [unpacked EXCEPT ![c] = Nothing]
  /\ UNCHANGED <<project, reused, torn, previewVars, budgets>>

\* Mutant: the whole draft is removed for its new content.
SwapRemovesAll(c) ==
  /\ step[c] = "swap" /\ reused[c] /\ DOMAIN project \cap Content # {}
  /\ \E f \in DOMAIN project : project' = Remaining(project, {f})
  /\ UNCHANGED <<step, reused, staging, unpacked, torn, previewVars, budgets>>

SwapRemoves(c) ==
  /\ step[c] = "swap" /\ reused[c]
  /\ \E f \in DOMAIN project \cap Content : project' = Remaining(project, {f})
  /\ UNCHANGED <<step, reused, staging, unpacked, torn, previewVars, budgets>>

SwapRenames(c) ==
  /\ step[c] = "swap" /\ reused[c] /\ DOMAIN project \cap Content = {}
  /\ project' = Overlaid(project, unpacked[c]) /\ unpacked' = [unpacked EXCEPT ![c] = Nothing]
  /\ To(c, "node")
  /\ UNCHANGED <<reused, staging, torn, previewVars, budgets>>

\* os.RemoveAll(projectRoot) and os.Rename, which fails when another request
\* has put the draft there in between.
RemoveProject(c) ==
  /\ step[c] = "remove"
  /\ IF project = Nothing
       THEN To(c, "rename") /\ UNCHANGED <<project, torn>>
       ELSE /\ \E f \in DOMAIN project : project' = Remaining(project, {f})
            /\ torn' = (torn \/ "app.json" \in DOMAIN project) /\ UNCHANGED step
  /\ UNCHANGED <<reused, staging, unpacked, previewVars, budgets>>

RenameProject(c) ==
  /\ step[c] = "rename" /\ Cleaned(c)
  /\ IF project = Nothing THEN project' = staging[c] /\ To(c, "node")
                          ELSE To(c, "idle") /\ UNCHANGED project
  /\ UNCHANGED <<reused, torn, previewVars, budgets>>

\* createBoilerplateDraft leaves a draft that exists, and writes the files in
\* any order, straight into place.
CreateBoilerplate(c) ==
  /\ step[c] = "idle" /\ "app.json" \notin DOMAIN project /\ To(c, "starter")
  /\ UNCHANGED <<project, reused, staging, unpacked, torn, previewVars, budgets>>

\* staging[c] records what was written.
StarterFile(c) ==
  /\ step[c] = "starter" /\ \E f \in Files \ DOMAIN staging[c] :
       /\ project' = PutFile(project, f, "starter")
       /\ staging' = [staging EXCEPT ![c] = PutFile(@, f, "starter")]
  /\ torn' = TRUE
  /\ UNCHANGED <<step, reused, unpacked, previewVars, budgets>>

StarterDone(c) ==
  /\ step[c] = "starter" /\ \/ Files \subseteq DOMAIN staging[c] /\ To(c, "node")
                            \/ To(c, "idle")
  /\ Cleaned(c)
  /\ UNCHANGED <<project, reused, torn, previewVars, budgets>>

\* The package's Node runtime is there (NodeRuntime), the open is queued
\* (ExternalOpen), and the preview is started.
NodeReady(c) ==
  /\ step[c] = "node" /\ To(c, "preview") /\ reused' = [reused EXCEPT ![c] = FALSE]
  /\ UNCHANGED <<project, staging, unpacked, torn, previewVars, budgets>>

-----------------------------------------------------------------------------
(* startLivePreview *)

\* Mutant: previewMu is taken only to write the map.
StartUnlocked(c) ==
  /\ step[c] = "preview"
  /\ \/ To(c, "idle") /\ preview # "none" /\ UNCHANGED previewVars
     \/ /\ preview = "none"
        /\ \/ /\ "index.html" \in DOMAIN project /\ preview' = "static" /\ To(c, "idle")
              /\ UNCHANGED <<holder, servers>>
           \/ To(c, "wait") /\ servers' = servers + 1 /\ UNCHANGED <<preview, holder>>
           \/ To(c, "idle") /\ UNCHANGED previewVars
  /\ UNCHANGED <<project, reused, staging, unpacked, torn, budgets>>

\* Under previewMu: an existing preview is returned; a static one needs
\* content/index.html; a dev command, when the app has one, is started and its
\* server waited for with the lock held.  A preview that fails does not fail
\* openAppDraft.
StartLivePreview(c) ==
  /\ step[c] = "preview" /\ holder = "none"
  /\ \/ To(c, "idle") /\ preview # "none" /\ UNCHANGED previewVars
     \/ /\ preview = "none"
        /\ \/ /\ "index.html" \in DOMAIN project /\ preview' = "static" /\ To(c, "idle")
              /\ UNCHANGED <<holder, servers>>
           \/ To(c, "wait") /\ holder' = c /\ servers' \in {servers, servers + 1} /\ UNCHANGED preview
           \/ To(c, "idle") /\ UNCHANGED previewVars
  /\ UNCHANGED <<project, reused, staging, unpacked, torn, budgets>>

\* The dev command is killed, or the agent is.  The command is a shell
\* (AuthoringCommand), and nothing ties the server below it to the shell or the
\* shell to the agent: the server ends too or stays.
KillDevServer ==
  /\ Mishap /\ draftKills' = draftKills + 1
  /\ \E ends \in {0, 1} : ends <= servers /\ servers' = servers - ends

\* waitForPreviewURL: the server answers.
PreviewWaited(c) ==
  /\ step[c] = "wait" /\ To(c, "idle") /\ holder' = "none"
  /\ preview' = "vite"
  /\ UNCHANGED <<project, reused, staging, unpacked, torn, servers, budgets>>

\* Fifteen seconds have passed and the command, if there is one, is killed.
PreviewTimesOut(c) ==
  /\ step[c] = "wait" /\ To(c, "idle") /\ holder' = "none"
  /\ KillDevServer
  /\ UNCHANGED <<project, reused, staging, unpacked, torn, preview, edits>>

\* closeLivePreviews, in Shutdown: the command of the preview is killed.
ClosePreviews ==
  /\ holder = "none" /\ preview # "none" /\ preview' = "none"
  /\ IF preview = "vite" THEN KillDevServer ELSE UNCHANGED <<draftKills, servers>>
  /\ UNCHANGED <<project, step, reused, staging, unpacked, torn, holder, edits>>

-----------------------------------------------------------------------------
\* The user, or the app that edits the draft.
Edit ==
  /\ Mishap /\ edits' = edits + 1
  /\ \E f \in DOMAIN project : \/ project' = PutFile(project, f, "edited")
                               \/ project' = Remaining(project, {f})
  /\ torn' = (torn \/ "app.json" \notin DOMAIN project' \/ ~(Source \subseteq DOMAIN project'))
  /\ UNCHANGED <<step, reused, staging, unpacked, previewVars, draftKills>>

\* The agent is killed and started again.  Its table of previews is lost, its
\* dev command runs on or ends.
DraftsCrash ==
  /\ KillDevServer
  /\ step' = [c \in Opener |-> "idle"] /\ reused' = [c \in Opener |-> FALSE]
  /\ staging' = [c \in Opener |-> Nothing] /\ unpacked' = [c \in Opener |-> Nothing]
  /\ preview' = "none" /\ holder' = "none"
  /\ UNCHANGED <<project, torn, edits>>

DraftsNext ==
  \/ Edit \/ DraftsCrash \/ ClosePreviews
  \/ \E c \in Opener :
       \/ OpenAppDraft(c) \/ WriteSource(c) \/ SourceWritten(c) \/ Unpack(c) \/ OpenFails(c)
       \/ SwapStaged(c) \/ SwapRemoves(c) \/ SwapRenames(c) \/ RemoveProject(c)
       \/ RenameProject(c) \/ CreateBoilerplate(c) \/ StarterFile(c) \/ StarterDone(c)
       \/ NodeReady(c) \/ StartLivePreview(c) \/ PreviewWaited(c) \/ PreviewTimesOut(c)

DraftsSpec == DraftsInit /\ [][DraftsNext]_draftVars

\* A file that does not match the revision's digests never reaches the draft:
\* the source is always verified, the runnable when the revision has a hash.
OnlyVerified ==
  \A f \in DOMAIN project :
    project[f] # "forged" /\ (project[f] = "unverified" => f \in Content)

\* A download that fails, and a kill at any moment, leave no draft with an
\* app.json and without its sources; only a starter, the user, or an open that
\* overlapped another one can.  openAppDraft takes app.json for a whole draft.
DraftWhole ==
  "app.json" \in DOMAIN project /\ ~torn => Source \subseteq DOMAIN project

\* Edited sources are kept by every request that found the draft.  The ones
\* that replace it looked before it was there.
EditsKept ==
  \A f \in Source \cap DOMAIN project :
    project[f] = "edited" /\ (f \in DOMAIN project' => project'[f] # "edited") =>
      edits' # edits \/ \E c \in Opener : step[c] \in {"remove", "starter"} /\ ~reused[c]

\* Requests never start a second dev server beside the one that is in
\* s.previews or in the hands of the request that waits for it.  What runs
\* besides was left, one each, by a command that was killed and by an agent
\* that was killed: the code ends the shell and not what runs below it
\* (live_preview.go:149, 224).
DevServerOwned ==
  servers <= draftKills + IF preview = "vite" \/ holder # "none" THEN 1 ELSE 0

\* A draft is verified and whole, and requests add no dev server to the one
\* that has an owner.
DraftsSafe == DraftsTypeOK /\ OnlyVerified /\ DraftWhole /\ DevServerOwned
====
