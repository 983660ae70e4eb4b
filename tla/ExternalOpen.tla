---------------------------- MODULE ExternalOpen ----------------------------
(***************************************************************************)
(* Files that the desktop opens with a hosted app                          *)
(* (shellagent/external_open.go): the launcher process posts the path to   *)
(* the agent, or leaves it in a file when the agent does not answer; the   *)
(* app takes what is queued in memory and on disk.  Several launchers and  *)
(* several sockets of one app run at the same time, and the agent may be   *)
(* restarted; the queue in memory goes with it.                            *)
(***************************************************************************)
EXTENDS FiniteSets

CONSTANTS
  Launcher,  \* launcher processes, each with one path
  Taker      \* sockets of the app that call takeData

VARIABLES
  agentUp,   \* the agent answers
  launcher,  \* QueueExternalOpen, then QueueExternalOpenFallback
  opens,     \* Server.externalOpens of the app
  file,      \* the launcher's file under external-open
  early,     \* launchers whose file was listed before it was complete
  taker,     \* handleExternalOpenRPC
  given,     \* paths that some takeData has returned
  dropped    \* paths that a restart took from memory or from a taker

openVars == <<agentUp, launcher, opens, file, early, taker, given, dropped>>

IdleTaker == [pc |-> "idle", paths |-> {}, entries |-> {}, at |-> {}]
\* at: the file that was read and is to be removed.
TakerType == [pc : {"idle", "list", "read"}, paths : SUBSET Launcher, entries : SUBSET Launcher,
              at : SUBSET Launcher]

\* Types of the variables of the open queue.
ExternalOpenTypeOK ==
  /\ agentUp \in BOOLEAN
  /\ launcher \in [Launcher -> {"post", "fallback", "write", "queued", "failed"}]
  /\ file \in [Launcher -> {"none", "empty", "full"}]
  /\ opens \subseteq Launcher /\ early \subseteq Launcher
  /\ given \subseteq Launcher /\ dropped \subseteq Launcher
  /\ taker \in [Taker -> TakerType]

ExternalOpenInit ==
  /\ agentUp = FALSE
  /\ launcher = [l \in Launcher |-> "post"] /\ file = [l \in Launcher |-> "none"]
  /\ opens = {} /\ early = {} /\ given = {} /\ dropped = {}
  /\ taker = [t \in Taker |-> IdleTaker]

-----------------------------------------------------------------------------
(* The launcher *)

\* handleExternalOpenHTTP appends under externalMu.
Post(l) ==
  /\ launcher[l] = "post" /\ agentUp
  /\ opens' = opens \cup {l} /\ launcher' = [launcher EXCEPT ![l] = "queued"]
  /\ UNCHANGED <<agentUp, file, early, taker, given, dropped>>

PostFails(l) ==
  /\ launcher[l] = "post" /\ ~agentUp
  /\ launcher' = [launcher EXCEPT ![l] = "fallback"]
  /\ UNCHANGED <<agentUp, opens, file, early, taker, given, dropped>>

\* CreateTemp under the name that takers look for.
CreateTemp(l) ==
  /\ launcher[l] = "fallback"
  /\ file' = [file EXCEPT ![l] = "empty"] /\ launcher' = [launcher EXCEPT ![l] = "write"]
  /\ UNCHANGED <<agentUp, opens, early, taker, given, dropped>>

\* The write goes to the open file, even if its name was removed.
WriteFile(l) ==
  /\ launcher[l] = "write"
  /\ file' = [file EXCEPT ![l] = IF @ = "none" THEN "none" ELSE "full"]
  /\ launcher' = [launcher EXCEPT ![l] = "queued"]
  /\ UNCHANGED <<agentUp, opens, early, taker, given, dropped>>

WriteFileFails(l) ==
  /\ launcher[l] = "write"
  /\ file' = [file EXCEPT ![l] = "none"] /\ launcher' = [launcher EXCEPT ![l] = "failed"]
  /\ UNCHANGED <<agentUp, opens, early, taker, given, dropped>>

-----------------------------------------------------------------------------
(* handleExternalOpenRPC and takePersistedExternalOpens *)

\* Under externalMu, both spellings of the app's id.
TakeMemory(t) ==
  /\ agentUp /\ taker[t].pc = "idle"
  /\ taker' = [taker EXCEPT ![t] = [IdleTaker EXCEPT !.pc = "list", !.paths = opens]]
  /\ opens' = {}
  /\ UNCHANGED <<agentUp, launcher, file, early, given, dropped>>

\* Mutant: the directory is read only when the memory had something.
ReadDirIfQueued(t) ==
  LET entries == {l \in Launcher : file[l] # "none" /\ taker[t].paths # {}} IN
  /\ agentUp /\ taker[t].pc = "list"
  /\ taker' = [taker EXCEPT ![t].pc = "read", ![t].entries = entries]
  /\ early' = early \cup {l \in entries : file[l] = "empty"}
  /\ UNCHANGED <<agentUp, launcher, opens, file, given, dropped>>

ReadDir(t) ==
  LET entries == {l \in Launcher : file[l] # "none"} IN
  /\ agentUp /\ taker[t].pc = "list"
  /\ taker' = [taker EXCEPT ![t].pc = "read", ![t].entries = entries]
  /\ early' = early \cup {l \in entries : file[l] = "empty"}
  /\ UNCHANGED <<agentUp, launcher, opens, file, given, dropped>>

\* A file that another taker removed, or that is not complete, adds nothing.
ReadFile(t, l) ==
  /\ agentUp /\ taker[t].pc = "read" /\ taker[t].at = {} /\ l \in taker[t].entries
  /\ LET full == {l} \cap {k \in Launcher : file[k] = "full"} IN
     taker' = [taker EXCEPT ![t] = [pc |-> "read", paths |-> @.paths \cup full,
                                    entries |-> @.entries \ {l}, at |-> {l}]]
  /\ UNCHANGED <<agentUp, launcher, opens, file, early, given, dropped>>

\* Mutant: everything that is in the directory goes.
RemoveDirectory(t) ==
  /\ agentUp /\ taker[t].at # {}
  /\ file' = [l \in Launcher |-> "none"]
  /\ taker' = [taker EXCEPT ![t].at = {}]
  /\ UNCHANGED <<agentUp, launcher, opens, early, given, dropped>>

\* os.Remove, whatever the read gave.
RemoveFile(t) ==
  /\ agentUp /\ taker[t].at # {}
  /\ file' = [l \in Launcher |-> IF l \in taker[t].at THEN "none" ELSE file[l]]
  /\ taker' = [taker EXCEPT ![t].at = {}]
  /\ UNCHANGED <<agentUp, launcher, opens, early, given, dropped>>

\* The files are read and returned to the app.
TakeAnswers(t) ==
  /\ agentUp /\ taker[t].pc = "read" /\ taker[t].entries = {} /\ taker[t].at = {}
  /\ given' = given \cup taker[t].paths /\ taker' = [taker EXCEPT ![t] = IdleTaker]
  /\ UNCHANGED <<agentUp, launcher, opens, file, early, dropped>>

-----------------------------------------------------------------------------

AgentStarts ==
  /\ ~agentUp /\ agentUp' = TRUE
  /\ UNCHANGED <<launcher, opens, file, early, taker, given, dropped>>

AgentStops ==
  /\ agentUp /\ agentUp' = FALSE
  /\ dropped' = dropped \cup opens \cup UNION {taker[t].paths : t \in Taker}
  /\ opens' = {} /\ taker' = [t \in Taker |-> IdleTaker]
  /\ UNCHANGED <<launcher, file, early, given>>

Taking(t) ==
  ReadDir(t) \/ (\E l \in Launcher : ReadFile(t, l)) \/ RemoveFile(t) \/ TakeAnswers(t)

ExternalOpenNext ==
  \/ \E l \in Launcher : Post(l) \/ PostFails(l) \/ CreateTemp(l) \/ WriteFile(l) \/ WriteFileFails(l)
  \/ \E t \in Taker : TakeMemory(t) \/ Taking(t)
  \/ AgentStarts \/ AgentStops

\* The app asks again and again while the agent is up.
ExternalOpenFairness ==
  \A t \in Taker : WF_openVars(TakeMemory(t)) /\ WF_openVars(Taking(t))

ExternalOpenSpec == ExternalOpenInit /\ [][ExternalOpenNext]_openVars /\ ExternalOpenFairness

-----------------------------------------------------------------------------
(* Properties *)

\* "OS file-association launcher fallback and queued delivery" (README.md:512):
\* a path that a launcher has queued is still queued, in the hands of a
\* takeData, or was returned.  It is lost only with an agent that stops, or
\* when takeData had listed its file before the launcher completed it.
QueuedOpensKept ==
  \A l \in Launcher : launcher[l] = "queued" /\ l \notin early \cup dropped =>
    l \in opens \cup given \/ file[l] = "full" \/ \E t \in Taker : l \in taker[t].paths

\* Types, and no open lost between two processes (takePersistedExternalOpens).
ExternalOpenSafe == ExternalOpenTypeOK /\ QueuedOpensKept

\* An agent that stays up returns to an app that keeps asking every path that
\* a launcher queued, those on disk from before its start too, unless it is
\* lost as above.
QueuedOpensGiven ==
  \A l \in Launcher :
    []<>(launcher[l] = "queued" => l \in given \cup early \cup dropped \/ ~agentUp)
=============================================================================
