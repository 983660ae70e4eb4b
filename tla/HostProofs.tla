----------------------------- MODULE HostProofs -----------------------------
(* Theorems about what the agent shares with the programs of the desktop:  *)
(* the platform channel (Platform), the queue of files to open             *)
(* (ExternalOpen), the coding agents it runs (AgentSessions), the          *)
(* presentation helper (Presentation) and the RDP bridge (RdpBridge), for  *)
(* every number of hosts, requests, launchers, takers, sessions, calls,    *)
(* shortcuts and chunks, and every length of certificate chain.            *)
EXTENDS Platform, ExternalOpen, AgentSessions, Presentation, RdpBridge, FiniteSetTheorems,
        SequenceTheorems, TLAPS

-----------------------------------------------------------------------------
(* The platform channel *)

\* The states of a call. One that is under way names a connection, and its id
\* is one that the connection can give.
Asking == [at : {"idle", "loaded", "write", "wait", "answered", "failed"},
           host : 0 .. MaxHosts, id : 0 .. MaxAsked]
CallSound(r) ==
  /\ r \in Asking
  /\ r.at # "idle" => r.host \in Hosts
  /\ r.at \in {"write", "wait"} => r.id \in 1 .. MaxAsked
CallsSound ==
  /\ asker \in [Asker -> Asking]
  /\ \A a \in Asker : CallSound(asker[a])

\* The connections, the ids that they gave, and the boxes of the calls.
LinksSound ==
  /\ opened \in 0 .. MaxHosts /\ active \in 0 .. MaxHosts
  /\ link \in [Hosts -> {"none", "up", "down"}]
  /\ serveHost \in [Hosts -> {"none", "catalog", "read", "closing", "ended"}]
IdsSound ==
  /\ nextAsk \in [Hosts -> 0 .. MaxAsked]
  /\ waiting \in [Hosts -> SUBSET (1 .. MaxAsked)]
  /\ sent \in [Hosts -> SUBSET (1 .. MaxAsked)]
  /\ box \in [Asker -> 0 .. MaxAsked]

\* The inductive invariant of the platform channel: the host in charge has
\* connected, and NewestServes.
PlatformInv ==
  /\ LinksSound /\ IdsSound /\ CallsSound
  /\ active <= opened
  /\ NewestServes

\* The invariant has the types in it.
LEMMA PlatformTyped == PlatformInv => PlatformTypeOK
  BY DEF PlatformInv, LinksSound, IdsSound, CallsSound, CallSound, Asking, PlatformTypeOK, Hosts

\* Connections come and go without touching the calls: a new one takes over
\* and an old one withdraws only itself.
LEMMA ConnectionStep ==
  ASSUME PlatformInv,
         Connect \/ \E h \in Hosts : Ready(h) \/ HostGone(h) \/ ReadFails(h) \/ Ended(h)
  PROVE  PlatformInv'
<1> USE PlatformAssumption DEF PlatformInv, NewestServes, LinksSound, Hosts
<1>1. UNCHANGED <<nextAsk, waiting, sent, box, asker>>
  BY DEF Connect, Ready, HostGone, ReadFails, Ended
<1>2. IdsSound' /\ CallsSound'
  BY <1>1 DEF IdsSound, CallsSound, CallSound
<1>3. CASE Connect
  BY <1>2, <1>3 DEF Connect
<1>4. ASSUME NEW h \in Hosts, Ready(h) PROVE PlatformInv'
  BY <1>2, <1>4 DEF Ready
<1>5. ASSUME NEW h \in Hosts, HostGone(h) PROVE PlatformInv'
  BY <1>2, <1>5 DEF HostGone
<1>6. ASSUME NEW h \in Hosts, ReadFails(h) PROVE PlatformInv'
  BY <1>2, <1>6 DEF ReadFails
<1>7. ASSUME NEW h \in Hosts, Ended(h) PROVE PlatformInv'
  BY <1>2, <1>7 DEF Ended
<1> QED
  BY <1>3, <1>4, <1>5, <1>6, <1>7

\* A call that moves on leaves the others where they are.
LEMMA CallMoves ==
  ASSUME CallsSound, NEW a \in Asker, NEW r, CallSound(r), asker' = [asker EXCEPT ![a] = r]
  PROVE  CallsSound'
<1>1. r \in Asking
  BY DEF CallSound
<1>2. asker' \in [Asker -> Asking]
  BY <1>1 DEF CallsSound
<1>3. ASSUME NEW o \in Asker PROVE CallSound(asker'[o])
  BY <1>3 DEF CallsSound
<1>4. \A o \in Asker : CallSound(asker[o])'
  BY <1>3 DEF CallSound
<1> QED
  BY <1>2, <1>4 DEF CallsSound

\* The record of a call, when one of its fields changes.
LEMMA CallEdited ==
  ASSUME NEW r \in Asking, r.host \in Hosts, r.id \in 1 .. MaxAsked,
         NEW step \in {"wait", "answered", "failed"}
  PROVE  CallSound([r EXCEPT !.at = step])
  BY DEF CallSound, Asking, Hosts

\* Calls do not touch the connections.
LEMMA CallStep ==
  ASSUME PlatformInv,
         \/ \E h \in Hosts, id \in 1 .. MaxAsked : Result(h, id)
         \/ \E a \in Asker : \/ Load(a) \/ RegisterCall(a) \/ WriteAsk(a) \/ Answered(a)
                             \/ HostClosed(a) \/ AskTimeout(a)
  PROVE  PlatformInv'
<1>1. UNCHANGED <<opened, active, link, serveHost>>
  BY DEF Result, Load, RegisterCall, WriteAsk, Answered, HostClosed, AskTimeout, connectionVars
<1>2. (LinksSound /\ active <= opened /\ NewestServes)'
  BY <1>1 DEF PlatformInv, LinksSound, NewestServes
<1>3. ASSUME NEW h \in Hosts, NEW id \in 1 .. MaxAsked, Result(h, id)
      PROVE  IdsSound' /\ CallsSound'
  <2>1. IdsSound'
    BY <1>3 DEF Result, PlatformInv, IdsSound
  <2>2. UNCHANGED asker
    BY <1>3 DEF Result
  <2> QED
    BY <2>1, <2>2 DEF PlatformInv, CallsSound, CallSound
<1>4. ASSUME NEW a \in Asker, Load(a) PROVE IdsSound' /\ CallsSound'
  <2> DEFINE r == [at |-> "loaded", host |-> active, id |-> 0]
  <2>1. CallSound(r)
    BY <1>4, PlatformAssumption DEF Load, CallSound, Asking, Hosts, PlatformInv, LinksSound
  <2>2. asker' = [asker EXCEPT ![a] = r]
    BY <1>4 DEF Load
  <2>3. IdsSound'
    BY <1>4, PlatformAssumption DEF Load, PlatformInv, IdsSound
  <2> HIDE DEF r
  <2> QED
    BY <2>1, <2>2, <2>3, CallMoves DEF PlatformInv
<1>5. ASSUME NEW a \in Asker, RegisterCall(a) PROVE IdsSound' /\ CallsSound'
  <2> DEFINE h == asker[a].host
             id == nextAsk[h] + 1
             r == [at |-> "write", host |-> h, id |-> id]
  <2>1. h \in Hosts /\ h \in 0 .. MaxHosts /\ nextAsk[h] \in 0 .. MaxAsked
    BY <1>5 DEF RegisterCall, PlatformInv, CallsSound, CallSound, Asking, IdsSound
  <2>2. id \in 1 .. MaxAsked
    BY <1>5, <2>1, PlatformAssumption DEF RegisterCall
  <2>3. CallSound(r)
    BY <2>1, <2>2 DEF CallSound, Asking
  <2>4. asker' = [asker EXCEPT ![a] = r]
    BY <1>5 DEF RegisterCall
  <2>5. IdsSound'
    BY <1>5, <2>1, <2>2 DEF RegisterCall, PlatformInv, IdsSound
  <2> HIDE DEF r
  <2> QED
    BY <2>3, <2>4, <2>5, CallMoves DEF PlatformInv
<1>6. ASSUME NEW a \in Asker, asker[a].at \in {"write", "wait"}
      PROVE  /\ asker[a] \in Asking /\ asker[a].host \in Hosts /\ asker[a].id \in 1 .. MaxAsked
             /\ \A step \in {"wait", "answered", "failed"} :
                  asker' = [asker EXCEPT ![a].at = step] => CallsSound'
  <2>1. asker[a] \in Asking /\ asker[a].host \in Hosts /\ asker[a].id \in 1 .. MaxAsked
    BY <1>6 DEF PlatformInv, CallsSound, CallSound
  <2>2. ASSUME NEW step \in {"wait", "answered", "failed"}, asker' = [asker EXCEPT ![a].at = step]
        PROVE  CallsSound'
    <3> DEFINE r == [asker[a] EXCEPT !.at = step]
    <3>1. CallSound(r)
      BY <2>1, CallEdited
    <3>2. asker' = [asker EXCEPT ![a] = r]
      BY <2>2
    <3> HIDE DEF r
    <3> QED
      BY <3>1, <3>2, CallMoves DEF PlatformInv
  <2> QED
    BY <2>1, <2>2
<1>7. ASSUME NEW a \in Asker, WriteAsk(a) PROVE IdsSound' /\ CallsSound'
  BY <1>6, <1>7 DEF WriteAsk, Leaves, PlatformInv, IdsSound
<1>8. ASSUME NEW a \in Asker, Answered(a) \/ HostClosed(a) \/ AskTimeout(a)
      PROVE  IdsSound' /\ CallsSound'
  BY <1>6, <1>8 DEF Answered, HostClosed, AskTimeout, Leaves, PlatformInv, IdsSound
<1> QED
  BY <1>2, <1>3, <1>4, <1>5, <1>7, <1>8 DEF PlatformInv

\* A host that connects serves until it goes, whatever the connections before
\* it still do (serveNativePlatform: Store on connect, CompareAndSwap on end).
THEOREM NewestHostServes == PlatformSpec => []PlatformSafe
<1>1. PlatformInit => PlatformInv
  BY PlatformAssumption DEF PlatformInit, PlatformInv, LinksSound, IdsSound, CallsSound,
                            CallSound, Asking, NewestServes, Hosts, Idle
<1>2. PlatformInv /\ [PlatformNext]_platformVars => PlatformInv'
  <2> SUFFICES ASSUME PlatformInv, [PlatformNext]_platformVars PROVE PlatformInv'
    OBVIOUS
  <2>1. CASE PlatformNext
    BY <2>1, ConnectionStep, CallStep DEF PlatformNext
  <2>2. CASE UNCHANGED platformVars
    BY <2>2 DEF platformVars, PlatformInv, LinksSound, IdsSound, CallsSound, CallSound,
                NewestServes
  <2> QED
    BY <2>1, <2>2
<1>3. PlatformInv => PlatformSafe
  BY PlatformTyped DEF PlatformInv, PlatformSafe
<1> QED
  BY <1>1, <1>2, <1>3, PTL DEF PlatformSpec

-----------------------------------------------------------------------------
(* The open queue *)

\* A launcher's file is where the launcher left it; it vanishes while it is
\* written only if a taker had listed it.
OpenFiles ==
  \A l \in Launcher :
    /\ launcher[l] \in {"post", "fallback"} => file[l] = "none"
    /\ file[l] = "empty" => launcher[l] = "write"
    /\ file[l] = "full" => launcher[l] = "queued"
    /\ launcher[l] = "write" /\ file[l] = "none" => l \in early

\* A taker that is idle holds nothing, the files that it listed were complete
\* or are early, and one that it is about to remove is in its hands.
TakersHold ==
  \A t \in Taker :
    /\ taker[t].pc = "idle" => taker[t].paths = {}
    /\ taker[t].pc # "read" => taker[t].entries = {} /\ taker[t].at = {}
    /\ \A l \in taker[t].entries \cup taker[t].at : l \in early \/ launcher[l] = "queued"
    /\ \A l \in taker[t].at : l \in early \cup taker[t].paths \/ file[l] # "full"

\* The inductive invariant of the open queue.
OpenInv == ExternalOpenTypeOK /\ OpenFiles /\ TakersHold /\ QueuedOpensKept

\* The launchers post or write.
LEMMA LauncherStep ==
  ASSUME OpenInv, NEW l \in Launcher,
         Post(l) \/ PostFails(l) \/ CreateTemp(l) \/ WriteFile(l) \/ WriteFileFails(l)
  PROVE  OpenInv'
<1> USE DEF OpenInv, ExternalOpenTypeOK, OpenFiles, TakersHold, QueuedOpensKept
<1>1. CASE Post(l)
  BY <1>1 DEF Post
<1>2. CASE PostFails(l)
  BY <1>2 DEF PostFails
<1>3. CASE CreateTemp(l)
  BY <1>3 DEF CreateTemp
<1>4. CASE WriteFile(l)
  BY <1>4 DEF WriteFile
<1>5. CASE WriteFileFails(l)
  BY <1>5 DEF WriteFileFails
<1> QED
  BY <1>1, <1>2, <1>3, <1>4, <1>5

\* A taker takes the memory, lists, reads and removes files, and answers.
LEMMA TakerStep ==
  ASSUME OpenInv, NEW t \in Taker,
         \/ TakeMemory(t) \/ ReadDir(t) \/ RemoveFile(t) \/ TakeAnswers(t)
         \/ \E l \in Launcher : ReadFile(t, l)
  PROVE  OpenInv'
<1> USE DEF OpenInv
<1> DEFINE Others == \A u \in Taker \ {t} : taker'[u] = taker[u]
<1>1. CASE TakeMemory(t)
  <2>1. /\ taker' \in [Taker -> TakerType] /\ Others
        /\ taker'[t].pc = "list" /\ taker'[t].paths = opens
        /\ taker'[t].entries = {} /\ taker'[t].at = {}
        /\ taker[t].pc = "idle" /\ opens' = {}
        /\ UNCHANGED <<agentUp, launcher, file, early, given, dropped>>
    BY <1>1 DEF TakeMemory, ExternalOpenTypeOK, IdleTaker, TakerType
  <2>2. ExternalOpenTypeOK' /\ OpenFiles'
    BY <2>1 DEF ExternalOpenTypeOK, OpenFiles
  <2>3. TakersHold'
    BY <2>1 DEF TakersHold
  <2>4. QueuedOpensKept'
    BY <2>1 DEF QueuedOpensKept, TakersHold
  <2> QED
    BY <2>2, <2>3, <2>4
<1>2. CASE ReadDir(t)
  <2> DEFINE entries == {l \in Launcher : file[l] # "none"}
  <2>1. /\ taker' \in [Taker -> TakerType] /\ Others
        /\ taker'[t].pc = "read" /\ taker'[t].paths = taker[t].paths
        /\ taker'[t].entries = entries /\ taker'[t].at = taker[t].at
        /\ taker[t].pc = "list" /\ early' = early \cup {l \in entries : file[l] = "empty"}
        /\ UNCHANGED <<agentUp, launcher, opens, file, given, dropped>>
    BY <1>2 DEF ReadDir, ExternalOpenTypeOK, TakerType
  <2>2. ExternalOpenTypeOK' /\ OpenFiles'
    BY <2>1 DEF ExternalOpenTypeOK, OpenFiles
  <2>3. TakersHold'
    BY <2>1 DEF TakersHold, OpenFiles, ExternalOpenTypeOK
  <2>4. QueuedOpensKept'
    BY <2>1 DEF QueuedOpensKept
  <2> QED
    BY <2>2, <2>3, <2>4
<1>3. ASSUME NEW l \in Launcher, ReadFile(t, l) PROVE OpenInv'
  <2>1. /\ taker' \in [Taker -> TakerType] /\ Others
        /\ taker'[t].pc = "read"
        /\ taker'[t].paths = taker[t].paths \cup ({l} \cap {k \in Launcher : file[k] = "full"})
        /\ taker'[t].entries = taker[t].entries \ {l} /\ taker'[t].at = {l}
        /\ taker[t].pc = "read" /\ l \in taker[t].entries
        /\ UNCHANGED <<agentUp, launcher, opens, file, early, given, dropped>>
    BY <1>3 DEF ReadFile, ExternalOpenTypeOK, TakerType
  <2>2. ExternalOpenTypeOK' /\ OpenFiles'
    BY <2>1 DEF ExternalOpenTypeOK, OpenFiles
  <2>3. TakersHold'
    BY <2>1 DEF TakersHold
  <2>4. QueuedOpensKept'
    BY <2>1 DEF QueuedOpensKept
  <2> QED
    BY <2>2, <2>3, <2>4
<1>4. CASE RemoveFile(t)
  <2>1. /\ taker' \in [Taker -> TakerType] /\ Others
        /\ taker'[t].pc = taker[t].pc /\ taker'[t].paths = taker[t].paths
        /\ taker'[t].entries = taker[t].entries /\ taker'[t].at = {}
        /\ file' = [l \in Launcher |-> IF l \in taker[t].at THEN "none" ELSE file[l]]
        /\ UNCHANGED <<agentUp, launcher, opens, early, given, dropped>>
    BY <1>4 DEF RemoveFile, ExternalOpenTypeOK, TakerType
  <2>2. ExternalOpenTypeOK' /\ OpenFiles'
    BY <2>1 DEF ExternalOpenTypeOK, OpenFiles, TakersHold
  <2>3. TakersHold'
    BY <2>1 DEF TakersHold, ExternalOpenTypeOK, TakerType
  <2>4. QueuedOpensKept'
    BY <2>1 DEF QueuedOpensKept, TakersHold
  <2> QED
    BY <2>2, <2>3, <2>4
<1>5. CASE TakeAnswers(t)
  <2>1. /\ taker' = [taker EXCEPT ![t] = IdleTaker] /\ given' = given \cup taker[t].paths
        /\ UNCHANGED <<agentUp, launcher, opens, file, early, dropped>>
    BY <1>5 DEF TakeAnswers
  <2>2. ExternalOpenTypeOK' /\ OpenFiles'
    BY <2>1 DEF ExternalOpenTypeOK, OpenFiles, IdleTaker, TakerType
  <2>3. TakersHold'
    BY <2>1 DEF TakersHold, IdleTaker, ExternalOpenTypeOK
  <2>4. QueuedOpensKept'
    BY <2>1 DEF QueuedOpensKept, ExternalOpenTypeOK
  <2> QED
    BY <2>2, <2>3, <2>4
<1> QED
  BY <1>1, <1>2, <1>3, <1>4, <1>5

\* The agent starts, or stops and loses what it holds in memory.
LEMMA AgentStep ==
  ASSUME OpenInv, AgentStarts \/ AgentStops
  PROVE  OpenInv'
<1> USE DEF OpenInv, OpenFiles, QueuedOpensKept
<1>1. CASE AgentStarts
  BY <1>1 DEF AgentStarts, ExternalOpenTypeOK, TakersHold
<1>2. CASE AgentStops
  <2>1. ExternalOpenTypeOK'
    <3>1. UNION {taker[t].paths : t \in Taker} \subseteq Launcher
      BY DEF ExternalOpenTypeOK, TakerType
    <3>2. taker' \in [Taker -> TakerType]
      BY <1>2 DEF AgentStops, IdleTaker, TakerType
    <3>3. agentUp' \in BOOLEAN
      BY <1>2 DEF AgentStops
    <3> QED
      BY <1>2, <3>1, <3>2, <3>3 DEF AgentStops, ExternalOpenTypeOK
  <2>2. OpenFiles' /\ TakersHold'
    BY <1>2 DEF AgentStops, TakersHold, IdleTaker
  <2>3. QueuedOpensKept'
    BY <1>2 DEF AgentStops
  <2> QED
    BY <2>1, <2>2, <2>3
<1> QED
  BY <1>1, <1>2

\* No open is lost between launcher, file, memory and takers, unless the agent
\* stops with it or its file was listed before it was complete
\* (takePersistedExternalOpens).
THEOREM OpensKept == ExternalOpenSpec => []ExternalOpenSafe
<1>1. ExternalOpenInit => OpenInv
  <2> SUFFICES ASSUME ExternalOpenInit PROVE OpenInv
    OBVIOUS
  <2>1. agentUp \in BOOLEAN
    BY DEF ExternalOpenInit
  <2>2. taker \in [Taker -> TakerType]
    BY DEF ExternalOpenInit, IdleTaker, TakerType
  <2>3. ExternalOpenTypeOK
    BY <2>1, <2>2 DEF ExternalOpenInit, ExternalOpenTypeOK
  <2>4. OpenFiles /\ TakersHold /\ QueuedOpensKept
    BY DEF ExternalOpenInit, OpenFiles, TakersHold, QueuedOpensKept, IdleTaker
  <2> QED
    BY <2>3, <2>4 DEF OpenInv
<1>2. OpenInv /\ [ExternalOpenNext]_openVars => OpenInv'
  <2> SUFFICES ASSUME OpenInv, [ExternalOpenNext]_openVars PROVE OpenInv'
    OBVIOUS
  <2>1. CASE ExternalOpenNext
    BY <2>1, LauncherStep, TakerStep, AgentStep DEF ExternalOpenNext, Taking
  <2>2. CASE UNCHANGED openVars
    BY <2>2
    DEF openVars, OpenInv, ExternalOpenTypeOK, OpenFiles, TakersHold, QueuedOpensKept
  <2> QED
    BY <2>1, <2>2
<1>3. OpenInv => ExternalOpenSafe
  BY DEF OpenInv, ExternalOpenSafe
<1> QED
  BY <1>1, <1>2, <1>3, PTL DEF ExternalOpenSpec

-----------------------------------------------------------------------------
(* Coding-agent sessions *)

\* Types, in parts.
Doings == Methods \cup {""}
LoopTypes ==
  /\ serving \in {"read", "write", "wait", "stop", "close", "done"}
  /\ at \in 0 .. MaxStarts /\ started \in 0 .. MaxStarts
  /\ doing \in Doings
ProcessTypes ==
  /\ listed \in [Ids -> BOOLEAN] /\ reading \in [Ids -> BOOLEAN]
  /\ kind \in [Ids -> {"codex", "claude"}]
  /\ child \in [Ids -> {"none", "run", "killed", "dead"}]
  /\ waiter \in [Ids -> {"none", "wait", "stop", "done"}]
CallTypes ==
  /\ next \in [Ids -> 0 .. MaxCalls] /\ pending \in [Ids -> SUBSET (1 .. MaxCalls)]
  /\ reply \in [Ids -> {"none", "ok", "error"}]
TurnTypes ==
  /\ turnID \in [Ids -> 0 .. MaxCalls] /\ newest \in [Ids -> 0 .. MaxCalls]
  /\ running \in [Ids -> 0 .. MaxCalls] /\ unstarted \in [Ids -> SUBSET (1 .. MaxCalls)]
CloseTypes ==
  /\ closing \in [Ids -> {"no", "shutdown", "fail", "kill", "done"}]
  /\ server \in [Ids -> BOOLEAN]
ToolAnswers == {"empty", "app", "again", "closed"}
ToolCalls == [of : 0 .. MaxStarts, step : {"none", "arrived", "open", "taken", "done"},
              chan : ToolAnswers, first : ToolAnswers,
              result : {"none", "app", "again", "closed", "timeout", "gone"}]

\* The loop works on a session while it calls or stops one.
LoopAtSession == serving \in {"write", "wait", "stop"} => at \in Ids

\* Codex announces turns in the order of the calls that started them, and none
\* before its call was written: the turn of the last reply is not older than
\* the newest that was announced.
TurnsInOrder ==
  \A i \in Ids : /\ newest[i] <= next[i]
                 /\ \A c \in unstarted[i] : c <= next[i]
                 /\ turnID[i] # 0 => turnID[i] >= newest[i]

\* The channel of a tool call holds its first answer until the call takes it,
\* and whatever is put there afterwards is not its first.
AnswerSound(c) ==
  /\ c \in ToolCalls
  /\ c.step \in {"none", "arrived", "open"} => c.result = "none" /\ c.chan = c.first
  /\ c.result \in {"none", "timeout", "gone", c.first}
AnswersSound ==
  /\ tool \in [1 .. MaxTools -> ToolCalls]
  /\ \A t \in 1 .. MaxTools : AnswerSound(tool[t])

\* The inductive invariant of the coding-agent sessions.
AgentInv ==
  /\ gone \in BOOLEAN /\ LoopTypes /\ ProcessTypes /\ CallTypes /\ TurnTypes /\ CloseTypes
  /\ LoopAtSession /\ TurnsInOrder /\ AnswersSound

\* The bounds are numbers.
LEMMA AgentBounds == MaxStarts \in Nat /\ MaxCalls \in Nat /\ MaxTools \in Nat
  BY AgentSessionsAssumption

\* Every step keeps the frame loop at a session while it serves one.
LEMMA AgentLoopStep ==
  ASSUME AgentInv, AgentSessionsNext
  PROVE  LoopTypes' /\ LoopAtSession'
<1>1. LoopTypes /\ LoopAtSession
  BY DEF AgentInv
<1>2. /\ "initialize" \in Doings /\ "thread/start" \in Doings
     /\ \A m \in Methods : m \in Doings
  BY DEF Doings, Methods
<1> USE <1>1, <1>2, AgentBounds DEF LoopTypes, LoopAtSession, Ids
<1>3. CASE Start
  <2>1. /\ serving = "read" /\ started < MaxStarts /\ started' = started + 1
        /\ \/ serving' = "write" /\ doing' = "initialize" /\ at' = started + 1
           \/ UNCHANGED <<serving, doing, at>>
    BY <1>3 DEF Start
  <2> QED
    BY <2>1
<1>4. ASSUME NEW i \in Ids, NEW m \in Methods, Request(i, m) PROVE LoopTypes' /\ LoopAtSession'
  <2>1. serving' = "write" /\ at' = i /\ doing' = m /\ started' = started
    BY <1>4 DEF Request
  <2> QED
    BY <2>1
<1>5. CASE WriteCall
  <2>1. serving = "write" /\ UNCHANGED <<at, doing, started>>
    BY <1>5 DEF WriteCall
  <2>2. serving' \in {"wait", "read", "stop"}
    BY <1>5 DEF WriteCall, CallFails
  <2> QED
    BY <2>1, <2>2
<1>6. CASE CallReturns
  <2>1. serving = "wait" /\ UNCHANGED <<at, started>>
    BY <1>6 DEF CallReturns
  <2>2. serving' \in {"read", "write"} /\ doing' \in {doing, "thread/start"}
    BY <1>6 DEF CallReturns
  <2> QED
    BY <2>1, <2>2
<1>7. CASE CallEnds
  <2>1. serving = "wait" /\ UNCHANGED <<at, doing, started>>
    BY <1>7 DEF CallEnds
  <2>2. serving' \in {"read", "stop"}
    BY <1>7 DEF CallEnds, CallFails
  <2> QED
    BY <2>1, <2>2
<1>8. CASE StopReturns \/ CloseCodex \/ SocketGone
  BY <1>8 DEF StopReturns, CloseCodex, SocketGone
<1>9. CASE CloseClaude
  <2>1. /\ UNCHANGED <<doing, started>>
        /\ \/ serving' = "stop" /\ at' \in Ids
           \/ serving' = "done" /\ at' = at
    BY <1>9 DEF CloseClaude
  <2> QED
    BY <2>1
<1>10. ASSUME NEW i \in Ids, StopRequest(i) PROVE LoopTypes' /\ LoopAtSession'
  <2>1. /\ serving = "read" /\ UNCHANGED <<doing, started>>
        /\ \/ serving' = "stop" /\ at' = i
           \/ UNCHANGED <<serving, at>>
    BY <1>10 DEF StopRequest
  <2> QED
    BY <2>1
<1>11. CASE UNCHANGED <<loopVars, started>>
  BY <1>11 DEF loopVars
<1>12. ASSUME NEW t \in 1 .. MaxTools,
              RespondTool(t) \/ ToolArrives(t) \/ ToolOpens(t) \/ ToolAnswered(t) \/ ToolGivenUp(t)
                \/ ToolDone(t)
       PROVE  UNCHANGED <<loopVars, started>>
  BY <1>12 DEF RespondTool, ToolArrives, ToolOpens, ToolAnswered, ToolGivenUp, ToolDone
<1>13. ASSUME NEW i \in Ids,
              Shutdown(i) \/ FailPending(i) \/ KillClaude(i) \/ TurnStarted(i) \/ TurnCompleted(i)
                \/ ChildExits(i) \/ ReadEnds(i) \/ Published(i) \/ Exited(i)
                \/ \E c \in 1 .. MaxCalls, outcome \in {"ok", "error"} : Response(i, c, outcome)
       PROVE  UNCHANGED <<loopVars, started>>
  BY <1>13 DEF Shutdown, FailPending, KillClaude, TurnStarted, TurnCompleted, ChildExits,
               ReadEnds, Published, Exited, Response
<1> QED
  BY <1>3, <1>4, <1>5, <1>6, <1>7, <1>8, <1>9, <1>10, <1>11, <1>12, <1>13
     DEF AgentSessionsNext, Loop, Stopping, Handler

\* Processes: a boolean or a state of one session is set.
LEMMA SessionSet ==
  ASSUME NEW S, NEW f \in [Ids -> S], NEW i \in Ids, NEW x \in S
  PROVE  [f EXCEPT ![i] = x] \in [Ids -> S]
  OBVIOUS

\* stopCodexSession keeps the types.
LEMMA StopCodexTypes ==
  ASSUME ProcessTypes, NEW i \in Ids, StopCodex(i)
  PROVE  /\ listed' \in [Ids -> BOOLEAN]
         /\ child' \in [Ids -> {"none", "run", "killed", "dead"}]
<1>1. listed' = [listed EXCEPT ![i] = FALSE] /\ FALSE \in BOOLEAN
  BY DEF StopCodex
<1>2. listed' \in [Ids -> BOOLEAN]
  BY <1>1, SessionSet DEF ProcessTypes
<1>3. child' \in [Ids -> {"none", "run", "killed", "dead"}]
  BY DEF StopCodex, ProcessTypes
<1> QED
  BY <1>2, <1>3

\* Taking a Claude session out of the table keeps the types.
LEMMA TakeClaudeTypes ==
  ASSUME ProcessTypes, CloseTypes, NEW i \in Ids, TakeClaude(i)
  PROVE  /\ listed' \in [Ids -> BOOLEAN]
         /\ closing' \in [Ids -> {"no", "shutdown", "fail", "kill", "done"}]
<1>1. listed' = [listed EXCEPT ![i] = FALSE] /\ FALSE \in BOOLEAN
  BY DEF TakeClaude
<1>2. listed' \in [Ids -> BOOLEAN]
  BY <1>1, SessionSet DEF ProcessTypes
<1>3. closing' \in [Ids -> {"no", "shutdown", "fail", "kill", "done"}]
  BY DEF TakeClaude, CloseTypes
<1> QED
  BY <1>2, <1>3

\* A failed call stops its session or leaves it.
LEMMA CallFailsTypes ==
  ASSUME ProcessTypes, CloseTypes, at \in Ids, CallFails
  PROVE  /\ listed' \in [Ids -> BOOLEAN]
         /\ child' \in [Ids -> {"none", "run", "killed", "dead"}]
         /\ closing' \in [Ids -> {"no", "shutdown", "fail", "kill", "done"}]
<1>1. CASE StopCodex(at) /\ UNCHANGED closing
  BY <1>1, StopCodexTypes DEF CloseTypes
<1>2. CASE TakeClaude(at) /\ UNCHANGED child
  BY <1>2, TakeClaudeTypes DEF ProcessTypes
<1>3. CASE UNCHANGED <<listed, child, closing>>
  BY <1>3 DEF ProcessTypes, CloseTypes
<1> QED
  BY <1>1, <1>2, <1>3 DEF CallFails

\* Every step keeps the types of children and of their ends.
LEMMA ProcessStep ==
  ASSUME AgentInv, AgentSessionsNext
  PROVE  ProcessTypes' /\ CloseTypes'
<1> DEFINE Goal == ProcessTypes' /\ CloseTypes'
<1>1. ProcessTypes /\ CloseTypes /\ LoopTypes /\ LoopAtSession
  BY DEF AgentInv
<1>2. CASE Start
  <2> DEFINE i == started + 1
  <2>1. i \in Ids
    BY <1>1, <1>2, AgentSessionsAssumption DEF Start, LoopTypes, Ids
  <2>2. UNCHANGED <<kind, closing>>
    BY <1>2 DEF Start
  <2>3. CASE UNCHANGED <<processVars, server>>
    BY <1>1, <2>2, <2>3 DEF processVars, ProcessTypes, CloseTypes
  <2>4. CASE /\ listed' = [listed EXCEPT ![i] = TRUE]
             /\ child' = [child EXCEPT ![i] = "run"]
             /\ reading' = [reading EXCEPT ![i] = TRUE]
             /\ waiter' = [waiter EXCEPT ![i] = "wait"]
             /\ \E tools \in BOOLEAN : server' = [server EXCEPT ![i] = tools]
    <3>1. child' \in [Ids -> {"none", "run", "killed", "dead"}]
          /\ waiter' \in [Ids -> {"none", "wait", "stop", "done"}]
      BY <1>1, <2>4 DEF ProcessTypes
    <3>2. TRUE \in BOOLEAN
      OBVIOUS
    <3> HIDE DEF i
    <3>3. listed' \in [Ids -> BOOLEAN] /\ reading' \in [Ids -> BOOLEAN]
      BY <1>1, <2>1, <2>4, <3>2, SessionSet DEF ProcessTypes
    <3>4. server' \in [Ids -> BOOLEAN]
      BY <1>1, <2>1, <2>4, SessionSet DEF CloseTypes
    <3> QED
      BY <1>1, <2>2, <3>1, <3>3, <3>4 DEF ProcessTypes, CloseTypes
  <2> QED
    BY <1>2, <2>3, <2>4 DEF Start
<1>3. CASE WriteCall \/ CallEnds
  <2>1. at \in Ids /\ UNCHANGED <<kind, reading, waiter, server>>
    BY <1>1, <1>3 DEF WriteCall, CallEnds, LoopAtSession
  <2>2. CallFails \/ UNCHANGED <<listed, child, closing>>
    BY <1>3 DEF WriteCall, CallEnds
  <2> QED
    BY <1>1, <2>1, <2>2, CallFailsTypes DEF ProcessTypes, CloseTypes
<1>4. CASE CallReturns
  <2>1. at \in Ids /\ UNCHANGED <<kind, reading, waiter, closing, server>>
    BY <1>1, <1>4 DEF CallReturns, LoopAtSession, closeVars
  <2>2. StopCodex(at) \/ UNCHANGED <<listed, child>>
    BY <1>4 DEF CallReturns
  <2> QED
    BY <1>1, <2>1, <2>2, StopCodexTypes DEF ProcessTypes, CloseTypes
<1>5. ASSUME NEW i \in Ids,
             \/ StopCodex(i) /\ UNCHANGED closing
             \/ TakeClaude(i) /\ UNCHANGED child,
             UNCHANGED <<kind, reading, server>>,
             waiter' \in {waiter, [waiter EXCEPT ![i] = "done"]}
      PROVE  Goal
  <2>1. waiter' \in [Ids -> {"none", "wait", "stop", "done"}]
    BY <1>1, <1>5 DEF ProcessTypes
  <2> QED
    BY <1>1, <1>5, <2>1, StopCodexTypes, TakeClaudeTypes DEF ProcessTypes, CloseTypes
<1>6. ASSUME NEW i \in Ids, StopRequest(i) \/ Exited(i) PROVE Goal
  <2>1. /\ \/ StopCodex(i) /\ UNCHANGED closing
           \/ TakeClaude(i) /\ UNCHANGED child
        /\ UNCHANGED <<kind, reading, server>>
        /\ waiter' \in {waiter, [waiter EXCEPT ![i] = "done"]}
    BY <1>6 DEF StopRequest, Exited
  <2> QED
    BY <1>5, <2>1
<1>7. CASE CloseCodex
  <2>1. /\ listed' = [i \in Ids |-> listed[i] /\ kind[i] = "claude"]
        /\ UNCHANGED <<kind, reading, waiter, closing, server>>
    BY <1>7 DEF CloseCodex, closeVars
  <2>2. child' \in [Ids -> {"none", "run", "killed", "dead"}]
    BY <1>1, <1>7 DEF CloseCodex, ProcessTypes
  <2>3. \A i \in Ids : (listed[i] /\ kind[i] = "claude") \in BOOLEAN
    OBVIOUS
  <2>4. listed' \in [Ids -> BOOLEAN]
    BY <2>1, <2>3
  <2> QED
    BY <1>1, <2>1, <2>2, <2>4 DEF ProcessTypes, CloseTypes
<1>8. CASE CloseClaude
  <2>1. UNCHANGED <<kind, child, reading, waiter, server>>
    BY <1>8 DEF CloseClaude
  <2>2. (\E i \in Ids : TakeClaude(i)) \/ UNCHANGED <<listed, closing>>
    BY <1>8 DEF CloseClaude
  <2> QED
    BY <1>1, <2>1, <2>2, TakeClaudeTypes DEF ProcessTypes, CloseTypes
<1>9. ASSUME NEW i \in Ids, Shutdown(i) \/ FailPending(i) \/ KillClaude(i) PROVE Goal
  <2>1. /\ UNCHANGED <<kind, listed, reading, waiter>>
        /\ server' \in {server, [server EXCEPT ![i] = FALSE]}
    BY <1>9 DEF Shutdown, FailPending, KillClaude, processVars
  <2>2. /\ closing' \in [Ids -> {"no", "shutdown", "fail", "kill", "done"}]
        /\ child' \in [Ids -> {"none", "run", "killed", "dead"}]
    BY <1>1, <1>9 DEF Shutdown, FailPending, KillClaude, processVars, ProcessTypes, CloseTypes
  <2>3. FALSE \in BOOLEAN
    OBVIOUS
  <2>4. server' \in [Ids -> BOOLEAN]
    BY <1>1, <2>1, <2>3, SessionSet DEF CloseTypes
  <2> QED
    BY <1>1, <2>1, <2>2, <2>4 DEF ProcessTypes, CloseTypes
<1>10. ASSUME NEW i \in Ids, ChildExits(i) \/ ReadEnds(i) PROVE Goal
  <2>1. /\ UNCHANGED <<kind, listed, waiter, closing, server>>
        /\ reading' \in {reading, [reading EXCEPT ![i] = FALSE]}
    BY <1>10 DEF ChildExits, ReadEnds, closeVars
  <2>2. child' \in [Ids -> {"none", "run", "killed", "dead"}]
    BY <1>1, <1>10 DEF ChildExits, ReadEnds, ProcessTypes
  <2>3. FALSE \in BOOLEAN
    OBVIOUS
  <2>4. reading' \in [Ids -> BOOLEAN]
    BY <1>1, <2>1, <2>3, SessionSet DEF ProcessTypes
  <2> QED
    BY <1>1, <2>1, <2>2, <2>4 DEF ProcessTypes, CloseTypes
<1>11. CASE UNCHANGED <<processVars, kind, closeVars>>
  BY <1>1, <1>11 DEF processVars, closeVars, ProcessTypes, CloseTypes
<1>12. ASSUME NEW t \in 1 .. MaxTools,
              RespondTool(t) \/ ToolArrives(t) \/ ToolOpens(t) \/ ToolAnswered(t) \/ ToolGivenUp(t)
                \/ ToolDone(t)
       PROVE  UNCHANGED <<processVars, kind, closeVars>>
  BY <1>12 DEF RespondTool, ToolArrives, ToolOpens, ToolAnswered, ToolGivenUp, ToolDone
<1>13. ASSUME NEW i \in Ids,
              TurnStarted(i) \/ TurnCompleted(i) \/ (\E m \in Methods : Request(i, m))
                \/ \E c \in 1 .. MaxCalls, outcome \in {"ok", "error"} : Response(i, c, outcome)
       PROVE  UNCHANGED <<processVars, kind, closeVars>>
  BY <1>13 DEF TurnStarted, TurnCompleted, Response, Request
<1>14. CASE StopReturns \/ SocketGone
  BY <1>11, <1>14 DEF StopReturns, SocketGone
<1>15. CASE Loop
  BY <1>2, <1>3, <1>4, <1>6, <1>7, <1>8, <1>11, <1>12, <1>13, <1>14, <1>15 DEF Loop
<1>16. CASE \E t \in 1 .. MaxTools : ToolArrives(t) \/ Handler(t)
  BY <1>11, <1>12, <1>16 DEF Handler
<1>17. ASSUME NEW i \in Ids, Published(i) PROVE Goal
  <2>1. waiter' = [waiter EXCEPT ![i] = "stop"]
        /\ UNCHANGED <<kind, listed, child, reading, closing, server>>
    BY <1>17 DEF Published
  <2>2. waiter' \in [Ids -> {"none", "wait", "stop", "done"}]
    BY <1>1, <2>1 DEF ProcessTypes
  <2> QED
    BY <1>1, <2>1, <2>2 DEF ProcessTypes, CloseTypes
<1>18. CASE \E i \in Ids :
             \/ Stopping(i) \/ TurnStarted(i) \/ TurnCompleted(i) \/ ChildExits(i) \/ ReadEnds(i)
             \/ Published(i) \/ Exited(i)
             \/ \E c \in 1 .. MaxCalls, outcome \in {"ok", "error"} : Response(i, c, outcome)
  BY <1>6, <1>9, <1>10, <1>11, <1>13, <1>17, <1>18 DEF Stopping
<1> QED
  BY <1>14, <1>15, <1>16, <1>18 DEF AgentSessionsNext

\* Calls and turns.
LEMMA TurnStep ==
  ASSUME AgentInv, AgentSessionsNext
  PROVE  CallTypes' /\ TurnTypes' /\ TurnsInOrder'
<1> DEFINE Goal == CallTypes' /\ TurnTypes' /\ TurnsInOrder'
<1>1. CallTypes /\ TurnTypes /\ TurnsInOrder /\ LoopAtSession
  BY DEF AgentInv
<1>2. CASE WriteCall
  <2> DEFINE n == next[at] + 1
  <2>1. at \in Ids /\ next[at] \in 0 .. MaxCalls /\ next[at] < MaxCalls
    BY <1>1, <1>2 DEF WriteCall, LoopAtSession, CallTypes
  <2>2. /\ at \in Ids
        /\ next' = [next EXCEPT ![at] = n]
        /\ pending' = [pending EXCEPT ![at] = @ \cup {n}]
        /\ reply' = [reply EXCEPT ![at] = "none"]
        /\ UNCHANGED <<turnID, newest, running>>
    <3>1. next' = [next EXCEPT ![at] = n] /\ pending' = [pending EXCEPT ![at] = @ \cup {n}]
      BY <1>2 DEF WriteCall
    <3>2. reply' = [reply EXCEPT ![at] = "none"]
      BY <1>2 DEF WriteCall
    <3>3. UNCHANGED <<turnID, newest, running>>
      BY <1>2 DEF WriteCall
    <3> QED
      BY <2>1, <3>1, <3>2, <3>3
  <2>3. unstarted' = unstarted \/ unstarted' = [unstarted EXCEPT ![at] = @ \cup {n}]
    <3>1. \/ UNCHANGED unstarted
          \/ unstarted' = [unstarted EXCEPT ![at] = IF doing = "turn/start" THEN @ \cup {n} ELSE @]
      BY <1>2 DEF WriteCall
    <3>2. unstarted = [unstarted EXCEPT ![at] = @]
      BY <1>1, <2>1 DEF TurnTypes
    <3> QED
      BY <3>1, <3>2
  <2>4. n \in 1 .. MaxCalls /\ n > next[at]
    BY <2>1, AgentBounds
  <2> HIDE DEF n
  <2>5. CallTypes'
    BY <1>1, <2>2, <2>4 DEF CallTypes
  <2>6. TurnTypes'
    BY <1>1, <2>2, <2>3, <2>4 DEF TurnTypes
  <2>7. \A i \in Ids : next'[i] >= next[i] /\ next'[i] \in Nat /\ next[i] \in Nat
    BY <1>1, <2>2, <2>4 DEF CallTypes
  <2>8. \A i \in Ids : \A c \in unstarted'[i] : c \in unstarted[i] \/ (i = at /\ c = n)
    BY <1>1, <2>2, <2>3 DEF TurnTypes
  <2>9. next'[at] = n
    BY <1>1, <2>2 DEF CallTypes
  <2>10. ASSUME NEW i \in Ids
        PROVE  /\ newest'[i] <= next'[i]
               /\ \A c \in unstarted'[i] : c <= next'[i]
               /\ turnID'[i] # 0 => turnID'[i] >= newest'[i]
    <3>1. /\ newest[i] \in Nat /\ newest[i] <= next[i]
          /\ turnID[i] # 0 => turnID[i] >= newest[i]
          /\ newest'[i] = newest[i] /\ turnID'[i] = turnID[i]
      BY <1>1, <2>2 DEF TurnTypes, TurnsInOrder
    <3>2. ASSUME NEW c \in unstarted'[i] PROVE c <= next'[i]
      <4>1. c \in Nat
        BY <2>6 DEF TurnTypes
      <4>2. CASE c \in unstarted[i]
        BY <1>1, <2>7, <4>1, <4>2 DEF TurnsInOrder
      <4>3. CASE i = at /\ c = n
        BY <2>4, <2>9, <4>3
      <4> QED
        BY <2>8, <4>2, <4>3
    <3> QED
      BY <2>7, <3>1, <3>2
  <2> QED
    BY <2>5, <2>6, <2>10 DEF TurnsInOrder
<1>3. CASE CallReturns
  <2>1. /\ at \in Ids /\ UNCHANGED <<next, pending, reply, newest, running, unstarted>>
        /\ turnID' \in {turnID, [turnID EXCEPT ![at] = next[at]]}
    BY <1>1, <1>3 DEF CallReturns, LoopAtSession, callVars
  <2>2. CallTypes' /\ TurnTypes'
    BY <1>1, <2>1 DEF CallTypes, TurnTypes
  <2>3. \A i \in Ids : turnID'[i] = turnID[i] \/ turnID'[i] = next[i]
    BY <1>1, <2>1 DEF TurnTypes
  <2>4. \A i \in Ids : newest[i] \in Nat /\ next[i] \in Nat
    BY <1>1 DEF TurnTypes, CallTypes
  <2> QED
    BY <1>1, <2>1, <2>2, <2>3, <2>4 DEF TurnsInOrder
<1>4. ASSUME NEW i \in Ids, \/ FailPending(i)
                            \/ \E c \in 1 .. MaxCalls, outcome \in {"ok", "error"} : Response(i, c, outcome)
      PROVE  Goal
  <2>1. UNCHANGED <<next, turnVars>>
    BY <1>4 DEF FailPending, Response
  <2>2. pending' \in [Ids -> SUBSET (1 .. MaxCalls)]
    BY <1>1, <1>4 DEF FailPending, Response, CallTypes
  <2>3. reply' \in [Ids -> {"none", "ok", "error"}]
    BY <1>1, <1>4 DEF FailPending, Response, CallTypes
  <2> QED
    BY <1>1, <2>1, <2>2, <2>3 DEF turnVars, CallTypes, TurnTypes, TurnsInOrder
<1>5. ASSUME NEW i \in Ids, TurnStarted(i) PROVE Goal
  <2>1. PICK c \in unstarted[i] :
          /\ running' = [running EXCEPT ![i] = c] /\ newest' = [newest EXCEPT ![i] = c]
          /\ turnID' = [turnID EXCEPT ![i] = c]
          /\ unstarted' = [unstarted EXCEPT ![i] = @ \ {c}]
    BY <1>5 DEF TurnStarted
  <2>2. UNCHANGED <<next, pending, reply>>
    BY <1>5 DEF TurnStarted, callVars
  <2>3. c \in 1 .. MaxCalls
    BY <1>1 DEF TurnTypes
  <2>4. CallTypes' /\ TurnTypes'
    BY <1>1, <2>1, <2>2, <2>3 DEF CallTypes, TurnTypes
  <2>5. \A o \in Ids : /\ o = i => newest'[o] = c /\ turnID'[o] = c
                       /\ o # i => newest'[o] = newest[o] /\ turnID'[o] = turnID[o]
                       /\ unstarted'[o] \subseteq unstarted[o]
    BY <1>1, <2>1 DEF TurnTypes
  <2>6. c <= next[i]
    BY <1>1 DEF TurnsInOrder
  <2>7. c >= c
    BY <2>3
  <2> QED
    BY <1>1, <2>2, <2>4, <2>5, <2>6, <2>7 DEF TurnsInOrder
<1>6. ASSUME NEW i \in Ids, TurnCompleted(i) PROVE Goal
  <2>1. /\ running' = [running EXCEPT ![i] = 0] /\ turnID' = [turnID EXCEPT ![i] = 0]
        /\ UNCHANGED <<next, pending, reply, newest, unstarted>>
    BY <1>6 DEF TurnCompleted, callVars
  <2>2. CallTypes' /\ TurnTypes'
    BY <1>1, <2>1, AgentBounds DEF CallTypes, TurnTypes
  <2>3. \A o \in Ids : turnID'[o] = 0 \/ turnID'[o] = turnID[o]
    BY <1>1, <2>1 DEF TurnTypes
  <2> QED
    BY <1>1, <2>1, <2>2, <2>3 DEF TurnsInOrder
<1>7. CASE UNCHANGED <<callVars, turnVars>>
  BY <1>1, <1>7 DEF callVars, turnVars, CallTypes, TurnTypes, TurnsInOrder
<1>8. ASSUME NEW t \in 1 .. MaxTools,
             RespondTool(t) \/ ToolArrives(t) \/ ToolOpens(t) \/ ToolAnswered(t) \/ ToolGivenUp(t)
               \/ ToolDone(t)
      PROVE  UNCHANGED <<callVars, turnVars>>
  BY <1>8 DEF RespondTool, ToolArrives, ToolOpens, ToolAnswered, ToolGivenUp, ToolDone
<1>9. ASSUME NEW i \in Ids,
             Shutdown(i) \/ KillClaude(i) \/ ChildExits(i) \/ ReadEnds(i) \/ Published(i)
               \/ Exited(i) \/ StopRequest(i) \/ \E m \in Methods : Request(i, m)
      PROVE  UNCHANGED <<callVars, turnVars>>
  BY <1>9 DEF Shutdown, KillClaude, ChildExits, ReadEnds, Published, Exited, StopRequest, Request
<1>10. CASE Start \/ CallEnds \/ StopReturns \/ CloseCodex \/ CloseClaude \/ SocketGone
  <2>1. UNCHANGED <<callVars, turnVars>>
    BY <1>10 DEF Start, CallEnds, StopReturns, CloseCodex, CloseClaude, SocketGone
  <2> QED
    BY <1>7, <2>1
<1>11. CASE Loop
  BY <1>2, <1>3, <1>7, <1>8, <1>9, <1>10, <1>11 DEF Loop
<1>12. CASE \E t \in 1 .. MaxTools : ToolArrives(t) \/ Handler(t)
  BY <1>7, <1>8, <1>12 DEF Handler
<1>13. CASE \E i \in Ids :
              \/ Stopping(i) \/ TurnStarted(i) \/ TurnCompleted(i) \/ ChildExits(i) \/ ReadEnds(i)
              \/ Published(i) \/ Exited(i)
              \/ \E c \in 1 .. MaxCalls, outcome \in {"ok", "error"} : Response(i, c, outcome)
  BY <1>4, <1>5, <1>6, <1>7, <1>9, <1>13 DEF Stopping
<1> QED
  BY <1>10, <1>11, <1>12, <1>13 DEF AgentSessionsNext

\* Tool calls: one of them moves.
LEMMA ToolMoves ==
  ASSUME AnswersSound, NEW t \in 1 .. MaxTools, NEW c, AnswerSound(c),
         tool' = [tool EXCEPT ![t] = c]
  PROVE  AnswersSound'
<1>1. tool' \in [1 .. MaxTools -> ToolCalls]
  BY DEF AnswersSound, AnswerSound
<1>2. ASSUME NEW u \in 1 .. MaxTools PROVE AnswerSound(tool'[u])
  BY <1>2 DEF AnswersSound
<1>3. \A u \in 1 .. MaxTools : AnswerSound(tool[u])'
  BY <1>2 DEF AnswerSound
<1> QED
  BY <1>1, <1>3 DEF AnswersSound

\* What is offered is the first answer, or not put into a full channel.
LEMMA OfferedSound ==
  ASSUME NEW c, AnswerSound(c), c.step \in {"open", "taken"}, NEW v \in ToolAnswers \ {"empty"}
  PROVE  AnswerSound(Offered(c, v))
<1>1. CASE c.chan # "empty"
  BY <1>1 DEF Offered
<1>2. CASE c.chan = "empty" /\ c.first = "empty"
  <2>1. Offered(c, v) = [c EXCEPT !.chan = v, !.first = v]
    BY <1>2 DEF Offered
  <2>2. [c EXCEPT !.chan = v, !.first = v] \in ToolCalls
    BY DEF AnswerSound, ToolCalls
  <2> QED
    BY <1>2, <2>1, <2>2 DEF AnswerSound, ToolCalls
<1>3. CASE c.chan = "empty" /\ c.first # "empty"
  <2>1. Offered(c, v) = [c EXCEPT !.chan = v, !.first = c.first]
    BY <1>3 DEF Offered
  <2>2. [c EXCEPT !.chan = v, !.first = c.first] \in ToolCalls
    BY DEF AnswerSound, ToolCalls
  <2> QED
    BY <1>3, <2>1, <2>2 DEF AnswerSound, ToolCalls
<1> QED
  BY <1>1, <1>2, <1>3

\* The calls of a session's tools get what is put there first.
LEMMA ToolStep ==
  ASSUME AgentInv, AgentSessionsNext
  PROVE  AnswersSound'
<1>1. AnswersSound
  BY DEF AgentInv
<1>2. ASSUME NEW t \in 1 .. MaxTools PROVE tool[t] \in ToolCalls /\ AnswerSound(tool[t])
  BY <1>1 DEF AnswersSound, AnswerSound
<1>3. ASSUME NEW t \in 1 .. MaxTools, RespondTool(t) PROVE AnswersSound'
  <2> DEFINE v == IF tool[t].first = "empty" THEN "app" ELSE "again"
             c == Offered(tool[t], v)
  <2>1. v \in ToolAnswers \ {"empty"}
    BY DEF ToolAnswers
  <2>2. tool[t].step \in {"open", "taken"}
    BY <1>3 DEF RespondTool
  <2>3. tool' = [tool EXCEPT ![t] = c]
    BY <1>3 DEF RespondTool
  <2> HIDE DEF v
  <2>4. AnswerSound(c)
    BY <1>2, <2>1, <2>2, OfferedSound
  <2> HIDE DEF c
  <2> QED
    BY <1>1, <2>3, <2>4, ToolMoves
<1>4. ASSUME NEW i \in Ids, FailPending(i) PROVE AnswersSound'
  <2> DEFINE Fails(t) == tool[t].of = i /\ tool[t].step \in {"open", "taken"}
  <2>1. tool' = [t \in 1 .. MaxTools |->
                   IF Fails(t) THEN Offered(tool[t], "closed") ELSE tool[t]]
    BY <1>4 DEF FailPending, ToldClosed
  <2>2. "closed" \in ToolAnswers \ {"empty"}
    BY DEF ToolAnswers
  <2>3. ASSUME NEW t \in 1 .. MaxTools PROVE AnswerSound(tool'[t])
    <3>1. CASE Fails(t)
      <4>1. tool'[t] = Offered(tool[t], "closed") /\ tool[t].step \in {"open", "taken"}
        BY <2>1, <3>1
      <4>2. AnswerSound(Offered(tool[t], "closed"))
        BY <1>2, <2>2, <4>1, OfferedSound
      <4> QED
        BY <4>1, <4>2
    <3>2. CASE ~Fails(t)
      BY <1>2, <2>1, <3>2
    <3> QED
      BY <3>1, <3>2
  <2>4. \A t \in 1 .. MaxTools : AnswerSound(tool[t])' /\ tool'[t] \in ToolCalls
    BY <2>3 DEF AnswerSound
  <2>5. tool' \in [1 .. MaxTools -> ToolCalls]
    BY <2>1, <2>4
  <2> QED
    BY <2>4, <2>5 DEF AnswersSound
<1>5. ASSUME NEW t \in 1 .. MaxTools, ToolArrives(t) PROVE AnswersSound'
  <2>1. PICK i \in Ids : tool' = [tool EXCEPT ![t].of = i, ![t].step = "arrived"]
    BY <1>5 DEF ToolArrives
  <2> DEFINE c == [tool[t] EXCEPT !.of = i, !.step = "arrived"]
  <2>2. tool' = [tool EXCEPT ![t] = c]
    BY <1>1, <2>1 DEF AnswersSound
  <2>3. tool[t].step = "none"
    BY <1>5 DEF ToolArrives
  <2>4. i \in 0 .. MaxStarts
    BY AgentBounds DEF Ids
  <2>5. AnswerSound(c)
    BY <1>2, <2>3, <2>4 DEF AnswerSound, ToolCalls
  <2> HIDE DEF c
  <2> QED
    BY <1>1, <2>2, <2>5, ToolMoves
<1>6. ASSUME NEW t \in 1 .. MaxTools, ToolOpens(t) \/ ToolDone(t) PROVE AnswersSound'
  <2> DEFINE s == IF tool[t].step = "arrived" THEN "open" ELSE "done"
             c == [tool[t] EXCEPT !.step = s]
  <2>1. tool' = [tool EXCEPT ![t] = c] /\ tool[t].step \in {"arrived", "taken"}
    BY <1>6 DEF ToolOpens, ToolDone
  <2>2. AnswerSound(c)
    BY <1>2, <2>1 DEF AnswerSound, ToolCalls
  <2> HIDE DEF c
  <2> QED
    BY <1>1, <2>1, <2>2, ToolMoves
<1>7. ASSUME NEW t \in 1 .. MaxTools, ToolAnswered(t) PROVE AnswersSound'
  <2> DEFINE c == [tool[t] EXCEPT !.step = "taken", !.result = tool[t].chan, !.chan = "empty"]
  <2>1. tool' = [tool EXCEPT ![t] = c]
    BY <1>1, <1>7 DEF ToolAnswered, AnswersSound
  <2>2. tool[t].step = "open" /\ tool[t].chan # "empty"
    BY <1>7 DEF ToolAnswered
  <2>3. AnswerSound(c)
    BY <1>2, <2>2 DEF AnswerSound, ToolCalls, ToolAnswers
  <2> HIDE DEF c
  <2> QED
    BY <1>1, <2>1, <2>3, ToolMoves
<1>8. ASSUME NEW t \in 1 .. MaxTools, ToolGivenUp(t) PROVE AnswersSound'
  <2>1. PICK why \in {"timeout", "gone"} :
          tool' = [tool EXCEPT ![t].step = "taken", ![t].result = why]
    BY <1>8 DEF ToolGivenUp
  <2> DEFINE c == [tool[t] EXCEPT !.step = "taken", !.result = why]
  <2>2. tool' = [tool EXCEPT ![t] = c]
    BY <1>1, <2>1 DEF AnswersSound
  <2>3. AnswerSound(c)
    BY <1>2 DEF AnswerSound, ToolCalls
  <2> HIDE DEF c
  <2> QED
    BY <1>1, <2>2, <2>3, ToolMoves
<1>9. CASE UNCHANGED tool
  BY <1>1, <1>9 DEF AnswersSound, AnswerSound
<1>10. ASSUME NEW i \in Ids,
              Shutdown(i) \/ KillClaude(i) \/ TurnStarted(i) \/ TurnCompleted(i) \/ ChildExits(i)
                \/ ReadEnds(i) \/ Published(i) \/ Exited(i) \/ StopRequest(i)
                \/ (\E m \in Methods : Request(i, m))
                \/ \E c \in 1 .. MaxCalls, outcome \in {"ok", "error"} : Response(i, c, outcome)
       PROVE  UNCHANGED tool
  BY <1>10 DEF Shutdown, KillClaude, TurnStarted, TurnCompleted, ChildExits, ReadEnds, Published,
               Exited, StopRequest, Request, Response
<1>11. CASE Start \/ WriteCall \/ CallReturns \/ CallEnds \/ StopReturns \/ CloseCodex
              \/ CloseClaude \/ SocketGone
  <2>1. UNCHANGED tool
    BY <1>11 DEF Start, WriteCall, CallReturns, CallEnds, StopReturns, CloseCodex, CloseClaude,
                 SocketGone
  <2> QED
    BY <1>9, <2>1
<1>12. CASE Loop
  BY <1>3, <1>9, <1>10, <1>11, <1>12 DEF Loop
<1>13. CASE \E t \in 1 .. MaxTools : ToolArrives(t) \/ Handler(t)
  BY <1>5, <1>6, <1>7, <1>8, <1>13 DEF Handler
<1>14. CASE \E i \in Ids :
              \/ Stopping(i) \/ TurnStarted(i) \/ TurnCompleted(i) \/ ChildExits(i) \/ ReadEnds(i)
              \/ Published(i) \/ Exited(i)
              \/ \E c \in 1 .. MaxCalls, outcome \in {"ok", "error"} : Response(i, c, outcome)
  BY <1>4, <1>9, <1>10, <1>14 DEF Stopping
<1> QED
  BY <1>11, <1>12, <1>13, <1>14 DEF AgentSessionsNext

\* The socket's context is done or not.
LEMMA GoneStep ==
  ASSUME AgentInv, AgentSessionsNext
  PROVE  gone' \in BOOLEAN
<1>1. gone \in BOOLEAN
  BY DEF AgentInv
<1>2. gone' = gone \/ gone' = TRUE
  BY DEF AgentSessionsNext, Loop, Stopping, Handler, Start, Request, WriteCall, CallReturns,
         CallEnds, StopReturns, CloseCodex, CloseClaude, StopRequest, RespondTool, SocketGone,
         Shutdown, FailPending, KillClaude, TurnStarted, TurnCompleted, ChildExits, ReadEnds,
         Published, Exited, Response, ToolArrives, ToolOpens, ToolAnswered, ToolGivenUp, ToolDone,
         loopVars
<1> QED
  BY <1>1, <1>2

\* A tool call gets the first answer that was put into its channel, and an
\* interrupt never names a turn older than the newest that Codex announced
\* (agent_sessions.go, claude_sessions.go: the reader, prompt and interrupt
\* share turnID without a lock).
THEOREM AnswersReachTheirCalls == AgentSessionsSpec => []AgentSessionsSafe
<1>1. AgentSessionsInit => AgentInv
  <2> SUFFICES ASSUME AgentSessionsInit PROVE AgentInv
    OBVIOUS
  <2>1. gone \in BOOLEAN /\ LoopTypes /\ LoopAtSession
    <3>1. gone = FALSE /\ doing = ""
      BY DEF AgentSessionsInit
    <3>2. serving = "read" /\ at = 0 /\ started = 0
      BY DEF AgentSessionsInit
    <3>3. gone \in BOOLEAN /\ doing \in Doings
      BY <3>1, Zenon DEF Doings
    <3>4. LoopTypes /\ LoopAtSession
      BY <3>2, <3>3, AgentBounds DEF LoopTypes, LoopAtSession
    <3> QED
      BY <3>3, <3>4
  <2>2. ProcessTypes /\ CloseTypes
    <3>1. FALSE \in BOOLEAN
      OBVIOUS
    <3>2. /\ listed \in [Ids -> BOOLEAN] /\ reading \in [Ids -> BOOLEAN]
          /\ server \in [Ids -> BOOLEAN]
      BY <3>1 DEF AgentSessionsInit
    <3>3. /\ kind \in [Ids -> {"codex", "claude"}]
          /\ child \in [Ids -> {"none", "run", "killed", "dead"}]
          /\ waiter \in [Ids -> {"none", "wait", "stop", "done"}]
          /\ closing \in [Ids -> {"no", "shutdown", "fail", "kill", "done"}]
      BY DEF AgentSessionsInit
    <3> QED
      BY <3>2, <3>3 DEF ProcessTypes, CloseTypes
  <2>3. CallTypes /\ TurnTypes /\ TurnsInOrder
    <3>1. /\ next = [i \in Ids |-> 0] /\ pending = [i \in Ids |-> {}]
          /\ reply = [i \in Ids |-> "none"]
          /\ turnID = [i \in Ids |-> 0] /\ newest = [i \in Ids |-> 0]
          /\ running = [i \in Ids |-> 0] /\ unstarted = [i \in Ids |-> {}]
      BY DEF AgentSessionsInit
    <3> QED
      BY <3>1, AgentBounds DEF CallTypes, TurnTypes, TurnsInOrder
  <2>4. AnswersSound
    <3>1. AnswerSound(NoTool)
      BY AgentBounds DEF AnswerSound, NoTool, ToolCalls, ToolAnswers
    <3>2. NoTool \in ToolCalls
      BY <3>1 DEF AnswerSound
    <3> QED
      BY <3>1, <3>2 DEF AgentSessionsInit, AnswersSound
  <2> QED
    BY <2>1, <2>2, <2>3, <2>4 DEF AgentInv
<1>2. AgentInv /\ [AgentSessionsNext]_agentVars => AgentInv'
  <2> SUFFICES ASSUME AgentInv, [AgentSessionsNext]_agentVars PROVE AgentInv'
    OBVIOUS
  <2>1. CASE AgentSessionsNext
    BY <2>1, AgentLoopStep, ProcessStep, TurnStep, ToolStep, GoneStep DEF AgentInv
  <2>2. CASE UNCHANGED agentVars
    <3>1. LoopTypes' /\ LoopAtSession' /\ (gone \in BOOLEAN)'
      BY <2>2 DEF AgentInv, agentVars, loopVars, LoopTypes, LoopAtSession
    <3>2. ProcessTypes' /\ CloseTypes'
      BY <2>2 DEF AgentInv, agentVars, processVars, closeVars, ProcessTypes, CloseTypes
    <3>3. CallTypes' /\ TurnTypes' /\ TurnsInOrder'
      BY <2>2 DEF AgentInv, agentVars, callVars, turnVars, CallTypes, TurnTypes, TurnsInOrder
    <3>4. AnswersSound'
      BY <2>2 DEF AgentInv, agentVars, AnswersSound, AnswerSound
    <3> QED
      BY <3>1, <3>2, <3>3, <3>4 DEF AgentInv
  <2> QED
    BY <2>1, <2>2
<1>3. AgentInv => AgentSessionsSafe
  <2> SUFFICES ASSUME AgentInv PROVE AgentSessionsSafe
    OBVIOUS
  <2>1. AgentSessionsTypeOK
    BY DEF AgentInv, AgentSessionsTypeOK, LoopTypes, ProcessTypes, CallTypes, TurnTypes,
           CloseTypes, AnswersSound, ToolCalls, ToolAnswers, Doings
  <2>2. FirstAnswerWins
    BY DEF AgentInv, AnswersSound, AnswerSound, FirstAnswerWins
  <2>3. InterruptNewestTurn
    BY DEF AgentInv, TurnsInOrder, InterruptNewestTurn
  <2> QED
    BY <2>1, <2>2, <2>3 DEF AgentSessionsSafe
<1> QED
  BY <1>1, <1>2, <1>3, PTL DEF AgentSessionsSpec

-----------------------------------------------------------------------------
(* The presentation helper: a reply belongs to the call that waits because *)
(* a call only begins on an empty connection, and the controller's three   *)
(* maps stay in step because an id is never given twice.                   *)

\* The replies among the messages to the agent; the others are events.
Replying == {n \in DOMAIN outbox : outbox[n].id # 0}

\* At most one command, or its reply, is anywhere between the frame loop and
\* the helper, it is the current call's, and a connection on which a call gave
\* up is closed.
OneCall ==
  /\ Len(inbox) <= 1
  /\ inbox # <<>> => Replying = {} /\ replies = <<>>
  /\ replies # <<>> => Replying = {}
  /\ \A m, n \in Replying : m = n
  /\ frameLoop = "call" =>
       /\ \A n \in DOMAIN inbox : inbox[n].id = request.id
       /\ \A n \in Replying : outbox[n].id = request.id
       /\ \A n \in DOMAIN replies : replies[n] = request.id
  /\ frameLoop \in {"read", "launch", "accept", "write"} /\ ~closed =>
       inbox = <<>> /\ Replying = {} /\ replies = <<>>

\* The bridge is there once and for all, and before it nothing was sent.
Bridged ==
  /\ frameLoop \in {"launch", "accept"} => ~bridge
  /\ frameLoop \in {"write", "call"} => bridge
  /\ ~bridge => /\ reader = "none" /\ inbox = <<>> /\ outbox = <<>> /\ replies = <<>>
                /\ pressed = <<>> /\ DOMAIN native = {}
  /\ reader \in {"ended", "gone"} => closed

\* An id was given by now, no two shortcuts have the same, and every spelling
\* is found again through its key.
IdsGiven ==
  /\ \A a \in DOMAIN shortcuts : /\ shortcuts[a] <= nextID
                                 /\ KeyOf[a] \in DOMAIN keys /\ keys[KeyOf[a]] = a
  /\ \A a, b \in DOMAIN shortcuts : shortcuts[a] = shortcuts[b] => a = b
  /\ IsFiniteSet(DOMAIN shortcuts)

\* Only handled commands gave ids.
IdsCounted ==
  /\ nextID + Len(inbox) <= Requests
  /\ frameLoop \in {"launch", "accept", "write"} =>
       request # NoFunction /\ nextID + Len(inbox) < Requests

\* A reported key is the one its id had.
PressesNameKey ==
  /\ pressed \in Seq([id : Nat, key : Key])
  /\ \A n \in DOMAIN pressed :
       /\ pressed[n].id <= nextID
       /\ \A a \in DOMAIN shortcuts :
            shortcuts[a] = pressed[n].id => KeyOf[a] = pressed[n].key

\* The inductive invariant of the presentation helper.
PresentationInv ==
  /\ PresentationTypeOK /\ OneCall /\ Bridged /\ NativeMirrors /\ IdsGiven /\ IdsCounted
  /\ PressesNameKey /\ EventsNameKey

\* The three maps of the controller, in elements.
Maps ==
  /\ \A a \in DOMAIN shortcuts :
       /\ a \in Accel /\ shortcuts[a] \in 1 .. MaxID /\ shortcuts[a] <= nextID
       /\ KeyOf[a] \in DOMAIN keys /\ keys[KeyOf[a]] = a
       /\ shortcuts[a] \in DOMAIN native /\ native[shortcuts[a]] = KeyOf[a]
  /\ \A a, b \in DOMAIN shortcuts : shortcuts[a] = shortcuts[b] => a = b
  /\ \A k \in DOMAIN keys : /\ k \in Key /\ keys[k] \in DOMAIN shortcuts /\ KeyOf[keys[k]] = k
  /\ \A id \in DOMAIN native : \E a \in DOMAIN shortcuts : shortcuts[a] = id
  /\ IsFiniteSet(DOMAIN shortcuts) /\ Cardinality(DOMAIN shortcuts) <= MaxShortcuts

MapTypes ==
  /\ DOMAIN shortcuts \subseteq Accel /\ Range(shortcuts) \subseteq 1 .. MaxID
  /\ Cardinality(DOMAIN shortcuts) <= MaxShortcuts
  /\ DOMAIN keys \subseteq Key /\ Range(keys) \subseteq Accel
  /\ DOMAIN native \subseteq 1 .. MaxID /\ Range(native) \subseteq Key

\* What the invariant says of the three maps.
LEMMA MapsOf == MapTypes /\ NativeMirrors /\ IdsGiven => Maps
BY DEF MapTypes, NativeMirrors, IdsGiven, Maps, Range

\* And back.
LEMMA MapsAre == Maps => MapTypes /\ NativeMirrors /\ IdsGiven
<1> SUFFICES ASSUME Maps PROVE MapTypes /\ NativeMirrors /\ IdsGiven
  OBVIOUS
<1>1. IdsGiven
  BY DEF Maps, IdsGiven
<1>2. NativeMirrors
  <2>1. {KeyOf[a] : a \in DOMAIN shortcuts} = DOMAIN keys
    <3>1. \A k \in DOMAIN keys : keys[k] \in DOMAIN shortcuts /\ KeyOf[keys[k]] = k
      BY DEF Maps
    <3>2. \A a \in DOMAIN shortcuts : KeyOf[a] \in DOMAIN keys
      BY DEF Maps
    <3> QED
      BY <3>1, <3>2
  <2>2. DOMAIN native = Range(shortcuts)
    <3>1. \A id \in DOMAIN native : \E a \in DOMAIN shortcuts : shortcuts[a] = id
      BY DEF Maps
    <3>2. \A a \in DOMAIN shortcuts : shortcuts[a] \in DOMAIN native
      BY DEF Maps
    <3> QED
      BY <3>1, <3>2 DEF Range
  <2> QED
    BY <2>1, <2>2 DEF Maps, NativeMirrors
<1>3. MapTypes
  BY PresentationAssumption DEF Maps, MapTypes, Range
<1> QED
  BY <1>1, <1>2, <1>3

\* A registration keeps the maps in step and gives at most one id.
LEMMA RegisterMaps ==
  ASSUME Maps, NEW a \in Accel, nextID \in Nat, Register(a)
  PROVE  Maps' /\ nextID' \in {nextID, nextID + 1}
<1> DEFINE key == KeyOf[a]
<1>1. CASE UNCHANGED <<shortcuts, keys, native>> /\ nextID' \in {nextID, nextID + 1}
  BY <1>1 DEF Maps
<1>2. CASE /\ key \notin DOMAIN keys /\ Cardinality(DOMAIN shortcuts) < MaxShortcuts
           /\ nextID' = nextID + 1 /\ nextID + 1 <= MaxID
           /\ shortcuts' = Mapped(shortcuts, a, nextID + 1)
           /\ keys' = Mapped(keys, key, a) /\ native' = Mapped(native, nextID + 1, key)
  <2>1. /\ DOMAIN shortcuts' = DOMAIN shortcuts \cup {a} /\ shortcuts'[a] = nextID + 1
        /\ \A b \in DOMAIN shortcuts : b # a => shortcuts'[b] = shortcuts[b]
    BY <1>2 DEF Mapped
  <2>2. /\ DOMAIN keys' = DOMAIN keys \cup {key} /\ keys'[key] = a
        /\ \A k \in DOMAIN keys : k # key => keys'[k] = keys[k]
    BY <1>2 DEF Mapped
  <2>3. /\ DOMAIN native' = DOMAIN native \cup {nextID + 1} /\ native'[nextID + 1] = key
        /\ \A id \in DOMAIN native : id # nextID + 1 => native'[id] = native[id]
    BY <1>2 DEF Mapped
  <2>4. a \notin DOMAIN shortcuts /\ key \in Key
    BY <1>2, PresentationAssumption DEF Maps
  <2>5. IsFiniteSet(DOMAIN shortcuts') /\ Cardinality(DOMAIN shortcuts') <= MaxShortcuts
    <3>1. IsFiniteSet(DOMAIN shortcuts) /\ Cardinality(DOMAIN shortcuts) \in Nat
      BY FS_CardinalityType DEF Maps
    <3>2. /\ IsFiniteSet(DOMAIN shortcuts \cup {a})
          /\ Cardinality(DOMAIN shortcuts \cup {a}) = Cardinality(DOMAIN shortcuts) + 1
      BY <2>4, <3>1, FS_AddElement
    <3> QED
      BY <1>2, <2>1, <3>1, <3>2, PresentationAssumption
  <2>6. ASSUME NEW b \in DOMAIN shortcuts
        PROVE  /\ b # a /\ KeyOf[b] # key /\ shortcuts'[b] = shortcuts[b] /\ b \in Accel
               /\ shortcuts[b] \in 1 .. MaxID /\ shortcuts[b] <= nextID /\ shortcuts[b] # nextID + 1
               /\ KeyOf[b] \in DOMAIN keys /\ keys'[KeyOf[b]] = b
               /\ shortcuts[b] \in DOMAIN native /\ native'[shortcuts[b]] = KeyOf[b]
    <3>1. /\ b \in Accel /\ shortcuts[b] \in 1 .. MaxID /\ shortcuts[b] <= nextID
          /\ KeyOf[b] \in DOMAIN keys /\ keys[KeyOf[b]] = b
          /\ shortcuts[b] \in DOMAIN native /\ native[shortcuts[b]] = KeyOf[b]
      BY DEF Maps
    <3>2. shortcuts[b] # nextID + 1 /\ b # a /\ KeyOf[b] # key
      BY <1>2, <2>4, <3>1, PresentationAssumption
    <3> QED
      BY <2>1, <2>2, <2>3, <3>1, <3>2
  <2>7. ASSUME NEW b \in DOMAIN shortcuts'
        PROVE  /\ b \in Accel /\ shortcuts'[b] \in 1 .. MaxID /\ shortcuts'[b] <= nextID'
               /\ KeyOf[b] \in DOMAIN keys' /\ keys'[KeyOf[b]] = b
               /\ shortcuts'[b] \in DOMAIN native' /\ native'[shortcuts'[b]] = KeyOf[b]
    BY <1>2, <2>1, <2>2, <2>3, <2>6, PresentationAssumption
  <2>8. \A b, d \in DOMAIN shortcuts' : shortcuts'[b] = shortcuts'[d] => b = d
    BY <2>1, <2>6 DEF Maps
  <2>9. \A k \in DOMAIN keys' : k \in Key /\ keys'[k] \in DOMAIN shortcuts' /\ KeyOf[keys'[k]] = k
    BY <1>2, <2>1, <2>2, <2>4 DEF Maps
  <2>10. \A id \in DOMAIN native' : \E b \in DOMAIN shortcuts' : shortcuts'[b] = id
    BY <2>1, <2>3, <2>6 DEF Maps
  <2> QED
    BY <1>2, <2>5, <2>7, <2>8, <2>9, <2>10 DEF Maps
<1>3. Cardinality(DOMAIN shortcuts) \in Nat
  BY FS_CardinalityType DEF Maps
<1> QED
  BY <1>1, <1>2, <1>3, PresentationAssumption DEF Register, controller

\* An unregistration keeps them in step and gives none.
LEMMA UnregisterMaps ==
  ASSUME Maps, NEW a \in Accel, nextID \in Nat, Unregister(a)
  PROVE  Maps' /\ nextID' = nextID
<1>1. CASE UNCHANGED controller
  BY <1>1 DEF Maps, controller
<1>2. CASE KeyOf[a] \in DOMAIN keys
  <2> PICK key : key = KeyOf[a]
    OBVIOUS
  <2> PICK b : b = keys[key]
    OBVIOUS
  <2>1. /\ b \in DOMAIN shortcuts /\ KeyOf[b] = key /\ nextID' = nextID
        /\ native' = Without(native, {shortcuts[b]})
        /\ shortcuts' = Without(shortcuts, {b}) /\ keys' = Without(keys, {key})
    BY <1>2 DEF Unregister, Maps
  <2>2. /\ DOMAIN shortcuts' = DOMAIN shortcuts \ {b}
        /\ \A d \in DOMAIN shortcuts \ {b} : shortcuts'[d] = shortcuts[d]
    BY <2>1 DEF Without, Restrict
  <2>3. /\ DOMAIN keys' = DOMAIN keys \ {key}
        /\ \A k \in DOMAIN keys \ {key} : keys'[k] = keys[k]
    BY <2>1 DEF Without, Restrict
  <2>4. /\ DOMAIN native' = DOMAIN native \ {shortcuts[b]}
        /\ \A id \in DOMAIN native \ {shortcuts[b]} : native'[id] = native[id]
    BY <2>1 DEF Without, Restrict
  <2>5. IsFiniteSet(DOMAIN shortcuts') /\ Cardinality(DOMAIN shortcuts') <= MaxShortcuts
    <3>1. IsFiniteSet(DOMAIN shortcuts) /\ Cardinality(DOMAIN shortcuts) \in Nat
      BY FS_CardinalityType DEF Maps
    <3>2. /\ IsFiniteSet(DOMAIN shortcuts \ {b})
          /\ Cardinality(DOMAIN shortcuts \ {b}) = Cardinality(DOMAIN shortcuts) - 1
      BY <2>1, <3>1, FS_RemoveElement
    <3>3. Cardinality(DOMAIN shortcuts) <= MaxShortcuts
      BY DEF Maps
    <3> QED
      BY <2>2, <3>1, <3>2, <3>3, PresentationAssumption
  <2>6. ASSUME NEW d \in DOMAIN shortcuts'
        PROVE  /\ d \in DOMAIN shortcuts /\ shortcuts'[d] = shortcuts[d] /\ shortcuts[d] # shortcuts[b]
               /\ KeyOf[d] # key
    <3>1. d \in DOMAIN shortcuts /\ d # b /\ shortcuts'[d] = shortcuts[d]
      BY <2>2
    <3>2. /\ shortcuts[d] = shortcuts[b] => d = b
          /\ keys[KeyOf[d]] = d /\ keys[KeyOf[b]] = b
      BY <2>1, <3>1 DEF Maps
    <3> QED
      BY <2>1, <3>1, <3>2
  <2>7. ASSUME NEW d \in DOMAIN shortcuts'
        PROVE  /\ d \in Accel /\ shortcuts'[d] \in 1 .. MaxID /\ shortcuts'[d] <= nextID'
               /\ KeyOf[d] \in DOMAIN keys' /\ keys'[KeyOf[d]] = d
               /\ shortcuts'[d] \in DOMAIN native' /\ native'[shortcuts'[d]] = KeyOf[d]
    <3>1. /\ d \in Accel /\ shortcuts[d] \in 1 .. MaxID /\ shortcuts[d] <= nextID
          /\ KeyOf[d] \in DOMAIN keys /\ keys[KeyOf[d]] = d
          /\ shortcuts[d] \in DOMAIN native /\ native[shortcuts[d]] = KeyOf[d]
      BY <2>6 DEF Maps
    <3>2. keys'[KeyOf[d]] = d /\ KeyOf[d] \in DOMAIN keys'
      BY <2>3, <2>6, <3>1
    <3>3. shortcuts[d] \in DOMAIN native' /\ native'[shortcuts[d]] = KeyOf[d]
      BY <2>4, <2>6, <3>1
    <3> QED
      BY <2>1, <2>6, <3>1, <3>2, <3>3
  <2>8. \A c, d \in DOMAIN shortcuts' : shortcuts'[c] = shortcuts'[d] => c = d
    BY <2>6 DEF Maps
  <2>9. \A k \in DOMAIN keys' : k \in Key /\ keys'[k] \in DOMAIN shortcuts' /\ KeyOf[keys'[k]] = k
    <3> SUFFICES ASSUME NEW k \in DOMAIN keys \ {key}
                 PROVE  k \in Key /\ keys'[k] \in DOMAIN shortcuts' /\ KeyOf[keys'[k]] = k
      BY <2>3
    <3>1. k \in Key /\ keys[k] \in DOMAIN shortcuts /\ KeyOf[keys[k]] = k /\ keys'[k] = keys[k]
      BY <2>3 DEF Maps
    <3>2. keys[k] # b
      BY <2>1, <3>1
    <3> QED
      BY <2>2, <3>1, <3>2
  <2>10. \A id \in DOMAIN native' : \E d \in DOMAIN shortcuts' : shortcuts'[d] = id
    <3> SUFFICES ASSUME NEW id \in DOMAIN native \ {shortcuts[b]}
                 PROVE  \E d \in DOMAIN shortcuts' : shortcuts'[d] = id
      BY <2>4
    <3>1. PICK d \in DOMAIN shortcuts : shortcuts[d] = id
      BY DEF Maps
    <3> QED
      BY <2>2, <3>1
  <2> QED
    BY <2>1, <2>5, <2>7, <2>8, <2>9, <2>10 DEF Maps
<1> QED
  BY <1>1, <1>2 DEF Unregister

\* Empty maps are in step.
LEMMA NoMaps ==
  ASSUME DOMAIN shortcuts' = {}, DOMAIN keys' = {}, DOMAIN native' = {} PROVE Maps'
<1>1. IsFiniteSet({}) /\ Cardinality({}) = 0
  BY FS_EmptySet
<1> QED
  BY <1>1, PresentationAssumption DEF Maps

\* A shortcut that is new after a command has an id that was never given.
NewIdsFresh ==
  \A a \in DOMAIN shortcuts' :
    \/ a \in DOMAIN shortcuts /\ shortcuts'[a] = shortcuts[a]
    \/ shortcuts'[a] = nextID + 1

\* The fields of a command.
LEMMA CommandType ==
  ASSUME NEW c \in Commands
  PROVE  /\ c.id \in 1 .. MaxRequests /\ c # NoFunction
         /\ c.method \in {"register", "unregister", "unregisterAll", "setTray", "destroyTray"}
         /\ c.method \in {"register", "unregister"} => c.accel \in Accel
<1>1. DOMAIN NoFunction = {}
  BY DEF NoFunction
<1>2. "id" \in DOMAIN c
  BY DEF Commands
<1> QED
  BY <1>1, <1>2 DEF Commands

\* A member of a sequence.
LEMMA SeqMember ==
  ASSUME NEW S, NEW s \in Seq(S), NEW n \in DOMAIN s PROVE s[n] \in S
OBVIOUS

\* The head and the rest of a sequence.
LEMMA SeqTakes ==
  ASSUME NEW S, NEW s \in Seq(S), s # <<>>
  PROVE  /\ Head(s) \in S /\ Head(s) = s[1] /\ Tail(s) \in Seq(S) /\ Len(Tail(s)) = Len(s) - 1
         /\ 1 \in DOMAIN s /\ \A n \in DOMAIN Tail(s) : n + 1 \in DOMAIN s /\ Tail(s)[n] = s[n + 1]
         /\ Len(s) \in Nat \ {0}
OBVIOUS

\* A sequence with one more member.
LEMMA SeqGains ==
  ASSUME NEW S, NEW s \in Seq(S), NEW x \in S
  PROVE  /\ Append(s, x) \in Seq(S) /\ Len(Append(s, x)) = Len(s) + 1 /\ Len(s) \in Nat
         /\ \A n \in DOMAIN Append(s, x) :
              \/ n \in DOMAIN s /\ Append(s, x)[n] = s[n]
              \/ n = Len(s) + 1 /\ n \notin DOMAIN s /\ Append(s, x)[n] = x
         /\ \A n \in DOMAIN s : n \in DOMAIN Append(s, x)
OBVIOUS

\* A command that the helper handles keeps the maps in step.
LEMMA HandleMaps ==
  ASSUME Maps, nextID \in Nat, inbox \in Seq(Commands), tray \in BOOLEAN, Handle
  PROVE  /\ Maps' /\ NewIdsFresh /\ nextID' \in {nextID, nextID + 1} /\ tray' \in BOOLEAN
<1> PICK c : c = Head(inbox)
  OBVIOUS
<1>1. c \in Commands
  BY SeqTakes DEF Handle
<1>2. /\ c.method = "register" => Register(c.accel)
      /\ c.method = "unregister" => Unregister(c.accel)
      /\ c.method = "unregisterAll" => UnregisterAll
      /\ c.method = "setTray" => SetTray
      /\ c.method = "destroyTray" => DestroyTray
  BY DEF Handle
<1>3. ASSUME NEW a \in Accel, Register(a)
      PROVE  Maps' /\ NewIdsFresh /\ nextID' \in {nextID, nextID + 1} /\ tray' = tray
  <2>1. Maps' /\ nextID' \in {nextID, nextID + 1}
    BY <1>3, RegisterMaps
  <2>2. NewIdsFresh
    BY <1>3 DEF Register, Mapped, controller, NewIdsFresh
  <2>3. tray' = tray
    BY <1>3 DEF Register, controller
  <2> QED
    BY <2>1, <2>2, <2>3
<1>4. ASSUME NEW a \in Accel, Unregister(a)
      PROVE  Maps' /\ NewIdsFresh /\ nextID' = nextID /\ tray' = tray
  <2>1. Maps' /\ nextID' = nextID
    BY <1>4, UnregisterMaps
  <2>2. NewIdsFresh
    BY <1>4 DEF Unregister, Without, Restrict, controller, NewIdsFresh
  <2>3. tray' = tray
    BY <1>4 DEF Unregister, controller
  <2> QED
    BY <2>1, <2>2, <2>3
<1>5. ASSUME UnregisterAll PROVE Maps' /\ NewIdsFresh /\ nextID' = nextID /\ tray' = tray
  <2>1. DOMAIN shortcuts' = {} /\ DOMAIN keys' = {} /\ nextID' = nextID /\ tray' = tray
    BY <1>5 DEF UnregisterAll, NoFunction
  <2>2. DOMAIN native' = DOMAIN native \ Range(shortcuts)
    BY <1>5 DEF UnregisterAll, Without, Restrict
  <2>3. DOMAIN native \subseteq Range(shortcuts)
    BY DEF Maps, Range
  <2> QED
    BY <2>1, <2>2, <2>3, NoMaps DEF NewIdsFresh
<1>6. ASSUME SetTray \/ DestroyTray PROVE Maps' /\ NewIdsFresh /\ nextID' = nextID
  <2>1. UNCHANGED <<shortcuts, keys, nextID, native>>
    BY <1>6 DEF SetTray, DestroyTray
  <2>2. Maps'
    BY <2>1 DEF Maps
  <2> QED
    BY <2>1, <2>2 DEF NewIdsFresh
<1>7. SetTray \/ DestroyTray => tray' \in BOOLEAN
  BY DEF SetTray, DestroyTray
<1> QED
  BY <1>1, <1>2, <1>3, <1>4, <1>5, <1>6, <1>7, CommandType

\* The conjuncts of the type invariant that the frame loop and the reader move.
AgentTypes ==
  /\ frameLoop \in {"read", "launch", "accept", "write", "call", "done"}
  /\ request \in Commands \cup {NoFunction}
  /\ reader \in {"none", "scan", "ended", "gone"}
  /\ replies \in Seq(1 .. MaxRequests) /\ Len(replies) <= 1
  /\ helper \in {"none", "dial", "run", "gone"}

\* The number of requests is the id of the last one.
LEMMA RequestNumber ==
  ASSUME request \in Commands \cup {NoFunction}
  PROVE  /\ Requests \in 0 .. MaxRequests
         /\ Requests > 0 => request \in Commands /\ Requests = request.id
BY CommandType, PresentationAssumption DEF Requests

\* Every step keeps the types of the agent's half.
LEMMA PresAgent == PresentationInv /\ [PresentationNext]_presentVars => AgentTypes'
<1> SUFFICES ASSUME PresentationInv, [PresentationNext]_presentVars PROVE AgentTypes'
  OBVIOUS
<1>1. AgentTypes /\ outbox \in Seq(Outgoing)
  BY DEF PresentationInv, PresentationTypeOK, AgentTypes
<1>2. CASE ReaderTakes
  <2>1. /\ Head(outbox) \in Outgoing /\ UNCHANGED <<frameLoop, request, helper>>
        /\ reader' \in {reader, "ended"}
        /\ \/ replies' = replies
           \/ Head(outbox).id # 0 /\ replies' = <<Head(outbox).id>>
    BY <1>1, <1>2, SeqTakes DEF ReaderTakes
  <2>2. Head(outbox).id # 0 => Head(outbox).id \in 1 .. MaxRequests
    BY <2>1 DEF Outgoing
  <2>3. replies' \in Seq(1 .. MaxRequests) /\ Len(replies') <= 1
    <3> PICK h : h = Head(outbox).id
      OBVIOUS
    <3>1. h # 0 => <<h>> \in Seq(1 .. MaxRequests) /\ Len(<<h>>) = 1
      BY <2>2
    <3>2. replies \in Seq(1 .. MaxRequests) /\ Len(replies) <= 1
      BY <1>1 DEF AgentTypes
    <3>3. CASE replies' = replies
      BY <3>2, <3>3
    <3>4. CASE h # 0 /\ replies' = <<h>>
      BY <3>1, <3>4
    <3> QED
      BY <2>1, <3>3, <3>4
  <2> QED
    BY <1>1, <2>1, <2>3 DEF AgentTypes
<1>3. CASE CallReply
  <2>1. replies' \in Seq(1 .. MaxRequests) /\ Len(replies') <= 1
    BY <1>1, <1>3, SeqTakes DEF CallReply, AgentTypes
  <2> QED
    BY <1>1, <1>3, <2>1 DEF CallReply, Return, AgentTypes
<1>4. CASE Ask
  BY <1>1, <1>4 DEF Ask, AgentTypes
<1>5. CASE \/ Launch \/ Accept \/ AcceptFails \/ WriteCommand \/ CallDone \/ CallTimeout \/ SocketEnds
  BY <1>1, <1>5 DEF Launch, Accept, AcceptFails, WriteCommand, CallDone, CallTimeout, Return,
                    SocketEnds, AgentTypes
<1>6. CASE \/ Cancel \/ ClosePresentations \/ ReaderEnds \/ ReaderDeletes \/ HelperDials
  BY <1>1, <1>6 DEF Cancel, ClosePresentations, ReaderEnds, ReaderDeletes, HelperDials, agentSide,
                    AgentTypes
<1>7. CASE \/ Killed \/ Crashes \/ Handle \/ Press \/ Hotkey \/ UNCHANGED presentVars
  BY <1>1, <1>7 DEF Killed, Crashes, Gone, Handle, Press, Hotkey, presentVars, agentSide, AgentTypes
<1> QED
  BY <1>2, <1>3, <1>4, <1>5, <1>6, <1>7 DEF PresentationNext

\* Every step keeps what the connection to the helper depends on.
LEMMA PresBridged == PresentationInv /\ [PresentationNext]_presentVars => Bridged'
<1> SUFFICES ASSUME PresentationInv, [PresentationNext]_presentVars PROVE Bridged'
  OBVIOUS
<1>1. Bridged /\ inbox \in Seq(Commands) /\ pressed \in Seq([id : Nat, key : Key])
  BY DEF PresentationInv, PresentationTypeOK, PressesNameKey
<1>2. CASE Ask \/ Launch \/ Accept \/ AcceptFails
  BY <1>1, <1>2 DEF Ask, Launch, Accept, AcceptFails, controller, Bridged
<1>3. CASE WriteCommand \/ CallReply \/ CallDone \/ CallTimeout \/ SocketEnds
  BY <1>1, <1>3 DEF WriteCommand, CallReply, CallDone, CallTimeout, Return, SocketEnds, controller,
                    Bridged
<1>4. CASE Cancel \/ ReaderTakes \/ ReaderEnds \/ ReaderDeletes
  BY <1>1, <1>4 DEF Cancel, ReaderTakes, ReaderEnds, ReaderDeletes, controller, Bridged
<1>10. CASE ClosePresentations
  <2>1. closed => closed'
    BY <1>10 DEF ClosePresentations
  <2>2. UNCHANGED <<frameLoop, bridge, reader, replies, inbox, outbox, pressed, native>>
    BY <1>10 DEF ClosePresentations, controller
  <2> QED
    BY <1>1, <2>1, <2>2 DEF Bridged
<1>5. CASE HelperDials \/ Killed \/ Crashes
  BY <1>1, <1>5 DEF HelperDials, Killed, Crashes, Gone, NoFunction, agentSide, controller, Bridged
<1>6. CASE Handle
  BY <1>1, <1>6 DEF Handle, agentSide, Bridged
<1>7. CASE Press
  BY <1>1, <1>7 DEF Press, agentSide, controller, Bridged
<1>8. CASE Hotkey
  BY <1>1, <1>8 DEF Hotkey, agentSide, controller, Bridged
<1>9. CASE UNCHANGED presentVars
  BY <1>1, <1>9 DEF presentVars, agentSide, controller, Bridged
<1> QED
  BY <1>2, <1>3, <1>4, <1>5, <1>6, <1>7, <1>8, <1>9, <1>10 DEF PresentationNext

\* The reader takes the first message, or the helper adds one.
LEMMA OutboxTakes ==
  ASSUME outbox \in Seq(Outgoing), outbox # <<>>, outbox' = Tail(outbox)
  PROVE  /\ Head(outbox) = outbox[1] /\ (Head(outbox).id # 0 => 1 \in Replying)
         /\ \A n \in Replying' : n + 1 \in Replying /\ n + 1 # 1 /\ outbox'[n] = outbox[n + 1]
         /\ Replying' \subseteq Nat
<1>1. /\ Head(outbox) = outbox[1] /\ 1 \in DOMAIN outbox
      /\ \A n \in DOMAIN outbox' : n \in Nat \ {0} /\ n + 1 \in DOMAIN outbox /\ outbox'[n] = outbox[n + 1]
  OBVIOUS
<1> QED
  BY <1>1 DEF Replying

\* A message of the helper is at most one reply more.
LEMMA OutboxGains ==
  ASSUME outbox \in Seq(Outgoing), NEW m \in Outgoing, outbox' = Append(outbox, m)
  PROVE  \A n \in Replying' : \/ n \in Replying /\ outbox'[n] = outbox[n]
                              \/ m.id # 0 /\ n = Len(outbox) + 1 /\ outbox'[n] = m
<1>1. \A n \in DOMAIN outbox' : \/ n \in DOMAIN outbox /\ outbox'[n] = outbox[n]
                                \/ n = Len(outbox) + 1 /\ outbox'[n] = m
  BY SeqGains
<1> QED
  BY <1>1 DEF Replying

\* Every step keeps one command or reply between the two.
LEMMA PresOneCall == PresentationInv /\ [PresentationNext]_presentVars => OneCall'
<1> SUFFICES ASSUME PresentationInv, [PresentationNext]_presentVars PROVE OneCall'
  OBVIOUS
<1>1. /\ OneCall /\ Bridged /\ AgentTypes /\ inbox \in Seq(Commands) /\ outbox \in Seq(Outgoing)
  BY DEF PresentationInv, PresentationTypeOK, AgentTypes
<1>2. outbox = <<>> => Replying = {}
  BY DEF Replying
<1>3. UNCHANGED outbox => Replying' = Replying
  BY DEF Replying
<1>4. CASE Ask
  BY <1>1, <1>3, <1>4 DEF Ask, OneCall
<1>5. CASE Launch \/ Accept \/ AcceptFails
  <2>1. inbox = <<>> /\ outbox = <<>> /\ replies = <<>>
    BY <1>1, <1>5 DEF Launch, Accept, AcceptFails, Bridged
  <2>2. UNCHANGED <<inbox, outbox, replies>>
    BY <1>5 DEF Launch, Accept, AcceptFails
  <2>3. Replying' = {} /\ inbox' = <<>> /\ replies' = <<>> /\ Len(inbox') <= 1 /\ DOMAIN inbox' = {}
        /\ DOMAIN replies' = {}
    BY <1>2, <1>3, <2>1, <2>2
  <2> QED
    BY <2>3 DEF OneCall
<1>6. CASE WriteCommand
  <2>1. /\ frameLoop = "write" /\ UNCHANGED <<request, replies, outbox>>
        /\ \/ ~closed /\ frameLoop' = "call" /\ inbox' = Append(inbox, request)
           \/ frameLoop' = "read" /\ inbox' = inbox /\ closed'
    BY <1>6 DEF WriteCommand
  <2>2. CASE ~closed /\ frameLoop' = "call" /\ inbox' = Append(inbox, request)
    <3>1. inbox = <<>> /\ Replying' = {} /\ replies' = <<>>
      BY <1>1, <1>3, <2>1, <2>2 DEF OneCall
    <3>2. inbox' = <<request>> /\ DOMAIN replies' = {}
      BY <2>2, <3>1
    <3>3. Len(inbox') = 1 /\ \A n \in DOMAIN inbox' : inbox'[n] = request'
      BY <2>1, <3>2
    <3> QED
      BY <2>2, <3>1, <3>2, <3>3 DEF OneCall
  <2>3. CASE frameLoop' = "read" /\ inbox' = inbox /\ closed'
    BY <1>1, <1>3, <2>1, <2>3 DEF OneCall
  <2> QED
    BY <2>1, <2>2, <2>3
<1>7. CASE CallReply
  <2>1. /\ replies # <<>> /\ frameLoop' = "read" /\ replies' = Tail(replies)
        /\ UNCHANGED <<inbox, outbox>>
    BY <1>7 DEF CallReply, Return
  <2>2. replies' = <<>>
    BY <1>1, <2>1 DEF AgentTypes
  <2>3. Replying' = {} /\ inbox' = <<>>
    BY <1>1, <1>3, <2>1 DEF OneCall
  <2>4. Len(inbox') <= 1
    BY <2>3
  <2> QED
    BY <2>1, <2>2, <2>3, <2>4 DEF OneCall
<1>8. CASE CallDone \/ CallTimeout
  <2>1. closed'
    BY <1>1, <1>8 DEF CallDone, CallTimeout, Bridged
  <2>2. frameLoop' = "read" /\ UNCHANGED <<inbox, outbox, replies>>
    BY <1>8 DEF CallDone, CallTimeout, Return
  <2> QED
    BY <1>1, <1>3, <2>1, <2>2 DEF OneCall
<1>9. CASE SocketEnds
  BY <1>1, <1>3, <1>9 DEF SocketEnds, OneCall
<1>10. ASSUME UNCHANGED <<frameLoop, request, inbox, outbox, replies>>, closed => closed'
       PROVE  OneCall'
  BY <1>1, <1>3, <1>10 DEF OneCall
<1>11. CASE ReaderTakes
  <2>1. /\ outbox # <<>> /\ outbox' = Tail(outbox) /\ UNCHANGED <<frameLoop, request, inbox>>
        /\ \/ replies' = replies /\ closed' = closed /\ Head(outbox).id = 0
           \/ Head(outbox).id # 0 /\ replies = <<>> /\ replies' = <<Head(outbox).id>> /\ closed' = closed
           \/ closed' /\ replies' = replies
    BY <1>11 DEF ReaderTakes
  <2>2. /\ Head(outbox) = outbox[1] /\ (Head(outbox).id # 0 => 1 \in Replying)
        /\ \A n \in Replying' : n + 1 \in Replying /\ n + 1 # 1 /\ outbox'[n] = outbox[n + 1]
        /\ Replying' \subseteq Nat
    BY <1>1, <2>1, OutboxTakes
  <2>3. /\ Replying = {} => Replying' = {}
        /\ \A m, n \in Replying' : m = n
        /\ frameLoop = "call" => \A n \in Replying' : outbox'[n].id = request.id
    <3>1. ASSUME NEW m \in Replying', NEW n \in Replying' PROVE m = n
      <4>1. m + 1 = n + 1 /\ m \in Nat /\ n \in Nat
        BY <1>1, <2>2, <3>1 DEF OneCall
      <4> QED
        BY <4>1
    <3> QED
      BY <1>1, <2>2, <3>1 DEF OneCall
  <2>4. CASE replies' = replies /\ (closed' <=> closed)
    BY <1>1, <2>1, <2>3, <2>4 DEF OneCall
  <2>5. CASE closed' /\ replies' = replies
    BY <1>1, <2>1, <2>3, <2>5 DEF OneCall
  <2>6. CASE Head(outbox).id # 0 /\ replies = <<>> /\ replies' = <<Head(outbox).id>> /\ closed' = closed
    <3> PICK h : h = Head(outbox).id
      OBVIOUS
    <3>1. 1 \in Replying /\ h = outbox[1].id
      BY <2>2, <2>6
    <3>2. Replying' = {}
      BY <1>1, <2>2, <3>1 DEF OneCall
    <3>3. inbox = <<>> /\ ~(frameLoop \in {"read", "launch", "accept", "write"} /\ ~closed)
      BY <1>1, <3>1 DEF OneCall
    <3>4. frameLoop = "call" => h = request.id
      BY <1>1, <3>1 DEF OneCall
    <3>5. DOMAIN inbox' = {} /\ Len(inbox') <= 1 /\ inbox' = <<>>
      BY <2>1, <3>3
    <3>6. \A n \in DOMAIN replies' : replies'[n] = h
      BY <2>6
    <3> QED
      BY <2>1, <2>6, <3>2, <3>3, <3>4, <3>5, <3>6 DEF OneCall
  <2> QED
    BY <2>1, <2>4, <2>5, <2>6
<1>12. CASE Killed \/ Crashes
  <2>1. UNCHANGED <<frameLoop, request, outbox, replies, closed>> /\ inbox' = <<>>
    BY <1>12 DEF Killed, Crashes, Gone, agentSide
  <2>2. Len(inbox') <= 1 /\ DOMAIN inbox' = {}
    BY <2>1
  <2> QED
    BY <1>1, <1>3, <2>1, <2>2 DEF OneCall
<1>13. CASE Handle
  <2> PICK c : c = Head(inbox)
    OBVIOUS
  <2>1. /\ UNCHANGED <<frameLoop, request, replies, closed>> /\ inbox # <<>> /\ inbox' = Tail(inbox)
        /\ outbox' = outbox \/ outbox' = Append(outbox, [id |-> c.id])
    BY <1>13 DEF Handle, agentSide
  <2>2. Replying = {} /\ replies' = <<>> /\ ~(frameLoop \in {"read", "launch", "accept", "write"} /\ ~closed)
    BY <1>1, <2>1 DEF OneCall
  <2>3. inbox' = <<>> /\ c = inbox[1] /\ 1 \in DOMAIN inbox
    BY <1>1, <2>1 DEF OneCall
  <2>4. c \in Commands /\ [id |-> c.id] \in Outgoing
    <3>1. c \in Commands
      BY <1>1, <2>1, SeqTakes
    <3> QED
      BY <3>1, CommandType DEF Outgoing
  <2>5. \A n \in Replying' : n = Len(outbox) + 1 /\ outbox'[n].id = c.id
    <3>1. CASE outbox' = outbox
      BY <1>3, <2>2, <3>1
    <3>2. CASE outbox' = Append(outbox, [id |-> c.id])
      BY <1>1, <2>2, <2>4, <3>2, OutboxGains
    <3> QED
      BY <2>1, <3>1, <3>2
  <2>6. frameLoop = "call" => c.id = request.id
    BY <1>1, <2>3 DEF OneCall
  <2>7. Len(inbox') <= 1 /\ DOMAIN inbox' = {} /\ DOMAIN replies' = {}
    BY <2>2, <2>3
  <2> QED
    BY <2>1, <2>2, <2>3, <2>5, <2>6, <2>7 DEF OneCall
<1>14. CASE Hotkey
  <2>1. UNCHANGED <<frameLoop, request, replies, closed, inbox>>
    BY <1>14 DEF Hotkey, agentSide
  <2>2. \A n \in Replying' : n \in Replying /\ outbox'[n] = outbox[n]
    <3>1. CASE outbox' = outbox
      BY <1>3, <3>1
    <3>2. ASSUME NEW m \in Outgoing, m.id = 0, outbox' = Append(outbox, m)
          PROVE  \A n \in Replying' : n \in Replying /\ outbox'[n] = outbox[n]
      BY <1>1, <3>2, OutboxGains
    <3>3. outbox' = outbox \/ \E m \in Outgoing : m.id = 0 /\ outbox' = Append(outbox, m)
      <4>1. ASSUME NEW a \in DOMAIN shortcuts, NEW k, k = Head(pressed).key,
                   outbox' = Append(outbox, [id |-> 0, accel |-> a, key |-> k])
            PROVE  [id |-> 0, accel |-> a, key |-> k] \in Outgoing
        <5>1. a \in Accel
          BY DEF PresentationInv, PresentationTypeOK
        <5>2. Head(pressed) \in [id : Nat, key : Key]
          BY <1>14, SeqTakes DEF Hotkey, PresentationInv, PressesNameKey
        <5>3. k \in Key
          BY <4>1, <5>2
        <5> QED
          BY <5>1, <5>3 DEF Outgoing
      <4>2. \/ outbox' = outbox
            \/ \E a \in DOMAIN shortcuts :
                 outbox' = Append(outbox, [id |-> 0, accel |-> a, key |-> Head(pressed).key])
        BY <1>14 DEF Hotkey
      <4> QED
        BY <4>1, <4>2
    <3> QED
      BY <3>1, <3>2, <3>3
  <2> QED
    BY <1>1, <2>1, <2>2 DEF OneCall
<1>15. CASE Cancel \/ ReaderEnds \/ ReaderDeletes \/ HelperDials \/ Press \/ UNCHANGED presentVars
  BY <1>10, <1>15 DEF Cancel, ReaderEnds, ReaderDeletes, HelperDials, Press, presentVars, agentSide
<1>16. CASE ClosePresentations
  BY <1>10, <1>16 DEF ClosePresentations
<1> QED
  BY <1>4, <1>5, <1>6, <1>7, <1>8, <1>9, <1>11, <1>12, <1>13, <1>14, <1>15, <1>16
     DEF PresentationNext

\* What the helper keeps and sends.
LEMMA PresMaps ==
  ASSUME PresentationInv, [PresentationNext]_presentVars
  PROVE  /\ MapTypes' /\ NativeMirrors' /\ IdsGiven'
         /\ \/ NewIdsFresh /\ nextID' \in {nextID, nextID + 1}
            \/ DOMAIN shortcuts' = {} /\ nextID' = 0 /\ pressed' = <<>>
<1>1. /\ Maps /\ nextID \in Nat /\ inbox \in Seq(Commands) /\ tray \in BOOLEAN
  <2>1. MapTypes /\ NativeMirrors /\ IdsGiven
    BY DEF PresentationInv, PresentationTypeOK, MapTypes
  <2>2. Maps
    BY <2>1, MapsOf
  <2> QED
    BY <2>2 DEF PresentationInv, PresentationTypeOK
<1>0. Maps' => MapTypes' /\ NativeMirrors' /\ IdsGiven'
  BY MapsAre, PTL
<1>2. CASE Handle
  <2>1. Maps' /\ NewIdsFresh /\ nextID' \in {nextID, nextID + 1}
    BY <1>1, <1>2, HandleMaps
  <2> QED
    BY <1>0, <2>1
<1>3. CASE Killed \/ Crashes
  <2>1. DOMAIN shortcuts' = {} /\ DOMAIN keys' = {} /\ DOMAIN native' = {} /\ nextID' = 0 /\ pressed' = <<>>
    BY <1>3 DEF Killed, Crashes, Gone, NoFunction
  <2> QED
    BY <1>0, <2>1, NoMaps
<1>4. CASE UNCHANGED controller
  <2>1. Maps' /\ NewIdsFresh /\ nextID' = nextID
    BY <1>1, <1>4 DEF controller, Maps, NewIdsFresh
  <2> QED
    BY <1>0, <2>1
<1>5. CASE \/ Ask \/ Launch \/ Accept \/ AcceptFails \/ WriteCommand \/ CallReply \/ CallDone
           \/ CallTimeout \/ SocketEnds \/ Cancel \/ ClosePresentations \/ ReaderTakes \/ ReaderEnds
           \/ ReaderDeletes \/ HelperDials \/ Press \/ Hotkey \/ UNCHANGED presentVars
  BY <1>4, <1>5 DEF Ask, Launch, Accept, AcceptFails, WriteCommand, CallReply, CallDone,
       CallTimeout, SocketEnds, Cancel, ClosePresentations, ReaderTakes, ReaderEnds,
       ReaderDeletes, HelperDials, Press, Hotkey, presentVars
<1> QED
  BY <1>2, <1>3, <1>5 DEF PresentationNext

\* The number of the request counts the commands that were sent.
LEMMA PresCounted ==
  PresentationInv /\ [PresentationNext]_presentVars =>
    IdsCounted' /\ inbox' \in Seq(Commands) /\ nextID' \in 0 .. MaxRequests
<1> SUFFICES ASSUME PresentationInv, [PresentationNext]_presentVars
             PROVE  IdsCounted' /\ inbox' \in Seq(Commands) /\ nextID' \in 0 .. MaxRequests
  OBVIOUS
<1>1. /\ nextID + Len(inbox) <= Requests /\ nextID \in Nat /\ inbox \in Seq(Commands)
      /\ frameLoop \in {"launch", "accept", "write"} =>
           request # NoFunction /\ nextID + Len(inbox) < Requests
      /\ request \in Commands \cup {NoFunction} /\ AgentTypes /\ IdsCounted
  BY DEF PresentationInv, IdsCounted, PresentationTypeOK, AgentTypes
<1>2. /\ Requests \in 0 .. MaxRequests /\ Len(inbox) \in Nat
      /\ request \in Commands => Requests = request.id
  <2>1. request \in Commands => Requests = request.id
    BY CommandType DEF Requests
  <2> QED
    BY <1>1, <2>1, RequestNumber
<1>3. request' \in Commands \cup {NoFunction}
  BY PresAgent DEF AgentTypes
<1>4. Requests' \in 0 .. MaxRequests
  <2>1. request' \in Commands => Requests' = request'.id /\ request'.id \in 1 .. MaxRequests
    BY CommandType DEF Requests
  <2>2. request' = NoFunction => Requests' = 0
    BY DEF Requests
  <2> QED
    BY <1>3, <2>1, <2>2, PresentationAssumption
<1>5. ASSUME IdsCounted', inbox' \in Seq(Commands), nextID' \in Nat
      PROVE  nextID' \in 0 .. MaxRequests
  <2>1. Len(inbox') \in Nat /\ nextID' + Len(inbox') <= Requests'
    BY <1>5 DEF IdsCounted
  <2> QED
    BY <1>4, <1>5, <2>1, PresentationAssumption
<1>6. UNCHANGED request => Requests' = Requests
  BY DEF Requests
<1>7. CASE Ask
  <2>1. /\ request' \in Commands /\ request'.id = Requests + 1 /\ UNCHANGED <<inbox, nextID>>
    BY <1>7 DEF Ask, controller
  <2>2. Requests' = Requests + 1 /\ request' # NoFunction
    BY <2>1, CommandType DEF Requests
  <2>3. IdsCounted'
    BY <1>1, <1>2, <2>1, <2>2 DEF IdsCounted
  <2> QED
    BY <1>1, <1>5, <2>1, <2>3
<1>8. CASE WriteCommand
  <2>1. /\ frameLoop = "write" /\ UNCHANGED <<request, nextID>>
        /\ \/ frameLoop' = "call" /\ inbox' = Append(inbox, request)
           \/ frameLoop' = "read" /\ inbox' = inbox
    BY <1>8 DEF WriteCommand, controller
  <2>2. request \in Commands
    BY <1>1, <2>1
  <2>3. inbox' \in Seq(Commands) /\ (Len(inbox') = Len(inbox) + 1 \/ Len(inbox') = Len(inbox))
    BY <1>1, <2>1, <2>2, SeqGains
  <2>4. IdsCounted'
    BY <1>1, <1>2, <1>6, <2>1, <2>3 DEF IdsCounted
  <2> QED
    BY <1>1, <1>5, <2>1, <2>3, <2>4
<1>9. CASE Handle
  <2>1. UNCHANGED <<request, frameLoop>> /\ inbox # <<>> /\ inbox' = Tail(inbox)
    BY <1>9 DEF Handle, agentSide
  <2>2. nextID' \in {nextID, nextID + 1}
    <3>1. MapTypes /\ NativeMirrors /\ IdsGiven /\ tray \in BOOLEAN
      BY DEF PresentationInv, PresentationTypeOK, MapTypes
    <3>2. Maps
      BY <3>1, MapsOf
    <3> QED
      BY <1>1, <1>9, <3>1, <3>2, HandleMaps
  <2>3. inbox' \in Seq(Commands) /\ Len(inbox') = Len(inbox) - 1 /\ Len(inbox) \in Nat \ {0}
    BY <1>1, <2>1, SeqTakes
  <2>4. IdsCounted'
    BY <1>1, <1>2, <1>6, <2>1, <2>2, <2>3 DEF IdsCounted
  <2> QED
    BY <1>1, <1>5, <2>2, <2>3, <2>4
<1>10. CASE Killed \/ Crashes
  <2>1. UNCHANGED <<request, frameLoop>> /\ inbox' = <<>> /\ nextID' = 0
    BY <1>10 DEF Killed, Crashes, Gone, agentSide
  <2>2. Len(inbox') = 0 /\ inbox' \in Seq(Commands)
    BY <2>1
  <2>3. IdsCounted'
    BY <1>1, <1>2, <1>6, <2>1, <2>2 DEF IdsCounted
  <2> QED
    BY <1>5, <2>1, <2>2, <2>3
<1>11. CASE /\ UNCHANGED <<request, inbox, nextID>>
            /\ frameLoop' \in {"launch", "accept", "write"} => frameLoop \in {"launch", "accept", "write"}
  <2>1. IdsCounted'
    BY <1>1, <1>6, <1>11 DEF IdsCounted
  <2> QED
    BY <1>1, <1>5, <1>11, <2>1
<1>12. CASE \/ Launch \/ Accept \/ AcceptFails \/ CallReply \/ CallDone
            \/ CallTimeout \/ SocketEnds
  BY <1>11, <1>12 DEF Launch, Accept, AcceptFails, CallReply, CallDone, CallTimeout, SocketEnds,
                      Return, controller
<1>13. CASE \/ Cancel \/ ClosePresentations \/ ReaderTakes \/ ReaderEnds
            \/ ReaderDeletes \/ HelperDials \/ Press \/ Hotkey \/ UNCHANGED presentVars
  BY <1>11, <1>13 DEF Cancel, ClosePresentations, ReaderTakes, ReaderEnds,
       ReaderDeletes, HelperDials, Press, Hotkey, presentVars, agentSide, controller
<1> QED
  BY <1>7, <1>8, <1>9, <1>10, <1>12, <1>13 DEF PresentationNext

\* What the desktop reports, and the events that the controller makes of it.
LEMMA PresEvents ==
  PresentationInv /\ [PresentationNext]_presentVars =>
    PressesNameKey' /\ EventsNameKey' /\ outbox' \in Seq(Outgoing) /\ Len(pressed') <= MaxPressed
<1> SUFFICES ASSUME PresentationInv, [PresentationNext]_presentVars
             PROVE  /\ PressesNameKey' /\ EventsNameKey' /\ outbox' \in Seq(Outgoing)
                    /\ Len(pressed') <= MaxPressed
  OBVIOUS
<1>1. /\ PressesNameKey /\ EventsNameKey /\ outbox \in Seq(Outgoing) /\ inbox \in Seq(Commands)
      /\ pressed \in Seq([id : Nat, key : Key]) /\ Len(pressed) <= MaxPressed /\ nextID \in Nat
      /\ MapTypes /\ NativeMirrors /\ IdsGiven
  BY DEF PresentationInv, PresentationTypeOK, PressesNameKey, MapTypes
<1>2. Maps
  BY <1>1, MapsOf
<1>3. ASSUME \A n \in DOMAIN pressed' : \E m \in DOMAIN pressed : pressed'[n] = pressed[m],
             pressed' \in Seq([id : Nat, key : Key]), NewIdsFresh, nextID' \in {nextID, nextID + 1}
      PROVE  PressesNameKey'
  <2> SUFFICES ASSUME NEW n \in DOMAIN pressed'
               PROVE  /\ pressed'[n].id <= nextID'
                      /\ \A a \in DOMAIN shortcuts' :
                           shortcuts'[a] = pressed'[n].id => KeyOf[a] = pressed'[n].key
    BY <1>3 DEF PressesNameKey
  <2>1. PICK m \in DOMAIN pressed : pressed'[n] = pressed[m]
    BY <1>3
  <2> PICK p : p = pressed[m]
    OBVIOUS
  <2>2. p \in [id : Nat, key : Key]
    BY <1>1, SeqMember
  <2>3. /\ p.id <= nextID /\ p.id \in Nat /\ pressed'[n] = p
        /\ \A a \in DOMAIN shortcuts : shortcuts[a] = p.id => KeyOf[a] = p.key
    BY <1>1, <2>1, <2>2 DEF PressesNameKey
  <2>4. nextID' \in {nextID, nextID + 1} /\ nextID \in Nat
    BY <1>1, <1>3
  <2>5. p.id <= nextID' /\ p.id # nextID + 1
    BY <2>3, <2>4
  <2>6. \A a \in DOMAIN shortcuts' : shortcuts'[a] = p.id => KeyOf[a] = p.key
    BY <1>3, <2>3, <2>5 DEF NewIdsFresh
  <2> QED
    BY <2>3, <2>5, <2>6
<1>4. ASSUME UNCHANGED pressed, NewIdsFresh, nextID' \in {nextID, nextID + 1}
      PROVE  PressesNameKey' /\ Len(pressed') <= MaxPressed
  BY <1>1, <1>3, <1>4
<1>5. CASE Killed \/ Crashes
  <2>1. pressed' = <<>> /\ UNCHANGED outbox
    BY <1>5 DEF Killed, Crashes, Gone
  <2>2. pressed' \in Seq([id : Nat, key : Key]) /\ DOMAIN pressed' = {} /\ Len(pressed') <= MaxPressed
    BY <2>1, PresentationAssumption
  <2> QED
    BY <1>1, <2>1, <2>2 DEF PressesNameKey, EventsNameKey
<1>6. CASE Handle
  <2> PICK c : c = Head(inbox)
    OBVIOUS
  <2>1. /\ UNCHANGED pressed /\ inbox # <<>>
        /\ outbox' = outbox \/ outbox' = Append(outbox, [id |-> c.id])
    BY <1>6 DEF Handle
  <2>2. c \in Commands
    BY <1>1, <2>1, SeqTakes
  <2>3. [id |-> c.id] \in Outgoing /\ c.id # 0
    BY <2>2, CommandType DEF Outgoing
  <2>4. outbox' \in Seq(Outgoing) /\ EventsNameKey'
    <3>1. CASE outbox' = outbox
      BY <1>1, <3>1 DEF EventsNameKey
    <3>2. CASE outbox' = Append(outbox, [id |-> c.id])
      <4>1. /\ outbox' \in Seq(Outgoing)
            /\ \A n \in DOMAIN outbox' : \/ n \in DOMAIN outbox /\ outbox'[n] = outbox[n]
                                         \/ outbox'[n] = [id |-> c.id]
        BY <1>1, <2>3, <3>2, SeqGains
      <4> QED
        BY <1>1, <2>3, <4>1 DEF EventsNameKey
    <3> QED
      BY <2>1, <3>1, <3>2
  <2>5. NewIdsFresh /\ nextID' \in {nextID, nextID + 1}
    <3>1. tray \in BOOLEAN
      BY DEF PresentationInv, PresentationTypeOK
    <3> QED
      BY <1>1, <1>2, <1>6, <3>1, HandleMaps
  <2> QED
    BY <1>4, <2>1, <2>4, <2>5
<1>7. UNCHANGED controller => NewIdsFresh /\ nextID' \in {nextID, nextID + 1}
  BY DEF controller, NewIdsFresh
<1>8. CASE Press
  <2>1. PICK id \in DOMAIN native : pressed' = Append(pressed, [id |-> id, key |-> native[id]])
    BY <1>8 DEF Press
  <2>2. UNCHANGED <<outbox, controller>> /\ Len(pressed) < MaxPressed
    BY <1>8 DEF Press
  <2>3. PICK a \in DOMAIN shortcuts : shortcuts[a] = id
    BY <1>2 DEF Maps
  <2>4. id \in Nat /\ id <= nextID /\ native[id] \in Key /\ native[id] = KeyOf[a]
    BY <1>2, <2>3, PresentationAssumption DEF Maps
  <2>5. \A b \in DOMAIN shortcuts : shortcuts[b] = id => KeyOf[b] = native[id]
    BY <1>2, <2>3, <2>4 DEF Maps
  <2> PICK p : p = [id |-> id, key |-> native[id]]
    OBVIOUS
  <2>6. p \in [id : Nat, key : Key] /\ p.id = id /\ p.key = native[id]
    BY <2>4
  <2>7. /\ pressed' \in Seq([id : Nat, key : Key]) /\ Len(pressed') = Len(pressed) + 1
        /\ \A n \in DOMAIN pressed' : \/ n \in DOMAIN pressed /\ pressed'[n] = pressed[n]
                                      \/ pressed'[n] = p
    BY <1>1, <2>1, <2>6, SeqGains
  <2>8. UNCHANGED <<shortcuts, nextID>>
    BY <2>2 DEF controller
  <2>9. PressesNameKey'
    BY <1>1, <2>4, <2>5, <2>6, <2>7, <2>8 DEF PressesNameKey
  <2>10. Len(pressed') <= MaxPressed
    BY <1>1, <2>2, <2>7, PresentationAssumption
  <2> QED
    BY <1>1, <2>2, <2>9, <2>10 DEF EventsNameKey
<1>9. CASE Hotkey
  <2> PICK p : p = Head(pressed)
    OBVIOUS
  <2>1. /\ pressed # <<>> /\ pressed' = Tail(pressed) /\ UNCHANGED controller
        /\ \/ outbox' = outbox
           \/ \E a \in DOMAIN shortcuts :
                shortcuts[a] = p.id /\ outbox' = Append(outbox, [id |-> 0, accel |-> a, key |-> p.key])
    BY <1>9 DEF Hotkey
  <2>2. /\ p \in [id : Nat, key : Key] /\ p = pressed[1] /\ 1 \in DOMAIN pressed
        /\ pressed' \in Seq([id : Nat, key : Key]) /\ Len(pressed') = Len(pressed) - 1
        /\ \A n \in DOMAIN pressed' : n + 1 \in DOMAIN pressed /\ pressed'[n] = pressed[n + 1]
    BY <1>1, <2>1, SeqTakes
  <2>3. PressesNameKey'
    BY <1>3, <1>7, <2>1, <2>2
  <2>4. outbox' \in Seq(Outgoing) /\ EventsNameKey'
    <3>1. CASE outbox' = outbox
      BY <1>1, <3>1 DEF EventsNameKey
    <3>2. ASSUME NEW a \in DOMAIN shortcuts, shortcuts[a] = p.id,
                 NEW m, m = [id |-> 0, accel |-> a, key |-> p.key], outbox' = Append(outbox, m)
          PROVE  outbox' \in Seq(Outgoing) /\ EventsNameKey'
      <4>1. a \in Accel /\ p.key \in Key /\ KeyOf[a] = p.key
        <5>1. a \in Accel
          BY <1>2 DEF Maps
        <5>2. p.key \in Key
          BY <2>2
        <5>3. shortcuts[a] = pressed[1].id => KeyOf[a] = pressed[1].key
          BY <1>1, <2>2 DEF PressesNameKey
        <5> QED
          BY <2>2, <3>2, <5>1, <5>2, <5>3
      <4>2. m \in Outgoing /\ m.accel = a /\ m.key = p.key
        BY <3>2, <4>1 DEF Outgoing
      <4>3. /\ outbox' \in Seq(Outgoing)
            /\ \A n \in DOMAIN outbox' : \/ n \in DOMAIN outbox /\ outbox'[n] = outbox[n]
                                         \/ outbox'[n] = m
        BY <1>1, <3>2, <4>2, SeqGains
      <4> QED
        BY <1>1, <4>1, <4>2, <4>3 DEF EventsNameKey
    <3> QED
      BY <2>1, <3>1, <3>2
  <2>5. Len(pressed') <= MaxPressed
    BY <1>1, <2>2, PresentationAssumption
  <2> QED
    BY <2>3, <2>4, <2>5
<1>10. CASE ReaderTakes
  <2>1. outbox # <<>> /\ outbox' = Tail(outbox) /\ UNCHANGED <<controller, pressed>>
    BY <1>10 DEF ReaderTakes
  <2>2. /\ outbox' \in Seq(Outgoing)
        /\ \A n \in DOMAIN outbox' : n + 1 \in DOMAIN outbox /\ outbox'[n] = outbox[n + 1]
    BY <1>1, <2>1, SeqTakes
  <2>3. EventsNameKey'
    BY <1>1, <2>2 DEF EventsNameKey
  <2> QED
    BY <1>4, <1>7, <2>1, <2>2, <2>3
<1>11. CASE UNCHANGED <<outbox, pressed, controller>>
  BY <1>1, <1>4, <1>7, <1>11 DEF EventsNameKey
<1>12. CASE \/ Ask \/ Launch \/ Accept \/ AcceptFails \/ WriteCommand \/ CallReply \/ CallDone
            \/ CallTimeout \/ SocketEnds \/ Cancel \/ ClosePresentations \/ ReaderEnds
            \/ ReaderDeletes \/ HelperDials \/ UNCHANGED presentVars
  BY <1>11, <1>12 DEF Ask, Launch, Accept, AcceptFails, WriteCommand, CallReply, CallDone,
       CallTimeout, SocketEnds, Cancel, ClosePresentations, ReaderEnds, ReaderDeletes, HelperDials,
       presentVars
<1> QED
  BY <1>5, <1>6, <1>8, <1>9, <1>10, <1>12 DEF PresentationNext

Flags == {bridge, closed, registered, stopping, contextDone, tray}

\* Every step keeps the flags' types.
LEMMA PresFlags == PresentationInv /\ [PresentationNext]_presentVars => Flags' \subseteq BOOLEAN
<1> SUFFICES ASSUME PresentationInv, [PresentationNext]_presentVars PROVE Flags' \subseteq BOOLEAN
  OBVIOUS
<1>1. /\ bridge \in BOOLEAN /\ closed \in BOOLEAN /\ registered \in BOOLEAN /\ stopping \in BOOLEAN
      /\ contextDone \in BOOLEAN /\ tray \in BOOLEAN
  BY DEF PresentationInv, PresentationTypeOK
<1>2. tray' \in BOOLEAN
  <2>1. CASE Handle
    <3>1. MapTypes /\ NativeMirrors /\ IdsGiven /\ nextID \in Nat /\ inbox \in Seq(Commands)
      BY DEF PresentationInv, PresentationTypeOK, MapTypes
    <3>2. Maps
      BY <3>1, MapsOf
    <3> QED
      BY <1>1, <2>1, <3>1, <3>2, HandleMaps
  <2>2. CASE Killed \/ Crashes
    BY <2>2 DEF Killed, Crashes, Gone
  <2>3. UNCHANGED controller => tray' = tray
    BY DEF controller
  <2>4. UNCHANGED presentVars => UNCHANGED controller
    BY DEF presentVars
  <2>5. CASE \/ Ask \/ Launch \/ Accept \/ AcceptFails \/ WriteCommand \/ CallReply \/ CallDone
             \/ CallTimeout \/ SocketEnds \/ Cancel \/ ClosePresentations \/ ReaderTakes \/ ReaderEnds
             \/ ReaderDeletes \/ HelperDials \/ Press \/ Hotkey
    BY <1>1, <2>3, <2>5 DEF Ask, Launch, Accept, AcceptFails, WriteCommand, CallReply, CallDone,
         CallTimeout, SocketEnds, Cancel, ClosePresentations, ReaderTakes, ReaderEnds,
         ReaderDeletes, HelperDials, Press, Hotkey
  <2> QED
    BY <1>1, <2>1, <2>2, <2>3, <2>4, <2>5 DEF PresentationNext
<1>3. /\ bridge' \in BOOLEAN /\ closed' \in BOOLEAN /\ registered' \in BOOLEAN /\ stopping' \in BOOLEAN
      /\ contextDone' \in BOOLEAN
  <2>1. CASE UNCHANGED agentSide
    BY <1>1, <2>1 DEF agentSide
  <2>2. UNCHANGED presentVars => UNCHANGED agentSide
    BY DEF presentVars
  <2>3. CASE Ask \/ Launch \/ Accept \/ AcceptFails \/ WriteCommand
    BY <1>1, <2>3 DEF Ask, Launch, Accept, AcceptFails, WriteCommand
  <2>4. CASE CallReply \/ CallDone \/ CallTimeout \/ SocketEnds
    <3>1. UNCHANGED <<bridge, registered, stopping, contextDone>>
      BY <2>4 DEF CallReply, CallDone, CallTimeout, SocketEnds
    <3>2. closed' = (closed \/ Head(replies) # request.id) \/ closed' = closed \/ closed' = TRUE
          \/ closed' = (closed \/ bridge)
      BY <2>4 DEF CallReply, CallDone, CallTimeout, SocketEnds
    <3>3. closed' \in BOOLEAN
      BY <1>1, <3>2
    <3> QED
      BY <1>1, <3>1, <3>3
  <2>5. CASE Cancel \/ ClosePresentations \/ ReaderTakes \/ ReaderEnds \/ ReaderDeletes
    BY <1>1, <2>5 DEF Cancel, ClosePresentations, ReaderTakes, ReaderEnds, ReaderDeletes
  <2>6. CASE HelperDials \/ Killed \/ Crashes \/ Handle \/ Press \/ Hotkey
    BY <2>1, <2>6 DEF HelperDials, Killed, Crashes, Gone, Handle, Press, Hotkey
  <2> QED
    BY <2>1, <2>2, <2>3, <2>4, <2>5, <2>6 DEF PresentationNext
<1> QED
  BY <1>2, <1>3 DEF Flags

\* The initial states have the invariant.
LEMMA PresStart == PresentationInit => PresentationInv
<1> SUFFICES ASSUME PresentationInit PROVE PresentationInv
  OBVIOUS
<1>1. /\ frameLoop = "read" /\ request = NoFunction /\ reader = "none" /\ helper = "none"
      /\ bridge = FALSE /\ closed = FALSE /\ registered = FALSE /\ stopping = FALSE
      /\ contextDone = FALSE /\ tray = FALSE
      /\ replies = <<>> /\ inbox = <<>> /\ outbox = <<>> /\ pressed = <<>>
      /\ shortcuts = NoFunction /\ keys = NoFunction /\ native = NoFunction /\ nextID = 0
  BY DEF PresentationInit
<1>2. /\ DOMAIN shortcuts = {} /\ DOMAIN keys = {} /\ DOMAIN native = {}
      /\ IsFiniteSet({}) /\ Cardinality({}) = 0
  BY <1>1, FS_EmptySet DEF NoFunction
<1>3. MapTypes /\ NativeMirrors /\ IdsGiven
  <2>1. Maps
    BY <1>2, PresentationAssumption DEF Maps
  <2> QED
    BY <2>1, MapsAre
<1>4. /\ replies \in Seq(1 .. MaxRequests) /\ inbox \in Seq(Commands) /\ outbox \in Seq(Outgoing)
      /\ pressed \in Seq([id : Nat, key : Key])
      /\ Len(replies) = 0 /\ Len(inbox) = 0 /\ Len(pressed) = 0
      /\ DOMAIN inbox = {} /\ DOMAIN replies = {} /\ DOMAIN outbox = {} /\ DOMAIN pressed = {}
  BY <1>1
<1>5. PresentationTypeOK
  <2>1. /\ bridge \in BOOLEAN /\ closed \in BOOLEAN /\ registered \in BOOLEAN /\ stopping \in BOOLEAN
        /\ contextDone \in BOOLEAN /\ tray \in BOOLEAN
    BY <1>1
  <2>2. {bridge, closed, registered, stopping, contextDone, tray} \subseteq BOOLEAN
    BY <2>1
  <2>3. nextID \in 0 .. MaxRequests /\ Len(pressed) <= MaxPressed /\ Len(replies) <= 1
    BY <1>1, <1>4, PresentationAssumption
  <2> QED
    BY <1>1, <1>3, <1>4, <2>2, <2>3 DEF PresentationTypeOK, MapTypes
<1>6. OneCall
  BY <1>1, <1>4 DEF OneCall, Replying
<1>7. Bridged
  BY <1>1, <1>2 DEF Bridged
<1>8. IdsCounted
  BY <1>1, <1>4 DEF IdsCounted, Requests
<1>9. PressesNameKey /\ EventsNameKey
  BY <1>4 DEF PressesNameKey, EventsNameKey
<1> QED
  BY <1>3, <1>5, <1>6, <1>7, <1>8, <1>9 DEF PresentationInv

\* Every step keeps the invariant.
LEMMA PresStep == PresentationInv /\ [PresentationNext]_presentVars => PresentationInv'
<1> SUFFICES ASSUME PresentationInv, [PresentationNext]_presentVars PROVE PresentationInv'
  OBVIOUS
<1>1. MapTypes' /\ NativeMirrors' /\ IdsGiven'
  BY PresMaps
<1>2. IdsCounted' /\ inbox' \in Seq(Commands) /\ nextID' \in 0 .. MaxRequests
  BY PresCounted
<1>3. PressesNameKey' /\ EventsNameKey' /\ outbox' \in Seq(Outgoing) /\ Len(pressed') <= MaxPressed
  BY PresEvents
<1>4. OneCall' /\ Bridged' /\ AgentTypes'
  BY PresOneCall, PresBridged, PresAgent
<1>5. {bridge, closed, registered, stopping, contextDone, tray}' \subseteq BOOLEAN
  BY PresFlags DEF Flags
<1>6. PresentationTypeOK'
  BY <1>1, <1>2, <1>3, <1>4, <1>5 DEF PresentationTypeOK, MapTypes, AgentTypes
<1> QED
  BY <1>1, <1>2, <1>3, <1>4, <1>6 DEF PresentationInv

\* The invariant says what the run checks.
LEMMA PresSafety == PresentationInv => PresentationSafe
<1> SUFFICES ASSUME PresentationInv PROVE PresentationSafe
  OBVIOUS
<1>1. OwnReply
  <2> SUFFICES ASSUME frameLoop = "call", replies # <<>> PROVE Head(replies) = request.id
    BY DEF OwnReply
  <2>1. replies \in Seq(1 .. MaxRequests) /\ \A n \in DOMAIN replies : replies[n] = request.id
    BY DEF PresentationInv, PresentationTypeOK, OneCall
  <2> QED
    BY <2>1, SeqTakes
<1> QED
  BY <1>1 DEF PresentationInv, PresentationSafe

\* presentationBridge.call and presentationController: a call takes its own
\* reply and no late one, the desktop holds what the controller says, and a key
\* press is only told under a shortcut of that key, for every number of
\* requests, spellings and keys and every limit.
THEOREM HelperNeverConfuses == PresentationSpec => []PresentationSafe
<1> QED
  BY PresStart, PresStep, PresSafety, PTL DEF PresentationSpec

-----------------------------------------------------------------------------
(* The RDP bridge *)

\* Types, with what was answered.
Answer == [kind : {"error"}] \cup [kind : {"response"}, chain : Chains, length : Seq(Nat)]
Copying == [at : {"none", "read", "write", "ended"}, holds : 0 .. 1]
EndsType == [browser : BOOLEAN, server : BOOLEAN, sentUp : 0 .. MaxData, sentDown : 0 .. MaxData,
             gotUp : 0 .. MaxData]
RdpTypes ==
  /\ stage \in {"request", "dial", "handshake", "respond", "error", "relay", "closed", "ended",
                "rejected"}
  /\ asked \subseteq Protocol /\ offered \subseteq Protocol
  /\ legacy \in BOOLEAN /\ versionAlert \in BOOLEAN /\ refused \in BOOLEAN
  /\ answers \in Seq(Answer)
  /\ uplink \in Copying /\ downlink \in Copying /\ ends \in EndsType

\* The bridge has one connection while it negotiates and relays, the second
\* one after the fallback, which follows an alert and prefers TLS.
Dialling ==
  /\ sockets = IF stage \in {"handshake", "respond", "relay"}
                 THEN {IF legacy THEN 2 ELSE 1} ELSE {}
  /\ legacy => versionAlert
  /\ legacy /\ stage \in {"handshake", "respond", "relay"} => offered = PreferTLSOnly(asked)

\* How far the bridge is says how often it has answered.
Answering ==
  /\ stage \in {"request", "dial", "handshake", "respond", "error", "rejected"} => answers = <<>>
  /\ stage \in {"relay", "closed"} => Len(answers) = 1
  /\ stage = "ended" => Len(answers) <= 1 /\ (Len(answers) = 1 \/ ends.browser)
  /\ \A i \in DOMAIN answers :
       answers[i].kind = "response" => answers[i].length = EncodeLength(answers[i].chain)

\* The two goroutines run from the answer on.  Unless the server has gone or a
\* chunk of it was refused, the uplink holds what was sent and not received,
\* and is the one that ends the relay.
Relaying ==
  /\ uplink.holds = IF uplink.at = "write" THEN 1 ELSE 0
  /\ stage \notin {"relay", "closed", "ended"} => uplink = Stopped /\ downlink = Stopped
  /\ stage \in {"relay", "closed"} => uplink.at # "none" /\ downlink.at # "none"
  /\ stage = "ended" => uplink.at \in {"none", "ended"}
  /\ ends.gotUp + uplink.holds <= ends.sentUp
  /\ ~ends.server /\ ~refused =>
       /\ ends.gotUp + uplink.holds = ends.sentUp
       /\ stage = "relay" => downlink.at # "ended"
       /\ stage = "closed" => uplink.at = "ended"

\* The inductive invariant of the RDP bridge.
RdpInv == RdpTypes /\ Dialling /\ Answering /\ Relaying

\* The two digits of a length are its digits.
LEMMA TwoDigits ==
  ASSUME NEW n \in Nat, n < Base * Base, Base \in Nat, Base > 0
  PROVE  /\ n \div Base \in Nat /\ n % Base \in Nat
         /\ ((n \div Base) % Base) * Base + (n % Base) = n
<1>1. /\ n \div Base \in Nat /\ n % Base \in 0 .. Base - 1
      /\ n = Base * (n \div Base) + (n % Base)
  OBVIOUS
<1> DEFINE d == n \div Base
<1>2. d < Base
  <2> SUFFICES ASSUME d >= Base PROVE FALSE
    BY <1>1
  <2>1. Base * d >= Base * Base
    BY <1>1
  <2> QED
    BY <1>1, <2>1
<1>3. d % Base = d
  BY <1>1, <1>2
<1> QED
  BY <1>1, <1>3

\* The loop of derLength over one byte and over two.
LEMMA OneByteRead ==
  ASSUME NEW bytes \in Seq(Nat), Len(bytes) = 2, Base \in Nat
  PROVE  Digits(bytes, 1) = bytes[2]
<1> DEFINE value == CHOOSE g : g = [i \in 0 .. 1 |-> IF i = 0 THEN 0 ELSE g[i - 1] * Base +
  bytes[i + 1]]
           h == [i \in 0 .. 1 |-> IF i = 0 THEN 0 ELSE bytes[2]]
<1>1. bytes[2] \in Nat
  OBVIOUS
<1>2. h = [i \in 0 .. 1 |-> IF i = 0 THEN 0 ELSE h[i - 1] * Base + bytes[i + 1]]
  <2>1. h[0] = 0 /\ h[1] = bytes[2]
    OBVIOUS
  <2>2. ASSUME NEW i \in 0 .. 1
        PROVE  h[i] = IF i = 0 THEN 0 ELSE h[i - 1] * Base + bytes[i + 1]
    BY <1>1, <2>1
  <2> HIDE DEF h
  <2> QED
    BY <2>2 DEF h
<1>3. value = [i \in 0 .. 1 |-> IF i = 0 THEN 0 ELSE value[i - 1] * Base + bytes[i + 1]]
  BY <1>2
<1>4. Digits(bytes, 1) = value[1]
  BY DEF Digits
<1> HIDE DEF value
<1>5. value[0] = 0 /\ value[1] = value[0] * Base + bytes[2]
  BY <1>3
<1> QED
  BY <1>1, <1>4, <1>5

\* And over two.
LEMMA TwoBytesRead ==
  ASSUME NEW bytes \in Seq(Nat), Len(bytes) = 3, Base \in Nat
  PROVE  Digits(bytes, 2) = bytes[2] * Base + bytes[3]
<1>1. bytes[2] \in Nat /\ bytes[3] \in Nat
  <2>1. 2 \in 1 .. Len(bytes) /\ 3 \in 1 .. Len(bytes)
    OBVIOUS
  <2>2. \A i \in 1 .. Len(bytes) : bytes[i] \in Nat
    BY ElementOfSeq
  <2> QED
    BY <2>1, <2>2
<1> DEFINE value == CHOOSE g : g = [i \in 0 .. 2 |-> IF i = 0 THEN 0 ELSE g[i - 1] * Base +
  bytes[i + 1]]
           m == bytes[2] * Base + bytes[3]
           h == [i \in 0 .. 2 |-> IF i = 0 THEN 0 ELSE IF i = 1 THEN bytes[2] ELSE m]
<1>2. h = [i \in 0 .. 2 |-> IF i = 0 THEN 0 ELSE h[i - 1] * Base + bytes[i + 1]]
  <2>1. h[0] = 0 /\ h[1] = bytes[2] /\ h[2] = m
    <3> HIDE DEF m
    <3> QED
      OBVIOUS
  <2>2. ASSUME NEW i \in 0 .. 2
        PROVE  h[i] = IF i = 0 THEN 0 ELSE h[i - 1] * Base + bytes[i + 1]
    <3> HIDE DEF h
    <3>1. i = 0 \/ i = 1 \/ i = 2
      OBVIOUS
    <3> QED
      BY <1>1, <2>1, <3>1
  <2> HIDE DEF h
  <2> QED
    BY <2>2 DEF h
<1>3. value = [i \in 0 .. 2 |-> IF i = 0 THEN 0 ELSE value[i - 1] * Base + bytes[i + 1]]
  BY <1>2
<1>4. Digits(bytes, 2) = value[2]
  BY DEF Digits
<1> HIDE DEF value
<1>5. value[0] = 0 /\ value[1] = value[0] * Base + bytes[2] /\ value[2] = value[1] * Base + bytes[3]
  BY <1>3
<1> QED
  BY <1>1, <1>4, <1>5

\* A length below the square of the base is read as it was written.
LEMMA LengthReadable ==
  ASSUME NEW n \in Nat, n < Base * Base
  PROVE  DecodeLength(EncodeLength(n)) = n
<1> DEFINE half == Base \div 2
           bytes == EncodeLength(n)
<1>1. Base \in Nat /\ Base >= 4 /\ half \in Nat /\ half + 2 < Base + 1 /\ half > 0
  BY RdpAssumption
<1>2. CASE n < half
  <2>1. bytes = <<n>>
    BY <1>2 DEF EncodeLength
  <2> HIDE DEF bytes, half
  <2>2. bytes[1] = n
    BY <2>1
  <2> QED
    BY <1>2, <2>2 DEF DecodeLength, half, bytes
<1>3. CASE half <= n /\ n < Base
  <2>1. bytes = <<half + 1, n>>
    BY <1>1, <1>3 DEF EncodeLength
  <2> HIDE DEF bytes
  <2>2. bytes \in Seq(Nat) /\ Len(bytes) = 2 /\ bytes[1] = half + 1 /\ bytes[2] = n
    BY <1>1, <2>1
  <2>3. DecodeLength(bytes) = Digits(bytes, 1)
    <3>1. ~(bytes[1] < half) /\ bytes[1] - half = 1
      BY <1>1, <2>2
    <3> QED
      BY <3>1 DEF DecodeLength
  <2> QED
    BY <1>1, <2>2, <2>3, OneByteRead DEF bytes
<1>4. CASE Base <= n
  <2> DEFINE high == (n \div Base) % Base
             low == n % Base
  <2>1. high \in Nat /\ low \in Nat /\ high * Base + low = n
    <3>1. Base \in Nat /\ Base > 0
      BY <1>1
    <3>2. /\ n \div Base \in Nat /\ n % Base \in Nat
          /\ ((n \div Base) % Base) * Base + (n % Base) = n
      BY <3>1, TwoDigits
    <3>3. high \in Nat
      BY <3>1, <3>2
    <3> QED
      BY <3>2, <3>3
  <2>2. bytes = <<half + 2, high, low>>
    BY <1>1, <1>4 DEF EncodeLength
  <2> HIDE DEF bytes, high, low
  <2>3. bytes \in Seq(Nat) /\ Len(bytes) = 3 /\ bytes[1] = half + 2 /\ bytes[2] = high /\
    bytes[3] = low
    BY <1>1, <2>1, <2>2
  <2>4. DecodeLength(bytes) = Digits(bytes, 2)
    <3>1. ~(bytes[1] < half) /\ bytes[1] - half = 2
      BY <1>1, <2>3
    <3> QED
      BY <3>1 DEF DecodeLength
  <2> QED
    BY <1>1, <2>1, <2>3, <2>4, TwoBytesRead DEF bytes
<1> QED
  BY <1>1, <1>2, <1>3, <1>4

\* What encodeLength writes are bytes.
LEMMA EncodedLength == \A n \in Nat : EncodeLength(n) \in Seq(Nat)
  BY RdpAssumption DEF EncodeLength

\* Every step keeps the types.
LEMMA RdpTypesStep == ASSUME RdpInv, RdpNext PROVE RdpTypes'
<1> USE DEF RdpInv, RdpTypes, Copying, EndsType, Answer, Stopped, Protocol, dialVars, relayVars
<1>1. ASSUME NEW right \in BOOLEAN, NEW protocols \in SUBSET Protocol, ReadRequest(right, protocols)
      PROVE  RdpTypes'
  BY <1>1 DEF ReadRequest
<1>2. ASSUME RequestFails PROVE RdpTypes'
  BY <1>2 DEF RequestFails
<1>3. ASSUME Dials PROVE RdpTypes'
  <2>1. offered' \subseteq Protocol
    BY <1>3 DEF Dials, PreferTLSOnly
  <2> QED
    BY <1>3, <2>1 DEF Dials
<1>4. ASSUME DialFails PROVE RdpTypes'
  BY <1>4 DEF DialFails
<1>5. ASSUME HandshakeSucceeds PROVE RdpTypes'
  BY <1>5 DEF HandshakeSucceeds
<1>6. ASSUME NEW alert \in BOOLEAN, HandshakeFails(alert) PROVE RdpTypes'
  BY <1>6 DEF HandshakeFails
<1>7. ASSUME WritesError PROVE RdpTypes'
  BY <1>7 DEF WritesError
<1>8. ASSUME NEW chain \in Chains, Responds(chain) PROVE RdpTypes'
  <2>1. CASE ends.browser
    BY <1>8, <2>1 DEF Responds
  <2>2. CASE ~ends.browser
    <3> DEFINE answer == [kind |-> "response", chain |-> chain, length |-> EncodeLength(chain)]
    <3>1. answer \in Answer
      BY <1>8, EncodedLength, RdpAssumption
    <3>2. answers' = Append(answers, answer)
      BY <1>8, <2>2 DEF Responds
    <3> HIDE DEF answer, Answer
    <3>3. answers' \in Seq(Answer)
      BY <3>1, <3>2
    <3>4. uplink' \in Copying /\ downlink' \in Copying
      BY <1>8, <2>2 DEF Responds
    <3> QED
      BY <1>8, <2>2, <3>3, <3>4 DEF Responds
  <2> QED
    BY <2>1, <2>2
<1>9. ASSUME BrowserSends PROVE RdpTypes'
  BY <1>9, RdpAssumption DEF BrowserSends
<1>10. ASSUME BrowserGone PROVE RdpTypes'
  BY <1>10 DEF BrowserGone
<1>11. ASSUME ServerSends PROVE RdpTypes'
  BY <1>11, RdpAssumption DEF ServerSends
<1>12. ASSUME ServerGone PROVE RdpTypes'
  BY <1>12 DEF ServerGone
<1>13. ASSUME UplinkWrites PROVE RdpTypes'
  <2> HIDE DEF RdpTypes
  <2>1. ends.gotUp + uplink.holds <= ends.sentUp /\ uplink.holds = 1
    BY <1>13 DEF UplinkWrites, Relaying
  <2>2. CASE sockets = {} \/ ends.server
    BY <1>13, <2>2 DEF UplinkWrites, RdpTypes
  <2>3. CASE ~(sockets = {} \/ ends.server)
    <3>1. ends' = [ends EXCEPT !.gotUp = @ + 1] /\ uplink' = [at |-> "read", holds |-> 0]
      BY <1>13, <2>3 DEF UplinkWrites
    <3>2. ends.gotUp + 1 \in 0 .. MaxData
      BY <2>1, RdpAssumption DEF RdpTypes
    <3>3. ends' \in EndsType
      BY <3>1, <3>2 DEF RdpTypes
    <3>4. uplink' \in Copying
      BY <3>1
    <3> QED
      BY <1>13, <3>3, <3>4 DEF UplinkWrites, RdpTypes
  <2> QED
    BY <2>2, <2>3
<1>14. ASSUME UplinkEnds PROVE RdpTypes'
  BY <1>14 DEF UplinkEnds
<1>15. ASSUME DownlinkWrites PROVE RdpTypes'
  BY <1>15 DEF DownlinkWrites
<1>16. ASSUME DownlinkEnds PROVE RdpTypes'
  BY <1>16 DEF DownlinkEnds
<1>17. ASSUME FirstDone PROVE RdpTypes'
  BY <1>17 DEF FirstDone
<1>18. ASSUME SecondDone PROVE RdpTypes'
  BY <1>18 DEF SecondDone
<1> QED
  BY <1>1, <1>2, <1>3, <1>4, <1>5, <1>6, <1>7, <1>8, <1>9, <1>10, <1>11, <1>12, <1>13, <1>14,
    <1>15, <1>16, <1>17, <1>18 DEF RdpNext

\* Every step keeps the one connection, and offers CredSSP only before the fallback.
LEMMA DiallingStep == ASSUME RdpInv, RdpNext PROVE Dialling'
<1> USE DEF RdpInv, RdpTypes, Dialling, Relaying, Stopped, dialVars, relayVars
<1>1. ASSUME NEW right \in BOOLEAN, NEW protocols \in SUBSET Protocol, ReadRequest(right, protocols)
      PROVE  Dialling'
  BY <1>1 DEF ReadRequest
<1>2. ASSUME RequestFails PROVE Dialling'
  BY <1>2 DEF RequestFails
<1>3. ASSUME Dials PROVE Dialling'
  BY <1>3 DEF Dials
<1>4. ASSUME DialFails PROVE Dialling'
  BY <1>4 DEF DialFails
<1>5. ASSUME HandshakeSucceeds PROVE Dialling'
  BY <1>5 DEF HandshakeSucceeds
<1>6. ASSUME NEW alert \in BOOLEAN, HandshakeFails(alert) PROVE Dialling'
  BY <1>6 DEF HandshakeFails
<1>7. ASSUME WritesError PROVE Dialling'
  BY <1>7 DEF WritesError
<1>8. ASSUME NEW chain \in Chains, Responds(chain) PROVE Dialling'
  BY <1>8 DEF Responds
<1>9. ASSUME BrowserSends PROVE Dialling'
  BY <1>9 DEF BrowserSends
<1>10. ASSUME BrowserGone PROVE Dialling'
  BY <1>10 DEF BrowserGone
<1>11. ASSUME ServerSends PROVE Dialling'
  BY <1>11 DEF ServerSends
<1>12. ASSUME ServerGone PROVE Dialling'
  BY <1>12 DEF ServerGone
<1>13. ASSUME UplinkWrites PROVE Dialling'
  BY <1>13 DEF UplinkWrites
<1>14. ASSUME UplinkEnds PROVE Dialling'
  BY <1>14 DEF UplinkEnds
<1>15. ASSUME DownlinkWrites PROVE Dialling'
  BY <1>15 DEF DownlinkWrites
<1>16. ASSUME DownlinkEnds PROVE Dialling'
  BY <1>16 DEF DownlinkEnds
<1>17. ASSUME FirstDone PROVE Dialling'
  BY <1>17 DEF FirstDone
<1>18. ASSUME SecondDone PROVE Dialling'
  BY <1>18 DEF SecondDone
<1> QED
  BY <1>1, <1>2, <1>3, <1>4, <1>5, <1>6, <1>7, <1>8, <1>9, <1>10, <1>11, <1>12, <1>13, <1>14,
    <1>15, <1>16, <1>17, <1>18 DEF RdpNext

\* Every step keeps the answers in step with the stage.
LEMMA AnsweringStep == ASSUME RdpInv, RdpNext PROVE Answering'
<1> USE DEF RdpInv, RdpTypes, Answering, Dialling, dialVars, relayVars
<1>1. ASSUME NEW right \in BOOLEAN, NEW protocols \in SUBSET Protocol, ReadRequest(right, protocols)
      PROVE  Answering'
  BY <1>1 DEF ReadRequest
<1>2. ASSUME RequestFails PROVE Answering'
  BY <1>2 DEF RequestFails
<1>3. ASSUME Dials PROVE Answering'
  BY <1>3 DEF Dials
<1>4. ASSUME DialFails PROVE Answering'
  BY <1>4 DEF DialFails
<1>5. ASSUME HandshakeSucceeds PROVE Answering'
  BY <1>5 DEF HandshakeSucceeds
<1>6. ASSUME NEW alert \in BOOLEAN, HandshakeFails(alert) PROVE Answering'
  BY <1>6 DEF HandshakeFails
<1>7. ASSUME WritesError PROVE Answering'
  BY <1>7 DEF WritesError
<1>8. ASSUME NEW chain \in Chains, Responds(chain) PROVE Answering'
  BY <1>8 DEF Responds
<1>9. ASSUME BrowserSends PROVE Answering'
  BY <1>9 DEF BrowserSends
<1>10. ASSUME BrowserGone PROVE Answering'
  BY <1>10 DEF BrowserGone
<1>11. ASSUME ServerSends PROVE Answering'
  BY <1>11 DEF ServerSends
<1>12. ASSUME ServerGone PROVE Answering'
  BY <1>12 DEF ServerGone
<1>13. ASSUME UplinkWrites PROVE Answering'
  BY <1>13 DEF UplinkWrites
<1>14. ASSUME UplinkEnds PROVE Answering'
  BY <1>14 DEF UplinkEnds
<1>15. ASSUME DownlinkWrites PROVE Answering'
  BY <1>15 DEF DownlinkWrites
<1>16. ASSUME DownlinkEnds PROVE Answering'
  BY <1>16 DEF DownlinkEnds
<1>17. ASSUME FirstDone PROVE Answering'
  BY <1>17 DEF FirstDone
<1>18. ASSUME SecondDone PROVE Answering'
  <2>1. answers' = answers /\ stage' = "ended" /\ Len(answers) = 1
    BY <1>18 DEF SecondDone
  <2>2. \A i \in DOMAIN answers' :
          answers'[i].kind = "response" => answers'[i].length = EncodeLength(answers'[i].chain)
    BY <2>1
  <2> QED
    BY <2>1, <2>2
<1> QED
  BY <1>1, <1>2, <1>3, <1>4, <1>5, <1>6, <1>7, <1>8, <1>9, <1>10, <1>11, <1>12, <1>13, <1>14,
    <1>15, <1>16, <1>17, <1>18 DEF RdpNext

\* Every step of the ends and of the goroutines keeps the account of the chunks.
LEMMA RelayingStep == ASSUME RdpInv, RdpNext PROVE Relaying'
<1> USE DEF RdpInv, RdpTypes, Copying, EndsType, Dialling, Relaying, Stopped, dialVars, relayVars
<1>1. ASSUME NEW right \in BOOLEAN, NEW protocols \in SUBSET Protocol, ReadRequest(right, protocols)
      PROVE  Relaying'
  BY <1>1 DEF ReadRequest
<1>2. ASSUME RequestFails PROVE Relaying'
  BY <1>2 DEF RequestFails
<1>3. ASSUME Dials PROVE Relaying'
  BY <1>3 DEF Dials
<1>4. ASSUME DialFails PROVE Relaying'
  BY <1>4 DEF DialFails
<1>5. ASSUME HandshakeSucceeds PROVE Relaying'
  BY <1>5 DEF HandshakeSucceeds
<1>6. ASSUME NEW alert \in BOOLEAN, HandshakeFails(alert) PROVE Relaying'
  BY <1>6 DEF HandshakeFails
<1>7. ASSUME WritesError PROVE Relaying'
  BY <1>7 DEF WritesError
<1>8. ASSUME NEW chain \in Chains, Responds(chain) PROVE Relaying'
  BY <1>8 DEF Responds
<1>9. ASSUME BrowserSends PROVE Relaying'
  BY <1>9 DEF BrowserSends
<1>10. ASSUME BrowserGone PROVE Relaying'
  BY <1>10 DEF BrowserGone
<1>11. ASSUME ServerSends PROVE Relaying'
  BY <1>11 DEF ServerSends
<1>12. ASSUME ServerGone PROVE Relaying'
  BY <1>12 DEF ServerGone
<1>13. ASSUME UplinkWrites PROVE Relaying'
  <2>1. uplink.at = "write" /\ uplink.holds = 1 /\ stage \in {"relay", "closed"}
    BY <1>13 DEF UplinkWrites
  <2>2. CASE sockets = {} \/ ends.server
    <3>1. uplink' = [at |-> "ended", holds |-> 0] /\ ends' = ends /\ stage' = stage
          /\ downlink' = downlink /\ refused' = refused
      BY <1>13, <2>2 DEF UplinkWrites
    <3>2. ~ends.server /\ ~refused => FALSE
      BY <2>1, <2>2
    <3> QED
      BY <2>1, <3>1, <3>2
  <2>3. CASE ~(sockets = {} \/ ends.server)
    <3>1. ends' = [ends EXCEPT !.gotUp = @ + 1] /\ uplink' = [at |-> "read", holds |-> 0]
          /\ stage' = stage /\ downlink' = downlink /\ refused' = refused
      BY <1>13, <2>3 DEF UplinkWrites
    <3>2. ends'.gotUp = ends.gotUp + 1 /\ ends'.sentUp = ends.sentUp /\ ends'.server = ends.server
      BY <3>1
    <3>3. ends.gotUp \in Nat /\ ends.sentUp \in Nat
      BY RdpAssumption
    <3>4. ends'.gotUp + uplink'.holds <= ends'.sentUp
          /\ (ends.gotUp + uplink.holds = ends.sentUp => ends'.gotUp + uplink'.holds = ends'.sentUp)
      BY <2>1, <3>1, <3>2, <3>3
    <3> QED
      BY <2>1, <2>3, <3>1, <3>2, <3>4
  <2> QED
    BY <2>2, <2>3
<1>14. ASSUME UplinkEnds PROVE Relaying'
  BY <1>14 DEF UplinkEnds
<1>15. ASSUME DownlinkWrites PROVE Relaying'
  BY <1>15 DEF DownlinkWrites
<1>16. ASSUME DownlinkEnds PROVE Relaying'
  <2>1. downlink' = [downlink EXCEPT !.at = "ended"] /\ downlink.at = "read" /\ stage' = stage
        /\ uplink' = uplink /\ refused' = refused /\ ends' = ends
    BY <1>16 DEF DownlinkEnds
  <2>2. stage \in {"relay", "closed", "ended"} /\ downlink'.at = "ended"
    BY <2>1
  <2>3. stage = "relay" => ends.server
    BY <1>16 DEF DownlinkEnds
  <2> QED
    BY <2>1, <2>2, <2>3
<1>17. ASSUME FirstDone PROVE Relaying'
  BY <1>17 DEF FirstDone
<1>18. ASSUME SecondDone PROVE Relaying'
  BY <1>18 DEF SecondDone
<1> QED
  BY <1>1, <1>2, <1>3, <1>4, <1>5, <1>6, <1>7, <1>8, <1>9, <1>10, <1>11, <1>12, <1>13, <1>14,
    <1>15, <1>16, <1>17, <1>18 DEF RdpNext

\* The bridge starts inside its invariant.
LEMMA RdpStart == RdpInit => RdpInv
<1> SUFFICES ASSUME RdpInit PROVE RdpInv
  OBVIOUS
<1>1. ends \in EndsType
  BY RdpAssumption DEF RdpInit, EndsType
<1>2. uplink \in Copying /\ downlink \in Copying
  BY DEF RdpInit, Copying, Stopped
<1>3. answers \in Seq(Answer)
  BY DEF RdpInit
<1>4. legacy \in BOOLEAN /\ versionAlert \in BOOLEAN /\ refused \in BOOLEAN
  BY DEF RdpInit
<1>5. RdpTypes
  BY <1>1, <1>2, <1>3, <1>4 DEF RdpInit, RdpTypes
<1>6. Dialling /\ Answering
  BY DEF RdpInit, Dialling, Answering
<1>7. Relaying
  BY DEF RdpInit, Relaying, Stopped
<1> QED
  BY <1>5, <1>6, <1>7 DEF RdpInv

\* A step that changes nothing keeps it.
LEMMA RdpStutter == RdpInv /\ UNCHANGED rdpVars => RdpInv'
  BY DEF rdpVars, RdpInv, RdpTypes, Dialling, Answering, Relaying

\* The invariant gives the properties of the bridge.
LEMMA RdpSafety == RdpInv => RdpSafe
<1> SUFFICES ASSUME RdpInv PROVE RdpSafe
  OBVIOUS
<1>1. RdpTypeOK
  <2>1. Len(answers) <= 2
    BY DEF RdpInv, RdpTypes, Answering
  <2>2. sockets \subseteq {1, 2}
    BY DEF RdpInv, Dialling
  <2> QED
    BY <2>1, <2>2 DEF RdpInv, RdpTypes, RdpTypeOK, Copying, EndsType
<1>2. SocketsReleased /\ OneAnswer /\ LegacyAfterAlert
  BY DEF RdpInv, RdpTypes, SocketsReleased, OneAnswer, LegacyAfterAlert, Dialling, Answering,
    PreferTLSOnly
<1>3. ChainReadable
  <2> SUFFICES ASSUME NEW i \in DOMAIN answers, answers[i].kind = "response",
                      answers[i].chain < Base * Base
               PROVE  DecodeLength(answers[i].length) = answers[i].chain
    BY DEF ChainReadable
  <2>1. answers[i] \in Answer
    BY DEF RdpInv, RdpTypes
  <2>2. answers[i].chain \in Nat
    BY <2>1, RdpAssumption DEF Answer
  <2>3. answers[i].length = EncodeLength(answers[i].chain)
    BY DEF RdpInv, Answering
  <2> QED
    BY <2>2, <2>3, LengthReadable
<1>4. UplinkDelivered
  BY DEF UplinkDelivered, RdpInv, RdpTypes, Relaying, Copying, EndsType
<1> QED
  BY <1>1, <1>2, <1>3, <1>4 DEF RdpSafe

\* Whatever the browser and the server do, a bridge leaves no connection open,
\* tells the browser once how it went, weakens TLS only after a version alert,
\* writes certificate lengths that are read back, and drops no upstream chunk.
THEOREM BridgeToldOnce == RdpSpec => []RdpSafe
<1>1. RdpInv /\ [RdpNext]_rdpVars => RdpInv'
  BY RdpTypesStep, DiallingStep, AnsweringStep, RelayingStep, RdpStutter DEF RdpInv
<1> QED
  BY RdpStart, <1>1, RdpSafety, PTL DEF RdpSpec
=============================================================================
