---------------------------- MODULE AppSessions -----------------------------
(***************************************************************************)
(* The sessions of an app (shellagent/session_state.go): a small table on  *)
(* disk that its tabs list, upsert, remove from and prune.  A request      *)
(* holds s.mu from reading the file to renaming the new one; writes fail,  *)
(* and the agent may be killed at any step.                                *)
(***************************************************************************)
EXTENDS Naturals, FiniteSets

CONSTANTS
  SessionId,        \* ids of sessions
  MaxNow,           \* the clock, in requests that change a session
  MaxSessionKills   \* times that the agent is killed

ASSUME AppSessionsAssumption == MaxNow \in Nat /\ MaxSessionKills \in Nat

VARIABLES
  sessionFile,   \* the table on disk
  scratch,       \* .sessions-* of the request: none, part or whole
  request,       \* the request that holds s.mu
  told,          \* what the callers know of each session
  unsure,        \* sessions whose request was cut off or failed after the rename
  now, sessionKills

appSessionVars == <<sessionFile, scratch, request, told, unsure, now, sessionKills>>
onDisk == <<sessionFile, scratch>>

\* A session is live while it is connecting or running.
Status == {"idle", "running"}
SessionRecord == [status : Status, updated : 0 .. MaxNow]
Tables == UNION {[S -> SessionRecord] : S \in SUBSET SessionId}
Empty == <<>>
NoRequest == [at |-> "none", op |-> "none", table |-> Empty, ids |-> {}]
With(table, i, record) ==
  [j \in DOMAIN table \cup {i} |-> IF j = i THEN record ELSE table[j]]
Less(table, gone) == [i \in DOMAIN table \ gone |-> table[i]]

\* Types of the table and of the request.
AppSessionsTypeOK ==
  /\ sessionFile \in Tables /\ scratch \in {"none", "part", "whole"}
  /\ request.at \in {"none", "create", "write", "rename", "reply"}
  /\ request.op \in {"none", "upsert", "remove", "prune"}
  /\ request.table \in Tables /\ request.ids \subseteq SessionId
  /\ told \in Tables /\ unsure \subseteq SessionId
  /\ now \in 0 .. MaxNow /\ sessionKills \in 0 .. MaxSessionKills

AppSessionsInit ==
  /\ sessionFile = Empty /\ scratch = "none" /\ request = NoRequest
  /\ told = Empty /\ unsure = {} /\ now = 0 /\ sessionKills = 0

-----------------------------------------------------------------------------
\* The new table of a request, if it has one.
Replaces(op, table, ids) ==
  request' = [at |-> "create", op |-> op, table |-> table, ids |-> ids]

\* upsert: a session that is new, or known with another status.
Upsert(i, status) ==
  /\ request = NoRequest /\ now < MaxNow /\ now' = now + 1
  /\ Replaces("upsert", With(sessionFile, i, [status |-> status, updated |-> now']), {i})
  /\ UNCHANGED <<onDisk, told, unsure, sessionKills>>

Remove(i) ==
  /\ request = NoRequest /\ i \in DOMAIN sessionFile
  /\ Replaces("remove", Less(sessionFile, {i}), {i})
  /\ UNCHANGED <<onDisk, told, unsure, now, sessionKills>>

\* Mutant: whatever was not updated lately is pruned.
StaleAll(cutoff) == {i \in DOMAIN sessionFile : sessionFile[i].updated < cutoff}

\* What prune removes: sessions that are not live and were not updated since.
Stale(cutoff) ==
  {i \in DOMAIN sessionFile :
     sessionFile[i].updated < cutoff /\ sessionFile[i].status # "running"}

Prune(cutoff) ==
  LET gone == Stale(cutoff) IN
  /\ request = NoRequest /\ gone # {}
  /\ Replaces("prune", Less(sessionFile, gone), gone)
  /\ UNCHANGED <<onDisk, told, unsure, now, sessionKills>>

\* writeSessions: a temporary file is created, written and closed ...
CreateScratch ==
  /\ request.at = "create" /\ scratch' = "part" /\ request' = [request EXCEPT !.at = "write"]
  /\ UNCHANGED <<sessionFile, told, unsure, now, sessionKills>>

\* Mutant: the table itself is truncated and written.
WriteTable ==
  /\ request.at = "write" /\ scratch' = "whole" /\ request' = [request EXCEPT !.at = "rename"]
  /\ sessionFile' = Empty
  /\ UNCHANGED <<told, unsure, now, sessionKills>>

WriteScratch ==
  /\ request.at = "write" /\ scratch' = "whole" /\ request' = [request EXCEPT !.at = "rename"]
  /\ UNCHANGED <<sessionFile, told, unsure, now, sessionKills>>

\* ... and renamed.
RenameScratch ==
  /\ request.at = "rename" /\ scratch' = "none" /\ sessionFile' = request.table
  /\ request' = [request EXCEPT !.at = "reply"]
  /\ UNCHANGED <<told, unsure, now, sessionKills>>

\* The disk refuses; the temporary file is removed and the caller gets the
\* error.
SessionWriteFails ==
  /\ request.at \in {"create", "write", "rename"} /\ scratch' = "none" /\ request' = NoRequest
  /\ UNCHANGED <<sessionFile, told, unsure, now, sessionKills>>

SessionReply ==
  /\ request.at = "reply" /\ request' = NoRequest
  /\ told' = [i \in (DOMAIN told \ request.ids) \cup (request.ids \cap DOMAIN sessionFile) |->
                IF i \in request.ids THEN sessionFile[i] ELSE told[i]]
  /\ unsure' = unsure \ request.ids
  /\ UNCHANGED <<onDisk, now, sessionKills>>

\* The agent is killed and starts again: only the file is left.
SessionsKilled ==
  /\ sessionKills < MaxSessionKills /\ sessionKills' = sessionKills + 1
  /\ request' = NoRequest /\ unsure' = unsure \cup request.ids /\ scratch' = "none"
  /\ UNCHANGED <<sessionFile, told, now>>

AppSessionsNext ==
  \/ \E i \in SessionId : Remove(i) \/ \E status \in Status : Upsert(i, status)
  \/ \E cutoff \in 1 .. MaxNow : Prune(cutoff)
  \/ CreateScratch \/ WriteScratch \/ RenameScratch
  \/ SessionWriteFails \/ SessionReply \/ SessionsKilled

AppSessionsSpec == AppSessionsInit /\ [][AppSessionsNext]_appSessionVars

\* What a caller was told of a session is what the table on disk says of it,
\* whatever request on it or on another session fails or is cut off.
ToldIsStored ==
  \A i \in SessionId \ (unsure \cup request.ids) :
    IF i \in DOMAIN told THEN i \in DOMAIN sessionFile /\ sessionFile[i] = told[i]
                         ELSE i \notin DOMAIN sessionFile

\* Types, and answers that a restart confirms (handleSessionsRPC).
AppSessionsSafe == AppSessionsTypeOK /\ ToldIsStored

\* A live session is only removed by its own removal: pruning leaves it,
\* however old it is.
LiveKept ==
  \A i \in DOMAIN sessionFile :
    sessionFile[i].status = "running" /\ i \notin DOMAIN sessionFile' => request.op = "remove"
=============================================================================
