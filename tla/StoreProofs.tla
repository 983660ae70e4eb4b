----------------------------- MODULE StoreProofs ----------------------------
(* Theorems about parts that keep files beside what they answer: the       *)
(* account login (AccountLogin), the sessions of an app (AppSessions), the *)
(* publication of a project (Publish), the SSH host keys (HostKeys), the   *)
(* drafts of apps (Drafts), the toolchain and the PATH of node apps        *)
(* (NodeRuntime) and the copies of network files (NetCopy), for every      *)
(* number of callbacks, tokens, sessions, requests, versions, edits,       *)
(* connections, hosts, directories, index entries, files, chunks, copies   *)
(* and kills.                                                              *)
EXTENDS AccountLogin, AppSessions, Publish, HostKeys, Drafts, NodeRuntime, NetCopy,
        FiniteSetTheorems, SequenceTheorems, WellFoundedInduction, TLAPS

-----------------------------------------------------------------------------
(* The account login *)

\* A callback, and types that the proofs need on top of LoginTypeOK.
Storer ==
  [at : {"idle", "verify", "truncate", "write", "activate"}, token : Token \cup {Nobody},
   alone : BOOLEAN]
LoginTypes ==
  /\ loginStates \in [DOMAIN loginStates -> Age]
  /\ callback \in [Callback -> Storer]
  /\ \A c \in Callback : callback[c].at # "idle" => callback[c].token \in Token

\* A state is unused, issued or taken, and only a taken one has been used.
StatesApart ==
  /\ unused \cap DOMAIN loginStates = {}
  /\ \A s \in LoginState : s \in unused \cup DOMAIN loginStates => uses[s] = 0

\* A callback that stores a token has had it confirmed.
StoresConfirmed ==
  \A c \in Callback : Storing(c) => callback[c].token \in Token \ Refused

\* One that stores alone is the only one, and knows what the file holds; so does
\* any as long as file and account have not been parted.
OneStores ==
  \A c \in Callback : Storing(c) =>
    /\ callback[c].alone => \A d \in Callback : Storing(d) => d = c
    /\ callback[c].alone /\ callback[c].at = "activate" => authFile = callback[c].token
    /\ ~met => /\ callback[c].alone
               /\ callback[c].at = "truncate" => authFile = accountToken

\* The inductive invariant of the account login.
LoginInv ==
  /\ LoginTypeOK /\ LoginTypes
  /\ StatesApart /\ StateUsedOnce
  /\ StoresConfirmed /\ OnlyConfirmed
  /\ OneStores /\ AccountOnFile

\* Issuing and ageing of states.
LEMMA StatesStep ==
  ASSUME LoginInv, NEW s \in LoginState, LoginStart(s) \/ Expires(s)
  PROVE  LoginInv'
<1> USE LoginAssumption DEF LoginInv, Age, stateVars, accountVars
<1>1. UNCHANGED <<uses, callback, authFile, accountToken, met, loginKills>>
  BY DEF LoginStart, Expires
<1>2. /\ unused' \subseteq LoginState /\ DOMAIN loginStates' \subseteq LoginState
      /\ loginStates' \in [DOMAIN loginStates' -> Age]
      /\ unused' \cap DOMAIN loginStates' = {}
      /\ unused' \cup DOMAIN loginStates' \subseteq unused \cup DOMAIN loginStates
  <2>1. CASE LoginStart(s)
    <3> DEFINE kept == {k \in DOMAIN loginStates : loginStates[k] = "fresh"}
    <3>1. loginStates' = [k \in kept \cup {s} |-> "fresh"] /\ unused' = unused \ {s}
      BY <2>1 DEF LoginStart
    <3> QED
      BY <2>1, <3>1 DEF LoginStart, LoginTypeOK, LoginTypes, StatesApart
  <2>2. CASE Expires(s)
    BY <2>2 DEF Expires, LoginTypeOK, LoginTypes, StatesApart
  <2> QED
    BY <2>1, <2>2
<1>3. LoginTypeOK' /\ LoginTypes'
  BY <1>1, <1>2 DEF LoginTypeOK, LoginTypes
<1>4. StatesApart' /\ StateUsedOnce'
  BY <1>1, <1>2 DEF StatesApart, StateUsedOnce
<1>5. StoresConfirmed' /\ OnlyConfirmed' /\ OneStores' /\ AccountOnFile'
  BY <1>1 DEF StoresConfirmed, OnlyConfirmed, OneStores, AccountOnFile, Storing
<1> QED
  BY <1>3, <1>4, <1>5

\* The callback takes its state.
LEMMA ConsumeStep ==
  ASSUME LoginInv, NEW c \in Callback, NEW s \in LoginState, NEW t \in Token,
         ConsumeLoginState(c, s, t)
  PROVE  LoginInv'
<1> USE LoginAssumption DEF LoginInv, Age, accountVars
<1>1. /\ UNCHANGED <<unused, authFile, accountToken, met, loginKills>>
      /\ DOMAIN loginStates' = DOMAIN loginStates \ {s}
      /\ loginStates' \in [DOMAIN loginStates' -> Age]
      /\ callback[c].at = "idle" /\ s \in DOMAIN loginStates
  BY DEF ConsumeLoginState, LoginTypes
<1>2. \/ UNCHANGED <<callback, uses>>
      \/ /\ callback' = [callback EXCEPT ![c] =
                           [at |-> "verify", token |-> t, alone |-> FALSE]]
         /\ uses' = [uses EXCEPT ![s] = @ + 1]
  BY DEF ConsumeLoginState, SetCallback, Returned
<1>3. LoginTypeOK' /\ LoginTypes'
  <2>1. [at |-> "verify", token |-> t, alone |-> FALSE] \in Storer
    BY DEF Storer
  <2>2. callback' \in [Callback -> Storer]
    BY <1>2, <2>1 DEF LoginTypes
  <2> QED
    BY <1>1, <1>2, <2>2 DEF LoginTypeOK, LoginTypes, StatesApart
<1>4. StatesApart' /\ StateUsedOnce'
  BY <1>1, <1>2 DEF StatesApart, StateUsedOnce, LoginTypeOK
<1>5. StoresConfirmed' /\ OnlyConfirmed' /\ OneStores' /\ AccountOnFile'
  BY <1>1, <1>2
  DEF StoresConfirmed, OnlyConfirmed, OneStores, AccountOnFile, Storing, LoginTypes
<1> QED
  BY <1>3, <1>4, <1>5

\* What the start of storing does to the callbacks.
LEMMA VerifyBegins ==
  ASSUME LoginInv, NEW c \in Callback, Verify(c)
  PROVE  LET others == {d \in Callback \ {c} : Storing(d)} IN
         /\ UNCHANGED <<authFile, accountToken>> /\ met' = (met \/ others # {})
         /\ callback[c].token \in Token \ Refused /\ ~Storing(c)
         /\ callback' \in [Callback -> Storer]
         /\ callback'[c].at = "truncate" /\ callback'[c].token = callback[c].token
         /\ callback'[c].alone = (others = {})
         /\ \A d \in Callback \ {c} :
              /\ callback'[d].at = callback[d].at /\ callback'[d].token = callback[d].token
              /\ Storing(d) => ~callback'[d].alone
<1> DEFINE others == {d \in Callback \ {c} : Storing(d)}
           first == [callback[c] EXCEPT !.at = "truncate", !.alone = others = {}]
           warned(d) == [callback[d] EXCEPT !.alone = FALSE]
<1>1. /\ callback' = [d \in Callback |-> IF d = c THEN first
                                         ELSE IF d \in others THEN warned(d) ELSE callback[d]]
      /\ callback[c].at = "verify" /\ callback[c].token \notin Refused
      /\ UNCHANGED <<authFile, accountToken>> /\ met' = (met \/ others # {})
  BY DEF Verify, BeginStoring, accountVars
<1>2. \A d \in Callback : callback[d] \in Storer
  BY DEF LoginInv, LoginTypes
<1>3. callback[c].token \in Token \ Refused /\ ~Storing(c)
  BY <1>1 DEF LoginInv, LoginTypes, Storing
<1>4. /\ first \in Storer /\ first.at = "truncate" /\ first.token = callback[c].token
      /\ first.alone = (others = {})
  <2>1. (others = {}) \in BOOLEAN
    OBVIOUS
  <2> HIDE DEF others
  <2> QED
    BY <1>2, <2>1 DEF Storer
<1>5. ASSUME NEW d \in Callback
      PROVE  /\ warned(d) \in Storer /\ warned(d).at = callback[d].at
             /\ warned(d).token = callback[d].token /\ ~warned(d).alone
  BY <1>2 DEF Storer
<1>6. \A d \in Callback \ {c} : d \in others <=> Storing(d)
  OBVIOUS
<1> HIDE DEF first, warned, others
<1>7. callback' \in [Callback -> Storer]
  BY <1>1, <1>2, <1>4, <1>5
<1>8. callback'[c] = first
  BY <1>1
<1>9. \A d \in Callback \ {c} :
        /\ callback'[d].at = callback[d].at /\ callback'[d].token = callback[d].token
        /\ Storing(d) => ~callback'[d].alone
  BY <1>1, <1>5, <1>6
<1> QED
  BY <1>1, <1>3, <1>4, <1>7, <1>8, <1>9 DEF others

\* A callback verifies, stores and activates its token.
LEMMA StoreStep ==
  ASSUME LoginInv, NEW c \in Callback,
         \/ Verify(c) \/ CallbackFails(c) \/ TruncateAuth(c) \/ WriteAuth(c) \/ WriteFails(c)
         \/ Activate(c)
  PROVE  LoginInv'
<1> USE LoginAssumption DEF LoginInv, stateVars, accountVars, SetCallback, Nobody, Torn
<1>1. UNCHANGED <<loginStates, unused, uses, loginKills>>
  BY DEF Verify, BeginStoring, CallbackFails, TruncateAuth, WriteAuth, WriteFails, Activate
<1>2. StatesApart' /\ StateUsedOnce'
  BY <1>1 DEF StatesApart, StateUsedOnce
<1> USE DEF LoginTypeOK, LoginTypes, StoresConfirmed, OnlyConfirmed, OneStores, AccountOnFile,
            Storing, Storer
<1>3. CASE Verify(c)
  <2> DEFINE others == {d \in Callback \ {c} : Storing(d)}
  <2>1. /\ UNCHANGED <<authFile, accountToken>> /\ met' = (met \/ others # {})
        /\ callback[c].token \in Token \ Refused /\ ~Storing(c)
        /\ callback' \in [Callback -> Storer]
    BY <1>3, VerifyBegins
  <2>5. /\ callback'[c].at = "truncate" /\ callback'[c].token = callback[c].token
        /\ callback'[c].alone = (others = {})
    BY <1>3, VerifyBegins
  <2>6. \A d \in Callback \ {c} :
          /\ callback'[d].at = callback[d].at /\ callback'[d].token = callback[d].token
          /\ Storing(d) => ~callback'[d].alone
    BY <1>3, VerifyBegins
  <2>7. ~met' => ~met /\ others = {}
    BY <2>1
  <2>8. others = {} => \A d \in Callback : Storing(d) => d = c
    BY <2>1
  <2>9. met' \in BOOLEAN
    BY <2>1
  <2> HIDE DEF others
  <2>2. LoginTypeOK' /\ LoginTypes'
    BY <1>1, <2>1, <2>5, <2>6, <2>9
  <2>3. StoresConfirmed' /\ OnlyConfirmed'
    BY <2>1, <2>5, <2>6
  <2>4. OneStores' /\ AccountOnFile'
    <3>1. AccountOnFile'
      BY <2>5
    <3>2. ~met' => ~met /\ authFile = accountToken
      BY <2>1, <2>7, <2>8
    <3>3. ASSUME NEW d \in Callback, Storing(d)', NEW e \in Callback, Storing(e)',
                 callback'[d].alone
          PROVE  e = d
      <4>1. \A x \in Callback \ {c} : Storing(x)' => Storing(x)
        BY <2>6
      <4>2. d = c
        BY <2>6, <3>3, <4>1
      <4>3. e # c => e = c
        BY <2>5, <2>8, <3>3, <4>1, <4>2
      <4> QED
        BY <4>2, <4>3
    <3>4. OneStores'
      BY <2>1, <2>5, <2>6, <2>7, <2>8, <3>2, <3>3
    <3> QED
      BY <3>1, <3>4
  <2> QED
    BY <1>2, <2>2, <2>3, <2>4
<1>4. CASE CallbackFails(c)
  BY <1>1, <1>2, <1>4 DEF CallbackFails, Returned
<1>5. CASE TruncateAuth(c)
  BY <1>1, <1>2, <1>5 DEF TruncateAuth
<1>6. CASE WriteAuth(c)
  BY <1>1, <1>2, <1>6 DEF WriteAuth
<1>7. CASE Activate(c)
  BY <1>1, <1>2, <1>7 DEF Activate, Returned
<1>8. CASE WriteFails(c)
  BY <1>1, <1>2, <1>8 DEF WriteFails, Returned
<1> QED
  BY <1>3, <1>4, <1>5, <1>6, <1>7, <1>8

\* The agent is killed and loads what is on file.
LEMMA LoginKilled ==
  ASSUME LoginInv, LoadDynerAccountToken
  PROVE  LoginInv'
<1> USE LoginAssumption DEF LoginInv, LoadDynerAccountToken, Returned, Nobody, Torn, Storer
<1>1. LoginTypeOK' /\ LoginTypes'
  BY DEF LoginTypeOK, LoginTypes
<1>2. StatesApart' /\ StateUsedOnce'
  BY DEF StatesApart, StateUsedOnce
<1>3. StoresConfirmed' /\ OnlyConfirmed'
  BY DEF StoresConfirmed, OnlyConfirmed, Storing, LoginTypeOK
<1>4. OneStores' /\ AccountOnFile'
  BY DEF OneStores, AccountOnFile, Storing, LoginTypeOK
<1> QED
  BY <1>1, <1>2, <1>3, <1>4

\* However callbacks race, fail and are cut off, each state signs in once and
\* only a confirmed account is stored; the account on file is the active one
\* again after every sign-in that no other one overlapped and every start that
\* could read it (handleSettingsLoginCallback, storeAccountToken).
THEOREM AccountConfirmed == LoginSpec => []LoginSafe
<1>1. LoginInit => LoginInv
  <2> SUFFICES ASSUME LoginInit PROVE LoginInv
    OBVIOUS
  <2> USE LoginAssumption DEF Returned, Nobody, Torn, Storer
  <2>1. DOMAIN loginStates = {} /\ loginStates = [s \in {} |-> "old"]
    BY DEF LoginInit
  <2>5. /\ unused = LoginState /\ uses = [s \in LoginState |-> 0]
        /\ callback = [c \in Callback |-> Returned]
        /\ authFile = Nobody /\ accountToken = Nobody /\ met = FALSE /\ loginKills = 0
    BY DEF LoginInit
  <2>7. met \in BOOLEAN
    BY <2>5
  <2>8. \A s \in DOMAIN loginStates : loginStates[s] \in Age
    BY <2>1
  <2>2. LoginTypeOK
    BY <2>1, <2>5, <2>7, <2>8 DEF LoginTypeOK
  <2>6. LoginTypes
    BY <2>1, <2>5 DEF LoginTypes, Age
  <2>3. StatesApart /\ StateUsedOnce
    BY <2>1, <2>5 DEF StatesApart, StateUsedOnce
  <2>4. StoresConfirmed /\ OnlyConfirmed /\ OneStores /\ AccountOnFile
    BY <2>5 DEF StoresConfirmed, OnlyConfirmed, OneStores, AccountOnFile, Storing
  <2> QED
    BY <2>2, <2>3, <2>4, <2>6 DEF LoginInv
<1>2. LoginInv /\ [LoginNext]_loginVars => LoginInv'
  <2> SUFFICES ASSUME LoginInv, [LoginNext]_loginVars PROVE LoginInv'
    OBVIOUS
  <2>1. CASE LoginNext
    BY <2>1, StatesStep, ConsumeStep, StoreStep, LoginKilled DEF LoginNext
  <2>2. CASE UNCHANGED loginVars
    BY <2>2
    DEF loginVars, LoginInv, LoginTypeOK, LoginTypes, StatesApart, StateUsedOnce,
        StoresConfirmed, OnlyConfirmed, OneStores, AccountOnFile, Storing
  <2> QED
    BY <2>1, <2>2
<1>3. LoginInv => LoginSafe
  BY DEF LoginInv, LoginSafe
<1> QED
  BY <1>1, <1>2, <1>3, PTL DEF LoginSpec

-----------------------------------------------------------------------------
(* The sessions of an app *)

\* A table maps some sessions to records.
LEMMA TableType ==
  ASSUME NEW t
  PROVE  t \in Tables <=> DOMAIN t \subseteq SessionId /\ t \in [DOMAIN t -> SessionRecord]
  BY DEF Tables

\* The empty table.
LEMMA EmptyTable == Empty \in Tables /\ DOMAIN Empty = {}
<1>1. Empty = [i \in {} |-> 0] /\ DOMAIN Empty = {}
  BY DEF Empty
<1>2. Empty \in [DOMAIN Empty -> SessionRecord]
  BY <1>1
<1>3. Empty \in Tables
  BY <1>1, <1>2, TableType
<1> QED
  BY <1>1, <1>3

\* A table without some sessions.
LEMMA LessTable ==
  ASSUME NEW t \in Tables, NEW gone
  PROVE  /\ Less(t, gone) \in Tables /\ DOMAIN Less(t, gone) = DOMAIN t \ gone
         /\ \A i \in DOMAIN t \ gone : Less(t, gone)[i] = t[i]
<1>1. DOMAIN t \subseteq SessionId /\ t \in [DOMAIN t -> SessionRecord]
  BY TableType
<1>2. Less(t, gone) \in [DOMAIN t \ gone -> SessionRecord]
  BY <1>1 DEF Less
<1>3. Less(t, gone) \in Tables
  BY <1>1, <1>2, TableType
<1> QED
  BY <1>3 DEF Less

\* A table with one record added or replaced.
LEMMA WithTable ==
  ASSUME NEW t \in Tables, NEW i \in SessionId, NEW r \in SessionRecord
  PROVE  /\ With(t, i, r) \in Tables /\ DOMAIN With(t, i, r) = DOMAIN t \cup {i}
         /\ \A j \in DOMAIN t \ {i} : With(t, i, r)[j] = t[j]
<1>1. DOMAIN t \subseteq SessionId /\ t \in [DOMAIN t -> SessionRecord]
  BY TableType
<1>2. /\ With(t, i, r) \in [DOMAIN t \cup {i} -> SessionRecord]
      /\ DOMAIN With(t, i, r) = DOMAIN t \cup {i}
  BY <1>1 DEF With
<1>3. With(t, i, r) \in Tables
  BY <1>1, <1>2, TableType
<1> QED
  BY <1>2, <1>3 DEF With

\* Types that the proofs need on top of AppSessionsTypeOK.
RequestType ==
  [at : {"none", "create", "write", "rename", "reply"}, op : {"none", "upsert", "remove", "prune"},
   table : Tables, ids : SUBSET SessionId]

Agrees(i) ==
  IF i \in DOMAIN told THEN i \in DOMAIN sessionFile /\ sessionFile[i] = told[i]
                       ELSE i \notin DOMAIN sessionFile
SameIn(table, i) ==
  /\ i \in DOMAIN table <=> i \in DOMAIN sessionFile
  /\ i \in DOMAIN table => table[i] = sessionFile[i]
BeforeRename == request.at \in {"create", "write", "rename"}

\* Until the rename the file is as the callers know it, also for the sessions
\* of the request, and the new table differs only in those; only a removal
\* leaves out a session that is live.
RequestOwn ==
  /\ request.at = "none" => request = NoRequest
  /\ BeforeRename =>
       /\ \A i \in SessionId \ unsure : Agrees(i)
       /\ \A i \in SessionId \ request.ids : SameIn(request.table, i)
       /\ \A i \in DOMAIN sessionFile :
            sessionFile[i].status = "running" /\ i \notin DOMAIN request.table
              => request.op = "remove"

\* The inductive invariant of the sessions of an app.
AppSessionsInv == AppSessionsTypeOK /\ request \in RequestType /\ RequestOwn /\ ToldIsStored

\* Without a request every answer still holds.
LEMMA QuietAgrees ==
  ASSUME AppSessionsInv, request.at = "none"
  PROVE  \A i \in SessionId \ unsure : Agrees(i)
  BY DEF AppSessionsInv, RequestOwn, NoRequest, ToldIsStored, Agrees

\* A request prepares its new table: an upsert, a removal or a pruning.
LEMMA PrepareStep ==
  ASSUME AppSessionsInv, request = NoRequest,
         NEW op \in {"upsert", "remove", "prune"}, NEW table \in Tables,
         NEW ids \in SUBSET SessionId, Replaces(op, table, ids),
         \A i \in SessionId \ ids : SameIn(table, i),
         \A i \in DOMAIN sessionFile :
           sessionFile[i].status = "running" /\ i \notin DOMAIN table => op = "remove",
         UNCHANGED <<onDisk, told, unsure, sessionKills>>, now' \in 0 .. MaxNow
  PROVE  AppSessionsInv'
<1>1. request' = [at |-> "create", op |-> op, table |-> table, ids |-> ids]
  BY DEF Replaces
<1>2. UNCHANGED <<sessionFile, scratch, told, unsure, sessionKills>>
  BY DEF onDisk
<1>3. AppSessionsTypeOK' /\ (request \in RequestType)'
  BY <1>1, <1>2 DEF AppSessionsInv, AppSessionsTypeOK, RequestType
<1>4. \A i \in SessionId \ unsure : Agrees(i)
  BY QuietAgrees DEF NoRequest
<1>5. RequestOwn'
  BY <1>1, <1>2, <1>4 DEF RequestOwn, Agrees, SameIn
<1>6. ToldIsStored'
  BY <1>1, <1>2, <1>4 DEF ToldIsStored, Agrees
<1> QED
  BY <1>3, <1>5, <1>6 DEF AppSessionsInv

\* The three operations only change the sessions that they name.
LEMMA OperationStep ==
  ASSUME AppSessionsInv,
         \/ \E i \in SessionId : Remove(i) \/ \E status \in Status : Upsert(i, status)
         \/ \E cutoff \in 1 .. MaxNow : Prune(cutoff)
  PROVE  AppSessionsInv'
<1>1. sessionFile \in Tables /\ now \in 0 .. MaxNow /\ DOMAIN sessionFile \subseteq SessionId
  BY TableType DEF AppSessionsInv, AppSessionsTypeOK
<1>2. ASSUME NEW i \in SessionId, Remove(i) PROVE AppSessionsInv'
  <2> DEFINE new == Less(sessionFile, {i})
  <2>1. new \in Tables /\ \A j \in SessionId \ {i} : SameIn(new, j)
    BY <1>1, LessTable DEF SameIn
  <2>2. /\ request = NoRequest /\ Replaces("remove", new, {i}) /\ now' \in 0 .. MaxNow
        /\ UNCHANGED <<onDisk, told, unsure, sessionKills>>
    BY <1>1, <1>2 DEF Remove
  <2>3. /\ {i} \in SUBSET SessionId /\ "remove" \in {"upsert", "remove", "prune"}
        /\ \A j \in DOMAIN sessionFile :
             sessionFile[j].status = "running" /\ j \notin DOMAIN new => "remove" = "remove"
    OBVIOUS
  <2> HIDE DEF new
  <2> QED
    BY <2>1, <2>2, <2>3, PrepareStep
<1>3. ASSUME NEW i \in SessionId, NEW status \in Status, Upsert(i, status) PROVE AppSessionsInv'
  <2> DEFINE r == [status |-> status, updated |-> now']
             new == With(sessionFile, i, r)
  <2>1. r \in SessionRecord /\ now' \in 0 .. MaxNow
    BY <1>1, <1>3, AppSessionsAssumption DEF Upsert, SessionRecord
  <2>2. request = NoRequest /\ Replaces("upsert", new, {i})
        /\ UNCHANGED <<onDisk, told, unsure, sessionKills>>
    BY <1>3 DEF Upsert
  <2> HIDE DEF r
  <2>3. /\ new \in Tables /\ DOMAIN new = DOMAIN sessionFile \cup {i}
        /\ \A j \in DOMAIN sessionFile \ {i} : new[j] = sessionFile[j]
    BY <1>1, <2>1, WithTable
  <2>4. \A j \in SessionId \ {i} : SameIn(new, j)
    BY <2>3 DEF SameIn
  <2> HIDE DEF new
  <2> QED
    BY <2>1, <2>2, <2>3, <2>4, PrepareStep
<1>4. ASSUME NEW cutoff \in 1 .. MaxNow, Prune(cutoff) PROVE AppSessionsInv'
  <2> DEFINE gone == Stale(cutoff)
             new == Less(sessionFile, gone)
  <2>1. gone \subseteq DOMAIN sessionFile /\ \A i \in gone : sessionFile[i].status # "running"
    BY DEF Stale
  <2>2. /\ new \in Tables /\ DOMAIN new = DOMAIN sessionFile \ gone
        /\ \A j \in SessionId \ gone : SameIn(new, j)
    BY <1>1, LessTable DEF SameIn
  <2>3. request = NoRequest /\ Replaces("prune", new, gone)
        /\ UNCHANGED <<onDisk, told, unsure, now, sessionKills>>
    BY <1>4 DEF Prune
  <2> HIDE DEF gone, new
  <2> QED
    BY <1>1, <2>1, <2>2, <2>3, PrepareStep
<1> QED
  BY <1>2, <1>3, <1>4

\* The table is written beside the file and renamed, the caller is answered,
\* or the write fails or the agent is killed on the way.
LEMMA FileStep ==
  ASSUME AppSessionsInv,
         \/ CreateScratch \/ WriteScratch \/ RenameScratch
         \/ SessionWriteFails \/ SessionReply \/ SessionsKilled
  PROVE  AppSessionsInv'
<1> USE AppSessionsAssumption DEF AppSessionsInv, onDisk
<1>1. CASE CreateScratch
  <2>1. /\ request' = [request EXCEPT !.at = "write"] /\ request.at = "create" /\ scratch' = "part"
        /\ UNCHANGED <<sessionFile, told, unsure, now, sessionKills>>
    BY <1>1 DEF CreateScratch
  <2>2. AppSessionsTypeOK' /\ (request \in RequestType)'
    BY <2>1 DEF AppSessionsTypeOK, RequestType
  <2>3. RequestOwn' /\ ToldIsStored'
    BY <2>1 DEF RequestOwn, RequestType, BeforeRename, ToldIsStored, Agrees, SameIn
  <2> QED
    BY <2>2, <2>3
<1>2. CASE WriteScratch
  <2>1. /\ request' = [request EXCEPT !.at = "rename"] /\ request.at = "write" /\ scratch' = "whole"
        /\ UNCHANGED <<sessionFile, told, unsure, now, sessionKills>>
    BY <1>2 DEF WriteScratch
  <2>2. AppSessionsTypeOK' /\ (request \in RequestType)'
    BY <2>1 DEF AppSessionsTypeOK, RequestType
  <2>3. RequestOwn' /\ ToldIsStored'
    BY <2>1 DEF RequestOwn, RequestType, BeforeRename, ToldIsStored, Agrees, SameIn
  <2> QED
    BY <2>2, <2>3
<1>3. CASE RenameScratch
  <2>1. /\ request' = [request EXCEPT !.at = "reply"] /\ request.at = "rename" /\ scratch' = "none"
        /\ sessionFile' = request.table
        /\ UNCHANGED <<told, unsure, now, sessionKills>>
    BY <1>3 DEF RenameScratch
  <2>2. AppSessionsTypeOK' /\ (request \in RequestType)'
    BY <2>1 DEF AppSessionsTypeOK, RequestType
  <2>3. RequestOwn'
    BY <2>1 DEF RequestOwn, RequestType, BeforeRename
  <2>4. ToldIsStored'
    BY <2>1 DEF RequestOwn, RequestType, BeforeRename, ToldIsStored, Agrees, SameIn
  <2> QED
    BY <2>2, <2>3, <2>4
<1>4. CASE SessionWriteFails
  <2>1. /\ request' = NoRequest /\ BeforeRename /\ scratch' = "none"
        /\ UNCHANGED <<sessionFile, told, unsure, now, sessionKills>>
    BY <1>4 DEF SessionWriteFails, BeforeRename
  <2>2. AppSessionsTypeOK' /\ (request \in RequestType)'
    BY <2>1, EmptyTable DEF AppSessionsTypeOK, RequestType, NoRequest
  <2>3. RequestOwn' /\ ToldIsStored'
    BY <2>1 DEF RequestOwn, NoRequest, BeforeRename, ToldIsStored, Agrees
  <2> QED
    BY <2>2, <2>3
<1>5. CASE SessionReply
  <2> DEFINE known == (DOMAIN told \ request.ids) \cup (request.ids \cap DOMAIN sessionFile)
  <2>1. /\ request' = NoRequest /\ request.at = "reply" /\ unsure' = unsure \ request.ids
        /\ told' = [i \in known |-> IF i \in request.ids THEN sessionFile[i] ELSE told[i]]
        /\ UNCHANGED <<sessionFile, scratch, now, sessionKills>>
    BY <1>5 DEF SessionReply
  <2>2. told' \in Tables
    <3>1. /\ DOMAIN told \subseteq SessionId /\ told \in [DOMAIN told -> SessionRecord]
          /\ DOMAIN sessionFile \subseteq SessionId
          /\ sessionFile \in [DOMAIN sessionFile -> SessionRecord]
      BY TableType DEF AppSessionsTypeOK
    <3>2. told' \in [known -> SessionRecord] /\ DOMAIN told' = known /\ known \subseteq SessionId
      BY <2>1, <3>1
    <3> QED
      BY <3>2, TableType
  <2>3. AppSessionsTypeOK' /\ (request \in RequestType)'
    BY <2>1, <2>2, EmptyTable DEF AppSessionsTypeOK, RequestType, NoRequest
  <2>4. RequestOwn'
    BY <2>1 DEF RequestOwn, NoRequest, BeforeRename
  <2>5. ToldIsStored'
    BY <2>1 DEF NoRequest, ToldIsStored
  <2> QED
    BY <2>3, <2>4, <2>5
<1>6. CASE SessionsKilled
  <2>1. /\ request' = NoRequest /\ unsure' = unsure \cup request.ids /\ scratch' = "none"
        /\ sessionKills' \in 0 .. MaxSessionKills
        /\ UNCHANGED <<sessionFile, told, now>>
    BY <1>6 DEF SessionsKilled, AppSessionsTypeOK
  <2>2. AppSessionsTypeOK' /\ (request \in RequestType)'
    BY <2>1, EmptyTable DEF AppSessionsTypeOK, RequestType, NoRequest
  <2>3. RequestOwn' /\ ToldIsStored'
    BY <2>1 DEF RequestOwn, NoRequest, BeforeRename, ToldIsStored
  <2> QED
    BY <2>2, <2>3
<1> QED
  BY <1>1, <1>2, <1>3, <1>4, <1>5, <1>6

\* The sessions of an app keep the inductive invariant.
LEMMA AppSessionsInvariant == AppSessionsSpec => []AppSessionsInv
<1>1. AppSessionsInit => AppSessionsInv
  BY AppSessionsAssumption, EmptyTable
  DEF AppSessionsInit, AppSessionsInv, AppSessionsTypeOK, RequestType, RequestOwn, BeforeRename,
      ToldIsStored, NoRequest
<1>2. AppSessionsInv /\ [AppSessionsNext]_appSessionVars => AppSessionsInv'
  <2> SUFFICES ASSUME AppSessionsInv, [AppSessionsNext]_appSessionVars PROVE AppSessionsInv'
    OBVIOUS
  <2>1. CASE AppSessionsNext
    BY <2>1, OperationStep, FileStep DEF AppSessionsNext
  <2>2. CASE UNCHANGED appSessionVars
    BY <2>2
    DEF appSessionVars, AppSessionsInv, AppSessionsTypeOK, RequestOwn, BeforeRename, ToldIsStored,
        Agrees, SameIn
  <2> QED
    BY <2>1, <2>2
<1> QED
  BY <1>1, <1>2, PTL DEF AppSessionsSpec

\* What a tab was told of a session is what the file says of it, through failed
\* writes, other requests and kills (handleSessionsRPC, writeSessions).
THEOREM SessionsAsTold == AppSessionsSpec => []AppSessionsSafe
<1>1. AppSessionsInv => AppSessionsSafe
  BY DEF AppSessionsInv, AppSessionsSafe
<1> QED
  BY <1>1, AppSessionsInvariant, PTL

\* Pruning never takes a session that is live: only its own removal does
\* (pruneSessions).
THEOREM LiveSessionsKept == AppSessionsSpec => [][LiveKept]_appSessionVars
<1>1. AppSessionsInv /\ [AppSessionsNext]_appSessionVars => [LiveKept]_appSessionVars
  <2> SUFFICES ASSUME AppSessionsInv, AppSessionsNext PROVE LiveKept
    OBVIOUS
  <2>1. CASE RenameScratch
    BY <2>1 DEF RenameScratch, AppSessionsInv, RequestOwn, BeforeRename, LiveKept
  <2>2. CASE ~RenameScratch
    <3>1. sessionFile' = sessionFile
      BY <2>2
      DEF AppSessionsNext, Remove, Upsert, Prune, CreateScratch, WriteScratch, SessionWriteFails,
          SessionReply, SessionsKilled, onDisk
    <3> QED
      BY <3>1 DEF LiveKept
  <2> QED
    BY <2>1, <2>2
<1> QED
  BY <1>1, AppSessionsInvariant, PTL DEF AppSessionsSpec

-----------------------------------------------------------------------------
(* Publishing a local project *)

\* A publication is under way, and no other one has overlapped it.
Busy(p) == job[p].at # "idle"
Lone(p) == Busy(p) /\ p \notin beside
Attempted == {"account", "collect", "upload", "post"}

\* A file is as it was read; the files that a bump writes carry its version.
Undone(p, f) == f \notin job[p].touched => tree[f] = job[p].original[f]
Carry(p, files) == \A f \in Named : Writes(p, f) => files[f].version = job[p].version

\* Publications that overlap are marked, and for good.
OverlapMarked ==
  /\ \A p, q \in Publisher : p # q /\ Busy(p) /\ Busy(q) => p \in beside
  /\ beside # {} => repeats

\* The manifest has a version or is cut off, and the version to publish comes
\* from the one that was read.
ManifestVersioned ==
  /\ tree[Manifest] = CutFile \/ tree[Manifest].version >= 1
  /\ \A p \in Publisher : Busy(p) =>
       /\ job[p].original[Manifest].version >= 1
       /\ job[p].version = job[p].original[Manifest].version + (IF job[p].bump THEN 1 ELSE 0)

\* Of the files that were absent only version.json can appear.
AbsentKept(p) ==
  \A f \in Named \ {"version.json"} : job[p].original[f] = Absent => tree[f] = Absent

\* How far the writes of a bump have come, and what was sent.
Bumping(p) ==
  /\ job[p].at = "bump" =>
       /\ job[p].bump /\ job[p].writing <= 4
       /\ \A i \in 1 .. 4 : i < job[p].writing /\ Writes(p, Versioned[i]) =>
            tree[Versioned[i]].version = job[p].version
  /\ job[p].at \in Attempted => job[p].writing = 1
  /\ job[p].at \in Attempted \cup {"ok"} /\ job[p].bump => Carry(p, tree)
  /\ job[p].at \in {"upload", "post", "ok"} /\ job[p].bump => Carry(p, job[p].sent)
  /\ job[p].at = "ok" => revisions # <<>> /\ revisions[Len(revisions)] = job[p].version

\* How far the writes of a restore have come.
Restoring(p) ==
  /\ ~job[p].bump => /\ \A f \in Named : Undone(p, f)
                     /\ tree[Manifest].version = job[p].original[Manifest].version
  /\ job[p].at = "restore" /\ job[p].bump =>
       \A i \in 1 .. 4 : i < job[p].writing => Undone(p, Versioned[i])
  /\ job[p].at = "failed" => \A f \in Named : Undone(p, f)

JobOK(p) == AbsentKept(p) /\ Bumping(p) /\ Restoring(p)

\* Until a version may repeat, nothing newer than the project was published.
RevisionsBelow ==
  ~repeats => \A i \in DOMAIN revisions :
    /\ tree[Manifest] = CutFile \/ revisions[i] <= tree[Manifest].version
    /\ \A p \in Publisher :
         job[p].at \notin {"idle", "ok"} => revisions[i] <= job[p].original[Manifest].version

\* The inductive invariant of publications.
PublishInv ==
  /\ PublishTypeOK /\ OverlapMarked /\ ManifestVersioned /\ RevisionsBelow
  /\ \A p \in Publisher : Lone(p) => JobOK(p)

\* The names are the four files, each once.
LEMMA NamesDiffer ==
  /\ Named = {"app.json", "version.json", "package.json", "package-lock.json"}
  /\ \A i \in 1 .. 4 : Versioned[i] \in Named
  /\ \A f \in Named : \E i \in 1 .. 4 : f = Versioned[i]
  /\ \A i, j \in 1 .. 4 : Versioned[i] = Versioned[j] => i = j
  /\ Versioned[1] = Manifest /\ Manifest \in Named
  /\ Versioned[2] = "version.json" /\ "version.json" \in Named /\ Manifest # "version.json"
<1>1. /\ Versioned[1] = "app.json" /\ Versioned[2] = "version.json"
      /\ Versioned[3] = "package.json" /\ Versioned[4] = "package-lock.json"
  BY DEF Versioned, Manifest
<1>2. \A i \in 1 .. 4 : i = 1 \/ i = 2 \/ i = 3 \/ i = 4
  OBVIOUS
<1>3. Named = {"app.json", "version.json", "package.json", "package-lock.json"}
  BY <1>1, <1>2 DEF Named
<1> QED
  BY <1>1, <1>2, <1>3 DEF Manifest

\* An element of a sequence.
LEMMA Element ==
  ASSUME NEW S, NEW s \in Seq(S), NEW i \in DOMAIN s
  PROVE  s[i] \in S
OBVIOUS

\* The contents that files have.
LEMMA FileContents ==
  /\ Absent \in Bytes /\ CutFile \in Bytes /\ Absent # CutFile
  /\ Absent.version = 0 /\ CutFile.version = 0
  /\ \A b \in Bytes : b.version \in 0 .. MaxVersion /\ b.version \in Nat
BY PublishAssumption DEF Absent, CutFile, Bytes

\* What a job is made of.
LEMMA JobFields ==
  ASSUME NEW j \in Jobs
  PROVE  /\ j.original \in [Named -> Bytes] /\ j.sent \in [Named -> Bytes]
         /\ j.version \in 0 .. MaxVersion /\ j.version \in Nat /\ j.bump \in BOOLEAN
         /\ j.writing \in 1 .. 5 /\ j.touched \subseteq Named
         /\ \A f \in Named : j.original[f] \in Bytes /\ j.sent[f] \in Bytes
BY PublishAssumption DEF Jobs

\* A publication that has not begun.
LEMMA NoJobTyped == NoJob \in Jobs /\ NoJob.at = "idle"
<1>1. NoFiles \in [Named -> Bytes]
  BY FileContents DEF NoFiles
<1> QED
  BY <1>1, PublishAssumption DEF NoJob, Jobs

\* One publication's record is replaced.
LEMMA JobStep ==
  ASSUME PublishTypeOK, NEW a \in Publisher, NEW r \in Jobs, job' = [job EXCEPT ![a] = r]
  PROVE  /\ job' \in [Publisher -> Jobs] /\ job'[a] = r
         /\ \A q \in Publisher : q # a => job'[q] = job[q]
BY DEF PublishTypeOK

\* What failed writes leave.
LEMMA CutOffLeaves ==
  ASSUME PublishTypeOK, NEW S, CutOff(S)
  PROVE  /\ tree' \in [Named -> Bytes]
         /\ \A f \in Named : \/ tree'[f] = tree[f]
                             \/ tree'[f] = CutFile /\ \E p \in S : BeingWritten(p, f)
<1>1. PICK cut \in SUBSET {f \in Named : \E p \in S : BeingWritten(p, f)} :
        tree' = [f \in Named |-> IF f \in cut THEN CutFile ELSE tree[f]]
  BY DEF CutOff
<1> QED
  BY <1>1, FileContents DEF PublishTypeOK

\* What a write leaves; a publication that no other one overlaps writes what
\* it means to.
LEMMA PutLeaves ==
  ASSUME PublishTypeOK, OverlapMarked, NEW a \in Publisher, Busy(a), NEW f \in Named,
         NEW b \in Bytes, EndWrite(a, f, b)
  PROVE  /\ tree' \in [Named -> Bytes]
         /\ \A g \in Named : g # f => tree'[g] = tree[g]
         /\ tree'[f] \in {b, CutFile}
         /\ Lone(a) => tree'[f] = b
<1>1. CASE tree' = [tree EXCEPT ![f] = b]
  BY <1>1 DEF PublishTypeOK
<1>2. CASE /\ \E q \in Publisher \ {a} : BeingWritten(q, f)
           /\ tree' = [tree EXCEPT ![f] = CutFile]
  <2>1. PICK q \in Publisher \ {a} : BeingWritten(q, f)
    BY <1>2
  <2>2. Busy(q)
    BY <2>1 DEF BeingWritten, Busy
  <2>3. a \in beside
    BY <2>1, <2>2 DEF OverlapMarked
  <2> QED
    BY <1>2, <2>3, FileContents DEF PublishTypeOK, Lone
<1> QED
  BY <1>1, <1>2 DEF EndWrite

\* A step of one publication: the others that are under way have overlapped it.
LEMMA OthersOverlap ==
  ASSUME PublishInv, NEW a \in Publisher, Busy(a) \/ job'[a].at # "idle",
         \A q \in Publisher : q # a => job'[q] = job[q],
         \/ Busy(a) /\ beside \ {a} \subseteq beside'
         \/ Publishing \subseteq beside',
         JobOK(a)' \/ ~Lone(a)'
  PROVE  \A p \in Publisher : Lone(p)' => JobOK(p)'
<1> SUFFICES ASSUME NEW p \in Publisher, Lone(p)', p # a PROVE FALSE
  OBVIOUS
<1>1. Busy(p) /\ p \notin beside'
  BY DEF Lone, Busy
<1>2. p \in Publishing
  BY <1>1 DEF Publishing, Busy
<1>3. Busy(a) => p \in beside
  BY <1>1 DEF PublishInv, OverlapMarked
<1> QED
  BY <1>1, <1>2, <1>3

\* What a step that only moves a publication on leaves alone.
Staying(a) ==
  /\ job' \in [Publisher -> Jobs] /\ \A q \in Publisher : q # a => job'[q] = job[q]
  /\ job'[a].original = job[a].original /\ job'[a].version = job[a].version
  /\ job'[a].bump = job[a].bump

\* The places of a publication.
Places == {"idle", "bump", "account", "collect", "upload", "post", "restore", "ok", "failed",
           "unwritten"}

\* A publication goes on to another place, and may send its source or forget it.
LEMMA MovesOn ==
  ASSUME PublishTypeOK, NEW a \in Publisher, NEW x \in Places, NEW s \in [Named -> Bytes],
         \/ job' = [job EXCEPT ![a].at = x] /\ s = job[a].sent
         \/ job' = [job EXCEPT ![a].at = x, ![a].sent = s]
  PROVE  /\ Staying(a) /\ job'[a].at = x /\ job'[a].sent = s
         /\ job'[a].writing = job[a].writing /\ job'[a].touched = job[a].touched
<1>1. job[a] \in Jobs /\ job \in [Publisher -> Jobs]
  BY DEF PublishTypeOK
<1>2. CASE job' = [job EXCEPT ![a].at = x] /\ s = job[a].sent
  <2> DEFINE r == [job[a] EXCEPT !.at = x]
  <2>1. r \in Jobs /\ job' = [job EXCEPT ![a] = r]
    BY <1>1, <1>2 DEF Jobs, Places
  <2>2. /\ r.at = x /\ r.sent = s /\ r.original = job[a].original /\ r.version = job[a].version
        /\ r.bump = job[a].bump /\ r.writing = job[a].writing /\ r.touched = job[a].touched
    BY <1>1, <1>2 DEF Jobs
  <2> HIDE DEF r
  <2> QED
    BY <2>1, <2>2, JobStep DEF Staying
<1>3. CASE job' = [job EXCEPT ![a].at = x, ![a].sent = s]
  <2> DEFINE r == [job[a] EXCEPT !.at = x, !.sent = s]
  <2>1. r \in Jobs /\ job' = [job EXCEPT ![a] = r]
    BY <1>1, <1>3 DEF Jobs, Places
  <2>2. /\ r.at = x /\ r.sent = s /\ r.original = job[a].original /\ r.version = job[a].version
        /\ r.bump = job[a].bump /\ r.writing = job[a].writing /\ r.touched = job[a].touched
    BY <1>1 DEF Jobs
  <2> HIDE DEF r
  <2> QED
    BY <2>1, <2>2, JobStep DEF Staying
<1> QED
  BY <1>2, <1>3

\* The same without a source.
LEMMA GoesOn ==
  ASSUME PublishTypeOK, NEW a \in Publisher, NEW x \in Places, job' = [job EXCEPT ![a].at = x]
  PROVE  /\ Staying(a) /\ job'[a].at = x /\ job'[a].sent = job[a].sent
         /\ job'[a].writing = job[a].writing /\ job'[a].touched = job[a].touched
<1>1. job[a].sent \in [Named -> Bytes]
  BY JobFields DEF PublishTypeOK
<1> QED
  BY <1>1, MovesOn

\* What Writes depends on.
LEMMA WritesKept ==
  ASSUME NEW a, job'[a].original = job[a].original
  PROVE  \A f : Writes(a, f)' <=> Writes(a, f)
BY DEF Writes

\* The parts of the invariant that a step of one publication keeps, whatever it
\* does to its own job and to the tree.
LEMMA SharedKept ==
  ASSUME PublishInv, NEW a \in Publisher, Busy(a), job[a].at # "ok", Staying(a),
         beside' = beside, repeats => repeats',
         repeats' \in BOOLEAN,
         tree' \in [Named -> Bytes], revisions' \in Seq(1 .. MaxVersion),
         troubles' \in 0 .. MaxTroubles,
         tree'[Manifest] \in {tree[Manifest], CutFile, job[a].original[Manifest]}
           \/ tree'[Manifest].version = job[a].version,
         ~repeats' => revisions' = revisions
  PROVE  PublishTypeOK' /\ OverlapMarked' /\ ManifestVersioned' /\ RevisionsBelow'
<1>1. /\ PublishTypeOK /\ OverlapMarked /\ ManifestVersioned /\ RevisionsBelow
  BY DEF PublishInv
<1>2. PublishTypeOK'
  BY <1>1 DEF PublishTypeOK, Staying
<1>3. OverlapMarked'
  <2>1. ASSUME NEW p \in Publisher, Busy(p)' PROVE Busy(p)
    BY <2>1 DEF Busy, Staying
  <2>2. \A p, q \in Publisher : p # q /\ Busy(p)' /\ Busy(q)' => p \in beside'
    BY <1>1, <2>1 DEF OverlapMarked
  <2> QED
    BY <1>1, <2>2 DEF OverlapMarked
<1>4. /\ job[a].version \in Nat /\ job[a].original[Manifest].version \in Nat
      /\ job[a].original[Manifest].version >= 1
      /\ job[a].version >= job[a].original[Manifest].version
  <2>1. job[a] \in Jobs /\ Manifest \in Named
    BY <1>1, NamesDiffer DEF PublishTypeOK
  <2>2. job[a].version \in Nat /\ job[a].original[Manifest].version \in Nat
    BY <2>1, JobFields, FileContents
  <2> QED
    BY <1>1, <2>2 DEF ManifestVersioned
<1>5. ManifestVersioned'
  <2>1. tree'[Manifest] = CutFile \/ tree'[Manifest].version >= 1
    BY <1>1, <1>4 DEF ManifestVersioned
  <2>2. ASSUME NEW p \in Publisher, Busy(p)'
        PROVE  /\ job'[p].original[Manifest].version >= 1
               /\ job'[p].version = job'[p].original[Manifest].version
                                      + (IF job'[p].bump THEN 1 ELSE 0)
    <3>1. Busy(p) /\ job'[p].original = job[p].original /\ job'[p].version = job[p].version
          /\ job'[p].bump = job[p].bump
      BY <2>2 DEF Busy, Staying
    <3> QED
      BY <1>1, <3>1 DEF ManifestVersioned
  <2> QED
    BY <2>1, <2>2 DEF ManifestVersioned
<1>6. RevisionsBelow'
  <2> SUFFICES ASSUME ~repeats', NEW i \in DOMAIN revisions
               PROVE  /\ tree'[Manifest] = CutFile \/ revisions[i] <= tree'[Manifest].version
                      /\ \A p \in Publisher :
                           job'[p].at \notin {"idle", "ok"} =>
                             revisions[i] <= job'[p].original[Manifest].version
    BY DEF RevisionsBelow
  <2>1. revisions[i] \in Nat
    <3>1. revisions \in Seq(1 .. MaxVersion)
      BY <1>1 DEF PublishTypeOK
    <3>2. revisions[i] \in 1 .. MaxVersion
      BY <3>1, Element
    <3> QED
      BY <3>2
  <2>2. /\ tree[Manifest] = CutFile \/ revisions[i] <= tree[Manifest].version
        /\ \A p \in Publisher : job[p].at \notin {"idle", "ok"} =>
             revisions[i] <= job[p].original[Manifest].version
    BY <1>1 DEF RevisionsBelow
  <2>3. revisions[i] <= job[a].original[Manifest].version
    BY <2>2 DEF Busy
  <2>4. revisions[i] <= job[a].version
    BY <1>4, <2>1, <2>3
  <2>5. tree'[Manifest] = CutFile \/ revisions[i] <= tree'[Manifest].version
    BY <2>2, <2>3, <2>4
  <2>6. ASSUME NEW p \in Publisher, job'[p].at \notin {"idle", "ok"}
        PROVE  revisions[i] <= job'[p].original[Manifest].version
    <3>1. CASE p = a
      BY <2>3, <3>1 DEF Staying
    <3>2. CASE p # a
      BY <2>2, <2>6, <3>2 DEF Staying
    <3> QED
      BY <3>1, <3>2
  <2> QED
    BY <2>5, <2>6
<1> QED
  BY <1>2, <1>3, <1>5, <1>6

\* The account, the sources, an error on the way and the end of the restore.
LEMMA AttemptStep ==
  ASSUME PublishInv, NEW a \in Publisher,
         Account(a) \/ Collect(a) \/ Upload(a) \/ PublishFails(a) \/ Failed(a)
  PROVE  PublishInv'
<1>1. PublishTypeOK /\ OverlapMarked /\ (Lone(a) => JobOK(a))
  BY DEF PublishInv
<1>2. UNCHANGED <<tree, beside, repeats, revisions, troubles>>
  BY DEF Account, Collect, Upload, PublishFails, Failed, dynerVars
<1>3. /\ tree \in [Named -> Bytes] /\ job[a].sent \in [Named -> Bytes]
      /\ revisions \in Seq(1 .. MaxVersion) /\ troubles \in 0 .. MaxTroubles
      /\ repeats \in BOOLEAN
  BY <1>1, JobFields DEF PublishTypeOK
<1> DEFINE Moves(x, s) == /\ Staying(a) /\ job'[a].at = x /\ job'[a].sent = s
                          /\ job'[a].writing = job[a].writing /\ job'[a].touched = job[a].touched
<1>4. Account(a) => job[a].at = "account" /\ Moves("collect", job[a].sent)
  BY <1>1, GoesOn DEF Account, Places
<1>5. Collect(a) => job[a].at = "collect" /\ Moves("upload", tree)
  BY <1>1, <1>3, MovesOn DEF Collect, Places
<1>6. Upload(a) => job[a].at = "upload" /\ Moves("post", job[a].sent)
  BY <1>1, GoesOn DEF Upload, Places
<1>7. PublishFails(a) => job[a].at \in Attempted /\ Moves("restore", NoFiles)
  <2>1. NoFiles \in [Named -> Bytes]
    BY FileContents DEF NoFiles
  <2> QED
    BY <1>1, <2>1, MovesOn DEF PublishFails, Places, Attempted
<1>8. Failed(a) => /\ job[a].at = "restore" /\ (job[a].bump => job[a].writing = 5)
                   /\ Moves("failed", job[a].sent)
  BY <1>1, GoesOn DEF Failed, Places
<1>9. /\ job[a].at \in Attempted \cup {"restore"} /\ Staying(a)
      /\ job'[a].at \in Attempted \cup {"restore", "failed"}
      /\ job'[a].writing = job[a].writing /\ job'[a].touched = job[a].touched
      /\ job'[a].at \in Attempted => job[a].at \in Attempted
      /\ job'[a].at = "restore" => job[a].at \in Attempted
      /\ job'[a].at = "failed" => job[a].at = "restore" /\ (job[a].bump => job[a].writing = 5)
      /\ job'[a].at = "upload" => job'[a].sent = tree
      /\ job'[a].at = "post" => job[a].at = "upload" /\ job'[a].sent = job[a].sent
  BY <1>4, <1>5, <1>6, <1>7, <1>8 DEF Attempted
<1>10. Busy(a) /\ job[a].at # "ok"
  BY <1>9 DEF Busy, Attempted
<1>11. PublishTypeOK' /\ OverlapMarked' /\ ManifestVersioned' /\ RevisionsBelow'
  BY <1>2, <1>3, <1>9, <1>10, SharedKept
<1>12. ASSUME Lone(a)' PROVE JobOK(a)'
  <2>1. /\ AbsentKept(a) /\ Bumping(a) /\ Restoring(a)
    BY <1>1, <1>2, <1>10, <1>12 DEF Lone, JobOK
  <2>2. \A f : (Writes(a, f)' <=> Writes(a, f)) /\ (Undone(a, f)' <=> Undone(a, f))
    BY <1>2, <1>9, WritesKept DEF Undone, Staying
  <2>3. AbsentKept(a)'
    BY <1>2, <1>9, <2>1 DEF AbsentKept, Staying
  <2>4. Bumping(a)'
    <3>1. job[a].bump => Carry(a, tree)' \/ job'[a].at \in {"restore", "failed"}
      BY <1>2, <1>9, <2>1, <2>2 DEF Bumping, Carry, Staying
    <3>2. job[a].bump /\ job'[a].at \in {"upload", "post"} => Carry(a, job[a].sent)'
      BY <1>2, <1>9, <2>1, <2>2, <3>1 DEF Bumping, Carry, Staying, Attempted
    <3> QED
      BY <1>2, <1>9, <2>1, <3>1, <3>2 DEF Bumping, Staying, Attempted
  <2>5. Restoring(a)'
    <3>1. job[a].writing \in 1 .. 5 /\ \A i \in 1 .. 4 : ~(i < 1)
      BY <1>1, JobFields DEF PublishTypeOK
    <3>2. job'[a].at = "restore" => job[a].writing = 1
      BY <1>9, <2>1 DEF Bumping
    <3>3. job'[a].at = "failed" => \A f \in Named : Undone(a, f)
      <4>1. CASE job[a].bump
        BY <1>9, <2>1, <4>1, NamesDiffer DEF Restoring
      <4>2. CASE ~job[a].bump
        BY <1>9, <2>1, <4>2 DEF Restoring
      <4> QED
        BY <4>1, <4>2
    <3> QED
      BY <1>2, <1>9, <2>1, <2>2, <3>1, <3>2, <3>3 DEF Restoring, Staying
  <2> QED
    BY <2>3, <2>4, <2>5 DEF JobOK
<1>13. \A p \in Publisher : Lone(p)' => JobOK(p)'
  <2>1. \A q \in Publisher : q # a => job'[q] = job[q]
    BY <1>9 DEF Staying
  <2>2. beside \ {a} \subseteq beside'
    BY <1>2
  <2> QED
    BY <1>10, <1>12, <2>1, <2>2, OthersOverlap
<1> QED
  BY <1>11, <1>13 DEF PublishInv

\* The writes of a bump: a file gets its version, or the write fails.
LEMMA BumpStep ==
  ASSUME PublishInv, NEW a \in Publisher, BumpWrite(a)
  PROVE  PublishInv'
<1>1. PublishTypeOK /\ OverlapMarked /\ (Lone(a) => JobOK(a))
  BY DEF PublishInv
<1>2. job[a].at = "bump" /\ UNCHANGED <<beside, repeats, revisions>>
  BY DEF BumpWrite, dynerVars
<1>3. /\ Busy(a) /\ job[a].at # "ok" /\ job[a] \in Jobs /\ job[a].writing \in 1 .. 5
      /\ revisions \in Seq(1 .. MaxVersion) /\ repeats \in BOOLEAN
  BY <1>1, <1>2, JobFields DEF Busy, PublishTypeOK
<1>4. troubles' \in 0 .. MaxTroubles
  BY <1>1, PublishAssumption DEF BumpWrite, Trouble, PublishTypeOK
<1>5. \A q \in Publisher : Staying(a) /\ q # a => job'[q] = job[q]
  BY DEF Staying
<1>11. \A g \in Named \ {"version.json"} : Writes(a, g) => job[a].original[g] # Absent
  <2>1. job[a].original[Manifest] # Absent
    BY <1>3, FileContents DEF PublishInv, ManifestVersioned
  <2> QED
    BY <2>1 DEF Writes
<1> DEFINE f == Versioned[job[a].writing]
<1>6. ASSUME Staying(a),
             tree' \in [Named -> Bytes],
             tree'[Manifest] \in {tree[Manifest], CutFile}
               \/ tree'[Manifest].version = job[a].version,
             Lone(a) => JobOK(a)'
      PROVE  PublishInv'
  <2>1. PublishTypeOK' /\ OverlapMarked' /\ ManifestVersioned' /\ RevisionsBelow'
    BY <1>2, <1>3, <1>4, <1>6, SharedKept
  <2>2. Lone(a)' => JobOK(a)'
    BY <1>2, <1>3, <1>6 DEF Lone
  <2>3. \A p \in Publisher : Lone(p)' => JobOK(p)'
    <3>1. beside \ {a} \subseteq beside'
      BY <1>2
    <3> QED
      BY <1>3, <1>5, <1>6, <2>2, <3>1, OthersOverlap
  <2> QED
    BY <2>1, <2>3 DEF PublishInv
<1>7. CASE CutOff({a}) /\ Trouble /\ job' = [job EXCEPT ![a].at = "unwritten"]
  <2>1. Staying(a) /\ job'[a].at = "unwritten" /\ job'[a].touched = job[a].touched
    BY <1>1, <1>7, GoesOn DEF Places
  <2>2. /\ tree' \in [Named -> Bytes]
        /\ \A g \in Named : \/ tree'[g] = tree[g]
                            \/ tree'[g] = CutFile /\ BeingWritten(a, g)
    BY <1>1, <1>7, CutOffLeaves
  <2>3. \A g \in Named : BeingWritten(a, g) => Writes(a, g)
    BY <1>2 DEF BeingWritten
  <2>4. ASSUME Lone(a) PROVE JobOK(a)'
    <3>1. AbsentKept(a) /\ job[a].bump
      BY <1>1, <1>2, <2>4 DEF JobOK, Bumping
    <3>2. AbsentKept(a)'
      BY <1>11, <2>1, <2>2, <2>3, <3>1 DEF AbsentKept, Staying
    <3>3. Bumping(a)' /\ Restoring(a)'
      BY <2>1, <3>1 DEF Bumping, Restoring, Attempted, Staying
    <3> QED
      BY <3>2, <3>3 DEF JobOK
  <2> QED
    BY <1>6, <2>1, <2>2, <2>4, NamesDiffer
<1>8. CASE /\ IF Writes(a, f) THEN EndWrite(a, f, Bumped(a, f)) ELSE UNCHANGED tree
           /\ job' = [job EXCEPT ![a].writing = IF @ = 4 THEN 1 ELSE @ + 1,
                                 ![a].at = IF job[a].writing = 4 THEN "account" ELSE @]
  <2> DEFINE w == IF job[a].writing = 4 THEN 1 ELSE job[a].writing + 1
             x == IF job[a].writing = 4 THEN "account" ELSE "bump"
             r == [job[a] EXCEPT !.writing = w, !.at = x]
  <2>1. /\ job[a].writing \in 1 .. 4 /\ f \in Named
        /\ w \in 1 .. 5 /\ x \in {"account", "bump"} /\ (x = "account" <=> job[a].writing = 4)
    BY <1>3, NamesDiffer DEF BumpWrite
  <2>2. r \in Jobs /\ job' = [job EXCEPT ![a] = r]
    BY <1>2, <1>3, <1>8, <2>1 DEF Jobs, PublishTypeOK
  <2>3. /\ r.at = x /\ r.writing = w /\ r.original = job[a].original /\ r.bump = job[a].bump
        /\ r.version = job[a].version /\ r.touched = job[a].touched /\ r.sent = job[a].sent
    BY <1>3 DEF Jobs
  <2> HIDE DEF r
  <2>4. /\ Staying(a) /\ job'[a].at = x /\ job'[a].writing = w
        /\ job'[a].touched = job[a].touched
    BY <1>1, <2>2, <2>3, JobStep DEF Staying
  <2>5. /\ job[a].version \in 0 .. MaxVersion /\ job[a].original \in [Named -> Bytes]
    BY <1>3, JobFields
  <2>6. Bumped(a, f) \in Bytes /\ Bumped(a, f).version = job[a].version
    BY <2>1, <2>5 DEF Bumped, Bytes
  <2>7. /\ tree' \in [Named -> Bytes]
        /\ \A g \in Named : g # f => tree'[g] = tree[g]
        /\ tree'[f] \in {tree[f], CutFile} \/ tree'[f].version = job[a].version
        /\ Lone(a) => IF Writes(a, f) THEN tree'[f].version = job[a].version ELSE tree'[f] = tree[f]
    <3>1. CASE Writes(a, f)
      BY <1>1, <1>3, <1>8, <2>1, <2>6, <3>1, PutLeaves
    <3>2. CASE ~Writes(a, f)
      BY <1>1, <1>8, <2>1, <3>2 DEF PublishTypeOK
    <3> QED
      BY <3>1, <3>2
  <2> HIDE DEF f, w, x
  <2>8. tree'[Manifest] \in {tree[Manifest], CutFile} \/ tree'[Manifest].version = job[a].version
    BY <2>7, NamesDiffer
  <2>9. ASSUME Lone(a) PROVE JobOK(a)'
    <3>1. AbsentKept(a) /\ Bumping(a) /\ Restoring(a) /\ job[a].bump
      BY <1>1, <1>2, <2>9 DEF JobOK, Bumping
    <3>2. AbsentKept(a)'
      BY <1>11, <2>4, <2>7, <2>9, <3>1 DEF AbsentKept, Staying
    <3>3. ASSUME NEW i \in 1 .. 4, i <= job[a].writing, Writes(a, Versioned[i])
          PROVE  tree'[Versioned[i]].version = job[a].version
      <4>1. CASE i = job[a].writing
        BY <2>7, <2>9, <3>3, <4>1 DEF f
      <4>2. CASE i < job[a].writing
        BY <1>2, <2>1, <2>7, <3>1, <3>3, <4>2, NamesDiffer DEF Bumping, f
      <4> QED
        BY <2>1, <3>3, <4>1, <4>2
    <3>4. \A g : Writes(a, g)' <=> Writes(a, g)
      BY <2>4, WritesKept DEF Staying
    <3>5. CASE job[a].writing = 4
      <4>1. x = "account" /\ w = 1
        BY <3>5 DEF x, w
      <4>2. Carry(a, tree)'
        <5> SUFFICES ASSUME NEW g \in Named, Writes(a, g)
                     PROVE  tree'[g].version = job'[a].version
          BY <3>4 DEF Carry
        <5>1. PICK i \in 1 .. 4 : g = Versioned[i]
          BY NamesDiffer
        <5>2. i <= job[a].writing
          BY <3>5, <5>1
        <5> QED
          BY <2>4, <3>3, <5>1, <5>2 DEF Staying
      <4> QED
        BY <2>4, <3>1, <3>2, <4>1, <4>2 DEF JobOK, Bumping, Restoring, Attempted, Staying
    <3>6. CASE job[a].writing # 4
      <4>1. x = "bump" /\ w = job[a].writing + 1 /\ w <= 4
        BY <2>1, <3>6 DEF x, w
      <4>2. \A i \in 1 .. 4 : i < w => i <= job[a].writing
        BY <2>1, <4>1
      <4>3. Bumping(a)'
        BY <2>4, <3>1, <3>3, <3>4, <4>1, <4>2 DEF Bumping, Attempted, Staying
      <4> QED
        BY <2>4, <3>1, <3>2, <4>1, <4>3 DEF JobOK, Restoring, Staying
    <3> QED
      BY <3>5, <3>6
  <2> QED
    BY <1>6, <2>4, <2>7, <2>8, <2>9
<1> QED
  BY <1>7, <1>8 DEF BumpWrite

\* The writes of a restore: a file goes back, or its write fails in silence.
LEMMA RestoringStep ==
  ASSUME PublishInv, NEW a \in Publisher, Restore(a)
  PROVE  PublishInv'
<1>1. PublishTypeOK /\ OverlapMarked /\ (Lone(a) => JobOK(a))
  BY DEF PublishInv
<1>2. /\ job[a].at = "restore" /\ job[a].bump /\ job[a].writing <= 4
      /\ UNCHANGED <<beside, repeats, revisions>>
  BY DEF Restore, dynerVars
<1>3. /\ Busy(a) /\ job[a].at # "ok" /\ job[a] \in Jobs /\ job[a].writing \in 1 .. 4
      /\ revisions \in Seq(1 .. MaxVersion) /\ repeats \in BOOLEAN
      /\ job[a].original \in [Named -> Bytes]
  BY <1>1, <1>2, JobFields DEF Busy, PublishTypeOK
<1>4. troubles' \in 0 .. MaxTroubles
  BY <1>1, PublishAssumption DEF Restore, Trouble, PublishTypeOK
<1> DEFINE f == Versioned[job[a].writing]
           w == job[a].writing + 1
<1>5. f \in Named /\ job[a].original[f] \in Bytes /\ w \in 1 .. 5
  BY <1>3, NamesDiffer
<1>6. /\ tree' \in [Named -> Bytes]
      /\ \A g \in Named : g # f => tree'[g] = tree[g]
      /\ tree'[f] \in {tree[f], CutFile, job[a].original[f]}
      /\ Lone(a) => \/ tree'[f] = job[a].original[f]
                    \/ f \in job'[a].touched /\ (tree'[f] = tree[f] \/ job[a].original[f] # Absent)
      /\ job'[a].touched \in {job[a].touched, job[a].touched \cup {f}}
      /\ Staying(a) /\ job'[a].at = "restore" /\ job'[a].writing = w
  <2>1. CASE /\ IF f = "version.json" \/ job[a].original[f] # Absent
                  THEN EndWrite(a, f, job[a].original[f]) ELSE UNCHANGED tree
             /\ job' = [job EXCEPT ![a].writing = @ + 1]
    <3> DEFINE r == [job[a] EXCEPT !.writing = w]
    <3>1. r \in Jobs /\ job' = [job EXCEPT ![a] = r]
      BY <1>1, <1>3, <1>5, <2>1 DEF Jobs, PublishTypeOK
    <3>2. /\ r.at = job[a].at /\ r.writing = w /\ r.original = job[a].original
          /\ r.bump = job[a].bump /\ r.version = job[a].version /\ r.touched = job[a].touched
      BY <1>3 DEF Jobs
    <3> HIDE DEF r
    <3>3. /\ Staying(a) /\ job'[a].at = "restore" /\ job'[a].writing = w
          /\ job'[a].touched = job[a].touched
      BY <1>1, <1>2, <3>1, <3>2, JobStep DEF Staying
    <3>4. CASE f = "version.json" \/ job[a].original[f] # Absent
      BY <1>1, <1>3, <1>5, <2>1, <3>3, <3>4, PutLeaves
    <3>5. CASE f # "version.json" /\ job[a].original[f] = Absent
      <4>1. Lone(a) => tree[f] = job[a].original[f]
        BY <1>1, <1>5, <3>5 DEF JobOK, AbsentKept
      <4> QED
        BY <1>1, <2>1, <3>3, <3>5, <4>1 DEF PublishTypeOK
    <3> QED
      BY <3>4, <3>5
  <2>2. CASE /\ CutOff({a}) /\ Trouble
             /\ job' = [job EXCEPT ![a].writing = @ + 1, ![a].touched = @ \cup {f}]
    <3> DEFINE r == [job[a] EXCEPT !.writing = w, !.touched = job[a].touched \cup {f}]
    <3>1. r \in Jobs /\ job' = [job EXCEPT ![a] = r]
      BY <1>1, <1>3, <1>5, <2>2, JobFields DEF Jobs, PublishTypeOK
    <3>2. /\ r.at = job[a].at /\ r.writing = w /\ r.original = job[a].original
          /\ r.bump = job[a].bump /\ r.version = job[a].version
          /\ r.touched = job[a].touched \cup {f}
      BY <1>3 DEF Jobs
    <3> HIDE DEF r
    <3>3. /\ Staying(a) /\ job'[a].at = "restore" /\ job'[a].writing = w
          /\ job'[a].touched = job[a].touched \cup {f}
      BY <1>1, <1>2, <3>1, <3>2, JobStep DEF Staying
    <3>4. /\ tree' \in [Named -> Bytes]
          /\ \A g \in Named : \/ tree'[g] = tree[g]
                              \/ tree'[g] = CutFile /\ BeingWritten(a, g)
      BY <1>1, <2>2, CutOffLeaves
    <3>5. \A g : BeingWritten(a, g) => g = f /\ job[a].original[g] # Absent
      BY <1>2 DEF BeingWritten
    <3> QED
      BY <1>5, <3>3, <3>4, <3>5
  <2> QED
    BY <2>1, <2>2 DEF Restore
<1> HIDE DEF f
<1>7. tree'[Manifest] \in {tree[Manifest], CutFile, job[a].original[Manifest]}
  BY <1>6, NamesDiffer
<1>8. PublishTypeOK' /\ OverlapMarked' /\ ManifestVersioned' /\ RevisionsBelow'
  BY <1>2, <1>3, <1>4, <1>6, <1>7, SharedKept
<1>9. ASSUME Lone(a)' PROVE JobOK(a)'
  <2>1. Lone(a) /\ AbsentKept(a) /\ Bumping(a) /\ Restoring(a)
    BY <1>1, <1>2, <1>3, <1>9 DEF Lone, JobOK
  <2>2. AbsentKept(a)'
    BY <1>5, <1>6, <2>1 DEF AbsentKept, Staying
  <2>3. Bumping(a)'
    BY <1>2, <1>6, <2>1 DEF Bumping, Attempted, Staying
  <2>4. ASSUME NEW i \in 1 .. 4, i < w PROVE Undone(a, Versioned[i])'
    <3>1. CASE i = job[a].writing
      BY <1>6, <2>1, <3>1 DEF f, Undone, Staying
    <3>2. CASE i < job[a].writing
      <4>1. Versioned[i] # f /\ Versioned[i] \in Named
        BY <1>3, <3>2, NamesDiffer DEF f
      <4>2. Undone(a, Versioned[i])
        BY <1>2, <2>1, <3>2 DEF Restoring
      <4> QED
        BY <1>6, <4>1, <4>2 DEF Undone, Staying
    <3> QED
      BY <1>3, <2>4, <3>1, <3>2
  <2>5. Restoring(a)'
    BY <1>2, <1>6, <2>4 DEF Restoring, Staying
  <2> QED
    BY <2>2, <2>3, <2>5 DEF JobOK
<1>10. \A p \in Publisher : Lone(p)' => JobOK(p)'
  <2>1. \A q \in Publisher : q # a => job'[q] = job[q]
    BY <1>6 DEF Staying
  <2>2. beside \ {a} \subseteq beside'
    BY <1>2
  <2> QED
    BY <1>3, <1>9, <2>1, <2>2, OthersOverlap
<1> QED
  BY <1>8, <1>10 DEF PublishInv

\* A revision is newer than those before it: with a bump its version is above
\* the one that was read, and it is that of the manifest on disk.
LEMMA NewestRevision ==
  ASSUME PublishInv, NEW a \in Publisher, job[a].at = "post", ~repeats
  PROVE  /\ \A i \in DOMAIN revisions : /\ revisions[i] <= job[a].version
                                        /\ job[a].bump => revisions[i] < job[a].version
         /\ tree[Manifest].version = job[a].version
<1>1. PublishTypeOK /\ job[a] \in Jobs /\ Lone(a) /\ JobOK(a)
  BY DEF PublishInv, PublishTypeOK, OverlapMarked, Lone, Busy
<1>2. /\ job[a].version \in Nat /\ job[a].original[Manifest].version \in Nat
      /\ job[a].bump \in BOOLEAN
      /\ job[a].version = job[a].original[Manifest].version + (IF job[a].bump THEN 1 ELSE 0)
  <2>1. job[a].original[Manifest] \in Bytes /\ job[a].version \in Nat /\ job[a].bump \in BOOLEAN
    BY <1>1, JobFields, NamesDiffer
  <2>2. job[a].original[Manifest].version \in Nat
    BY <2>1, FileContents
  <2> QED
    BY <1>1, <2>1, <2>2 DEF PublishInv, ManifestVersioned, Lone
<1>3. ASSUME NEW i \in DOMAIN revisions
      PROVE  revisions[i] <= job[a].version /\ (job[a].bump => revisions[i] < job[a].version)
  <2>1. revisions[i] <= job[a].original[Manifest].version
    BY DEF PublishInv, RevisionsBelow
  <2>2. revisions \in Seq(1 .. MaxVersion)
    BY <1>1 DEF PublishTypeOK
  <2>3. revisions[i] \in 1 .. MaxVersion
    BY <2>2, Element
  <2> QED
    BY <1>2, <2>1, <2>3
<1>4. tree[Manifest].version = job[a].version
  <2>1. CASE job[a].bump
    BY <1>1, <2>1, NamesDiffer DEF JobOK, Bumping, Carry, Writes, Attempted
  <2>2. CASE ~job[a].bump
    BY <1>1, <1>2, <2>2 DEF JobOK, Restoring
  <2> QED
    BY <2>1, <2>2
<1> QED
  BY <1>3, <1>4

\* The post of a publication.
LEMMA PostStep ==
  ASSUME PublishInv, NEW a \in Publisher, Post(a)
  PROVE  PublishInv'
<1>1. /\ PublishTypeOK /\ OverlapMarked /\ ManifestVersioned /\ RevisionsBelow
      /\ (Lone(a) => JobOK(a))
  BY DEF PublishInv
<1>2. /\ job[a].at = "post" /\ job[a].version # 0 /\ revisions' = Append(revisions, job[a].version)
      /\ UNCHANGED <<tree, beside, troubles>>
  BY DEF Post
<1>3. job[a] \in Jobs /\ job[a].version \in 1 .. MaxVersion /\ Busy(a)
  BY <1>1, <1>2, JobFields DEF PublishTypeOK, Busy
<1>4. /\ Staying(a) /\ job'[a].writing = job[a].writing /\ job'[a].touched = job[a].touched
      /\ \/ job'[a].at = "ok" /\ job'[a].sent = job[a].sent /\ repeats' = repeats
         \/ job'[a].at = "restore" /\ repeats' = TRUE
  <2>1. CASE job' = [job EXCEPT ![a].at = "ok"] /\ UNCHANGED repeats
    BY <1>1, <2>1, GoesOn DEF Places
  <2>2. CASE job' = [job EXCEPT ![a].at = "restore", ![a].sent = NoFiles] /\ repeats' = TRUE
    <3>1. NoFiles \in [Named -> Bytes]
      BY FileContents DEF NoFiles
    <3> QED
      BY <1>1, <2>2, <3>1, MovesOn DEF Places
  <2> QED
    BY <2>1, <2>2 DEF Post
<1>5. /\ revisions' \in Seq(1 .. MaxVersion) /\ revisions' # <<>>
      /\ revisions'[Len(revisions')] = job[a].version
      /\ \A i \in DOMAIN revisions' : (i \in DOMAIN revisions /\ revisions'[i] = revisions[i])
                                      \/ revisions'[i] = job[a].version
  <2>1. revisions \in Seq(1 .. MaxVersion)
    BY <1>1 DEF PublishTypeOK
  <2> QED
    BY <1>2, <1>3, <2>1
<1>6. PublishTypeOK'
  <2>1. repeats' \in BOOLEAN
    BY <1>1, <1>4 DEF PublishTypeOK
  <2> QED
    BY <1>1, <1>2, <1>4, <1>5, <2>1 DEF PublishTypeOK, Staying
<1>7. \A p \in Publisher : Busy(p)' => /\ Busy(p) /\ job'[p].original = job[p].original
                                       /\ job'[p].version = job[p].version
                                       /\ job'[p].bump = job[p].bump
  BY <1>3, <1>4 DEF Busy, Staying
<1>8. OverlapMarked' /\ ManifestVersioned'
  <2>1. OverlapMarked'
    BY <1>1, <1>2, <1>4, <1>7 DEF OverlapMarked
  <2>2. ManifestVersioned'
    BY <1>1, <1>2, <1>7 DEF ManifestVersioned
  <2> QED
    BY <2>1, <2>2
<1>9. RevisionsBelow'
  <2> SUFFICES ASSUME ~repeats', NEW i \in DOMAIN revisions'
               PROVE  /\ tree[Manifest] = CutFile \/ revisions'[i] <= tree[Manifest].version
                      /\ \A p \in Publisher : job'[p].at \notin {"idle", "ok"} =>
                           revisions'[i] <= job'[p].original[Manifest].version
    BY <1>2 DEF RevisionsBelow
  <2>1. ~repeats /\ job'[a].at = "ok"
    BY <1>4
  <2>2. ASSUME NEW p \in Publisher, job'[p].at \notin {"idle", "ok"} PROVE FALSE
    <3>1. p # a /\ Busy(p)
      BY <1>7, <2>1, <2>2 DEF Busy
    <3> QED
      BY <1>1, <1>3, <2>1, <3>1 DEF OverlapMarked
  <2>3. tree[Manifest].version = job[a].version /\ job[a].version <= tree[Manifest].version
    BY <1>2, <1>3, <2>1, NewestRevision
  <2>4. i \in DOMAIN revisions => tree[Manifest] = CutFile \/ revisions[i] <= tree[Manifest].version
    BY <1>1, <2>1 DEF RevisionsBelow
  <2> QED
    BY <1>5, <2>2, <2>3, <2>4
<1>10. ASSUME Lone(a)' PROVE JobOK(a)'
  <2>1. AbsentKept(a) /\ Bumping(a) /\ Restoring(a)
    BY <1>1, <1>2, <1>3, <1>10 DEF Lone, JobOK
  <2>2. \A f : (Writes(a, f)' <=> Writes(a, f)) /\ (Undone(a, f)' <=> Undone(a, f))
    BY <1>2, <1>4, WritesKept DEF Undone, Staying
  <2>3. AbsentKept(a)'
    BY <1>2, <1>4, <2>1 DEF AbsentKept, Staying
  <2>4. Bumping(a)'
    <3>1. job[a].bump => Carry(a, tree)' /\ (job'[a].at = "ok" => Carry(a, job[a].sent)')
      BY <1>2, <1>4, <2>1, <2>2 DEF Bumping, Carry, Staying, Attempted
    <3> QED
      BY <1>2, <1>4, <1>5, <2>1, <3>1 DEF Bumping, Staying, Attempted
  <2>5. Restoring(a)'
    <3>1. job[a].writing = 1 /\ \A i \in 1 .. 4 : ~(i < 1)
      BY <1>2, <2>1 DEF Bumping, Attempted
    <3> QED
      BY <1>2, <1>4, <2>1, <2>2, <3>1 DEF Restoring, Staying
  <2> QED
    BY <2>3, <2>4, <2>5 DEF JobOK
<1>11. \A p \in Publisher : Lone(p)' => JobOK(p)'
  <2>1. \A q \in Publisher : q # a => job'[q] = job[q]
    BY <1>4 DEF Staying
  <2>2. beside \ {a} \subseteq beside'
    BY <1>2
  <2> QED
    BY <1>3, <1>10, <2>1, <2>2, OthersOverlap
<1> QED
  BY <1>6, <1>8, <1>9, <1>11 DEF PublishInv

\* Reading the project starts a publication.
LEMMA ReadStep ==
  ASSUME PublishInv, NEW a \in Publisher, Read(a)
  PROVE  PublishInv'
<1>1. /\ PublishTypeOK /\ OverlapMarked /\ ManifestVersioned /\ RevisionsBelow
  BY DEF PublishInv
<1>2. /\ job[a].at = "idle" /\ tree[Manifest] # CutFile /\ UNCHANGED <<tree, revisions>>
      /\ beside' = (IF Publishing = {} THEN {} ELSE Publishing \cup {a})
      /\ repeats' = (repeats \/ Publishing # {})
  BY DEF Read
<1> DEFINE current == tree[Manifest].version
<1>3. tree[Manifest] \in Bytes /\ current \in 0 .. MaxVersion /\ current \in Nat /\ current >= 1
  BY <1>1, <1>2, NamesDiffer, FileContents DEF PublishTypeOK, ManifestVersioned
<1>4. PICK asked \in BOOLEAN :
        /\ current < MaxVersion
        /\ job' = [job EXCEPT ![a] = [NoJob EXCEPT
             !.at = IF asked THEN "bump" ELSE "account", !.original = tree, !.bump = asked,
             !.version = IF asked THEN current + 1 ELSE current]]
  <2>1. (IF current # 0 THEN current ELSE tree["version.json"].version) = current
    BY <1>3
  <2> QED
    BY <2>1 DEF Read
<1> DEFINE v == IF asked THEN current + 1 ELSE current
           x == IF asked THEN "bump" ELSE "account"
           r == [NoJob EXCEPT !.at = x, !.original = tree, !.bump = asked, !.version = v]
<1>5. v \in 0 .. MaxVersion /\ v = current + (IF asked THEN 1 ELSE 0)
  BY <1>3, <1>4, PublishAssumption
<1> HIDE DEF current, v
<1>6. r \in Jobs /\ job' = [job EXCEPT ![a] = r]
  BY <1>1, <1>4, <1>5, NoJobTyped DEF Jobs, PublishTypeOK, v
<1>7. /\ r.at = x /\ r.original = tree /\ r.bump = asked /\ r.version = v
      /\ r.writing = 1 /\ r.touched = {} /\ x # "idle" /\ x \in {"bump", "account"}
      /\ (x = "bump" <=> asked)
  BY DEF NoJob
<1> HIDE DEF r, x
<1>8. /\ job' \in [Publisher -> Jobs] /\ job'[a] = r
      /\ \A q \in Publisher : q # a => job'[q] = job[q]
  BY <1>1, <1>6, JobStep
<1>9. \A p \in Publisher : Busy(p) <=> p \in Publishing
  BY DEF Busy, Publishing
<1>10. PublishTypeOK'
  <2>1. troubles' \in 0 .. MaxTroubles
    BY <1>1, PublishAssumption DEF Read, Trouble, PublishTypeOK
  <2>2. beside' \subseteq Publisher /\ repeats' \in BOOLEAN
    BY <1>1, <1>2 DEF Publishing, PublishTypeOK
  <2> QED
    BY <1>1, <1>2, <1>8, <2>1, <2>2 DEF PublishTypeOK
<1>11. OverlapMarked'
  <2>1. ASSUME NEW p \in Publisher, NEW q \in Publisher, p # q, Busy(p)', Busy(q)'
        PROVE  p \in beside'
    <3>1. p = a \/ p \in Publishing
      BY <1>8, <1>9, <2>1 DEF Busy
    <3>2. Publishing # {}
      BY <1>8, <1>9, <2>1 DEF Busy
    <3> QED
      BY <1>2, <3>1, <3>2
  <2> QED
    BY <1>2, <2>1 DEF OverlapMarked
<1>12. ManifestVersioned'
  <2>1. ASSUME NEW p \in Publisher, Busy(p)'
        PROVE  /\ job'[p].original[Manifest].version >= 1
               /\ job'[p].version = job'[p].original[Manifest].version
                                      + (IF job'[p].bump THEN 1 ELSE 0)
    <3>1. CASE p = a
      BY <1>3, <1>5, <1>7, <1>8, <3>1 DEF current
    <3>2. CASE p # a
      BY <1>1, <1>8, <2>1, <3>2 DEF ManifestVersioned, Busy
    <3> QED
      BY <3>1, <3>2
  <2> QED
    BY <1>1, <1>2, <2>1 DEF ManifestVersioned
<1>13. RevisionsBelow'
  <2> SUFFICES ASSUME ~repeats', NEW i \in DOMAIN revisions
               PROVE  /\ tree[Manifest] = CutFile \/ revisions[i] <= tree[Manifest].version
                      /\ \A p \in Publisher : job'[p].at \notin {"idle", "ok"} =>
                           revisions[i] <= job'[p].original[Manifest].version
    BY <1>2 DEF RevisionsBelow
  <2>1. ~repeats
    BY <1>2
  <2>2. revisions[i] <= tree[Manifest].version
    BY <1>1, <1>2, <2>1 DEF RevisionsBelow
  <2>3. ASSUME NEW p \in Publisher, job'[p].at \notin {"idle", "ok"}
        PROVE  revisions[i] <= job'[p].original[Manifest].version
    <3>1. CASE p = a
      BY <1>7, <1>8, <2>2, <3>1
    <3>2. CASE p # a
      BY <1>1, <1>8, <2>1, <2>3, <3>2 DEF RevisionsBelow
    <3> QED
      BY <3>1, <3>2
  <2> QED
    BY <2>2, <2>3
<1>14. JobOK(a)'
  <2>1. AbsentKept(a)'
    BY <1>2, <1>7, <1>8 DEF AbsentKept
  <2>2. Bumping(a)'
    <3>1. \A i \in 1 .. 4 : ~(i < 1)
      OBVIOUS
    <3> QED
      BY <1>7, <1>8, <3>1 DEF Bumping, Attempted
  <2>3. Restoring(a)'
    BY <1>2, <1>7, <1>8 DEF Restoring, Undone
  <2> QED
    BY <2>1, <2>2, <2>3 DEF JobOK
<1>15. \A p \in Publisher : Lone(p)' => JobOK(p)'
  <2>1. job'[a].at # "idle" /\ Publishing \subseteq beside'
    BY <1>2, <1>7, <1>8
  <2> QED
    BY <1>8, <1>14, <2>1, OthersOverlap
<1> QED
  BY <1>10, <1>11, <1>12, <1>13, <1>15 DEF PublishInv

\* The result of a publication goes to its caller.
LEMMA ReplyStep ==
  ASSUME PublishInv, NEW a \in Publisher, Reply(a)
  PROVE  PublishInv'
<1>1. /\ PublishTypeOK /\ OverlapMarked /\ ManifestVersioned /\ RevisionsBelow
  BY DEF PublishInv
<1>2. /\ Busy(a) /\ job' = [job EXCEPT ![a] = NoJob] /\ beside' = beside \ {a}
      /\ UNCHANGED <<tree, repeats, revisions, troubles>>
  BY DEF Reply, dynerVars, Busy
<1>3. /\ job' \in [Publisher -> Jobs] /\ job'[a].at = "idle"
      /\ \A q \in Publisher : q # a => job'[q] = job[q]
  BY <1>1, <1>2, NoJobTyped, JobStep
<1>4. \A p \in Publisher : Busy(p)' => Busy(p) /\ p # a /\ job'[p] = job[p]
  BY <1>3 DEF Busy
<1>5. PublishTypeOK'
  BY <1>1, <1>2, <1>3 DEF PublishTypeOK
<1>6. OverlapMarked'
  BY <1>1, <1>2, <1>4 DEF OverlapMarked
<1>7. ManifestVersioned'
  BY <1>1, <1>2, <1>4 DEF ManifestVersioned
<1>8. RevisionsBelow'
  BY <1>1, <1>2, <1>3 DEF RevisionsBelow
<1>9. \A p \in Publisher : Lone(p)' => JobOK(p)'
  <2>1. ~Lone(a)'
    BY <1>3 DEF Lone, Busy
  <2>2. beside \ {a} \subseteq beside'
    BY <1>2
  <2> QED
    BY <1>2, <1>3, <2>1, <2>2, OthersOverlap
<1> QED
  BY <1>5, <1>6, <1>7, <1>8, <1>9 DEF PublishInv

\* The agent is killed.
LEMMA KillStep == PublishInv /\ PublishKilled => PublishInv'
<1> SUFFICES ASSUME PublishInv, PublishKilled PROVE PublishInv'
  OBVIOUS
<1>1. /\ PublishTypeOK /\ OverlapMarked /\ ManifestVersioned /\ RevisionsBelow
  BY DEF PublishInv
<1>2. /\ CutOff(Publisher) /\ job' = [p \in Publisher |-> NoJob] /\ beside' = {}
      /\ UNCHANGED <<repeats, revisions>>
  BY DEF PublishKilled, dynerVars
<1>3. /\ tree' \in [Named -> Bytes]
      /\ \A f \in Named : tree'[f] \in {tree[f], CutFile}
  BY <1>1, <1>2, CutOffLeaves
<1>4. job' \in [Publisher -> Jobs] /\ \A p \in Publisher : job'[p].at = "idle"
  BY <1>2, NoJobTyped
<1>5. PublishTypeOK'
  <2>1. troubles' \in 0 .. MaxTroubles
    BY <1>1, PublishAssumption DEF PublishKilled, Trouble, PublishTypeOK
  <2> QED
    BY <1>1, <1>2, <1>3, <1>4, <2>1 DEF PublishTypeOK
<1>6. tree'[Manifest] \in {tree[Manifest], CutFile}
  BY <1>3, NamesDiffer
<1>7. OverlapMarked' /\ ManifestVersioned'
  BY <1>1, <1>2, <1>4, <1>6 DEF OverlapMarked, ManifestVersioned, Busy
<1>8. RevisionsBelow'
  BY <1>1, <1>2, <1>4, <1>6 DEF RevisionsBelow
<1>9. \A p \in Publisher : Lone(p)' => JobOK(p)'
  BY <1>4 DEF Lone, Busy
<1> QED
  BY <1>5, <1>7, <1>8, <1>9 DEF PublishInv

\* The user edits a file.
LEMMA EditStep == PublishInv /\ UserEdits => PublishInv'
<1> SUFFICES ASSUME PublishInv, UserEdits PROVE PublishInv'
  OBVIOUS
<1>1. /\ PublishTypeOK /\ OverlapMarked /\ ManifestVersioned /\ RevisionsBelow
  BY DEF PublishInv
<1>2. PICK f \in Named :
        /\ tree[f] \notin {Absent, CutFile} /\ tree' = [tree EXCEPT ![f].text = troubles + 1]
        /\ job' = [p \in Publisher |-> IF job[p].at = "idle" THEN job[p]
                                       ELSE [job[p] EXCEPT !.touched = @ \cup {f}]]
  BY DEF UserEdits
<1>3. /\ Trouble /\ UNCHANGED <<beside, repeats, revisions>>
  BY DEF UserEdits, dynerVars
<1>4. /\ troubles \in 0 .. MaxTroubles /\ troubles + 1 \in 0 .. MaxTroubles
      /\ troubles' \in 0 .. MaxTroubles
  BY <1>1, <1>3, PublishAssumption DEF PublishTypeOK, Trouble
<1>5. /\ tree' \in [Named -> Bytes]
      /\ \A g \in Named : tree'[g].version = tree[g].version
      /\ \A g \in Named : g # f => tree'[g] = tree[g]
  <2> DEFINE b == [tree[f] EXCEPT !.text = troubles + 1]
  <2>1. tree \in [Named -> Bytes] /\ tree[f] \in Bytes
    BY <1>1 DEF PublishTypeOK
  <2>2. troubles + 1 \in 0 .. MaxTroubles + 1
    BY <1>4, PublishAssumption
  <2>3. b \in Bytes /\ b.version = tree[f].version
    BY <2>1, <2>2 DEF Bytes
  <2>4. tree' = [tree EXCEPT ![f] = b]
    BY <1>2, <2>1
  <2> HIDE DEF b
  <2> QED
    BY <2>1, <2>3, <2>4
<1>6. ASSUME NEW p \in Publisher
      PROVE  /\ job'[p] \in Jobs /\ job'[p].at = job[p].at /\ job'[p].original = job[p].original
             /\ job'[p].version = job[p].version /\ job'[p].bump = job[p].bump
             /\ job'[p].writing = job[p].writing /\ job'[p].sent = job[p].sent
             /\ job[p].at # "idle" => job'[p].touched = job[p].touched \cup {f}
  <2>1. job[p] \in Jobs
    BY <1>1 DEF PublishTypeOK
  <2> DEFINE r == [job[p] EXCEPT !.touched = job[p].touched \cup {f}]
  <2>2. r \in Jobs
    BY <1>2, <2>1, JobFields DEF Jobs
  <2>3. /\ r.at = job[p].at /\ r.original = job[p].original /\ r.version = job[p].version
        /\ r.bump = job[p].bump /\ r.writing = job[p].writing /\ r.sent = job[p].sent
        /\ r.touched = job[p].touched \cup {f}
    BY <2>1 DEF Jobs
  <2>4. job'[p] = IF job[p].at = "idle" THEN job[p] ELSE r
    BY <1>2
  <2> HIDE DEF r
  <2> QED
    BY <2>1, <2>2, <2>3, <2>4
<1>7. PublishTypeOK'
  <2>1. job' \in [Publisher -> Jobs]
    BY <1>2, <1>6
  <2> QED
    BY <1>1, <1>3, <1>4, <1>5, <2>1 DEF PublishTypeOK
<1>8. \A p \in Publisher : Busy(p)' <=> Busy(p)
  BY <1>6 DEF Busy
<1>9. OverlapMarked'
  BY <1>1, <1>3, <1>8 DEF OverlapMarked
<1>10. (tree[Manifest] = CutFile => tree'[Manifest] = CutFile)
       /\ tree'[Manifest].version = tree[Manifest].version
  BY <1>2, <1>5, NamesDiffer
<1>11. ManifestVersioned'
  BY <1>1, <1>6, <1>8, <1>10 DEF ManifestVersioned
<1>12. RevisionsBelow'
  BY <1>1, <1>3, <1>6, <1>10 DEF RevisionsBelow
<1>13. ASSUME NEW p \in Publisher, Lone(p)' PROVE JobOK(p)'
  <2>1. Lone(p) /\ AbsentKept(p) /\ Bumping(p) /\ Restoring(p)
    BY <1>3, <1>8, <1>13 DEF Lone, PublishInv, JobOK
  <2>2. job'[p].touched = job[p].touched \cup {f}
    BY <1>6, <2>1 DEF Lone, Busy
  <2>3. \A g : Writes(p, g)' <=> Writes(p, g)
    BY <1>6, WritesKept
  <2>4. \A g \in Named : Undone(p, g) => Undone(p, g)'
    BY <1>5, <1>6, <2>2 DEF Undone
  <2>5. AbsentKept(p)'
    BY <1>2, <1>5, <1>6, <2>1 DEF AbsentKept
  <2>6. Bumping(p)'
    <3>1. \A i \in 1 .. 4 : tree'[Versioned[i]].version = tree[Versioned[i]].version
      BY <1>5, NamesDiffer
    <3>2. Carry(p, tree) => Carry(p, tree)'
      BY <1>5, <1>6, <2>3 DEF Carry
    <3>3. Carry(p, job[p].sent) => Carry(p, job[p].sent)'
      BY <1>6, <2>3 DEF Carry
    <3> QED
      BY <1>3, <1>6, <2>1, <2>3, <3>1, <3>2, <3>3 DEF Bumping
  <2>7. Restoring(p)'
    BY <1>6, <1>10, <2>1, <2>4, NamesDiffer DEF Restoring
  <2> QED
    BY <2>5, <2>6, <2>7 DEF JobOK
<1> QED
  BY <1>7, <1>9, <1>11, <1>12, <1>13 DEF PublishInv

\* The initial states have the invariant.
LEMMA PublishStart == PublishInit => PublishInv
<1> SUFFICES ASSUME PublishInit PROVE PublishInv
  OBVIOUS
<1>1. /\ tree \in [Named -> {Absent, [version |-> 1, text |-> 0]}] /\ tree[Manifest] # Absent
      /\ job = [p \in Publisher |-> NoJob] /\ beside = {} /\ repeats = FALSE
      /\ revisions = <<>> /\ troubles = 0
  BY DEF PublishInit
<1>2. [version |-> 1, text |-> 0] \in Bytes
  BY PublishAssumption DEF Bytes
<1>3. \A p \in Publisher : job[p].at = "idle"
  BY <1>1, NoJobTyped
<1>4. PublishTypeOK
  <2>1. tree \in [Named -> Bytes] /\ job \in [Publisher -> Jobs]
    BY <1>1, <1>2, FileContents, NoJobTyped
  <2>2. repeats \in BOOLEAN
    BY <1>1, Zenon
  <2> QED
    BY <1>1, <2>1, <2>2, PublishAssumption DEF PublishTypeOK
<1>5. tree[Manifest].version >= 1
  BY <1>1, NamesDiffer
<1>6. /\ OverlapMarked /\ ManifestVersioned /\ RevisionsBelow
      /\ \A p \in Publisher : Lone(p) => JobOK(p)
  BY <1>1, <1>3, <1>5 DEF OverlapMarked, ManifestVersioned, RevisionsBelow, Lone, Busy
<1> QED
  BY <1>4, <1>6 DEF PublishInv

\* Every step keeps the invariant.
LEMMA PublishStep == PublishInv /\ [PublishNext]_publishVars => PublishInv'
<1>1. ASSUME PublishInv, UNCHANGED publishVars
      PROVE  PublishInv'
  <2>1. UNCHANGED <<tree, job, beside, repeats, revisions, troubles>>
    BY <1>1 DEF publishVars
  <2>2. PublishTypeOK' /\ OverlapMarked' /\ ManifestVersioned' /\ RevisionsBelow'
    BY <1>1, <2>1 DEF PublishInv, PublishTypeOK, OverlapMarked, ManifestVersioned, RevisionsBelow,
                      Busy
  <2>3. \A p \in Publisher : Lone(p)' => JobOK(p)'
    <3>1. \A p \in Publisher : Lone(p)' => Lone(p)
      BY <2>1 DEF Lone, Busy
    <3>2. \A p \in Publisher : JobOK(p) => JobOK(p)'
      BY <2>1 DEF JobOK, AbsentKept, Bumping, Restoring, Undone, Carry, Writes
    <3> QED
      BY <1>1, <3>1, <3>2 DEF PublishInv
  <2> QED
    BY <2>2, <2>3 DEF PublishInv
<1> QED
  BY <1>1, ReadStep, BumpStep, AttemptStep, PostStep, RestoringStep, ReplyStep, EditStep, KillStep
     DEF PublishNext

\* The invariant says what the run checks.
LEMMA PublishIsSafe == PublishInv => PublishSafe
<1> SUFFICES ASSUME PublishInv PROVE PublishSafe
  OBVIOUS
<1>1. ASSUME NEW p \in Publisher \ beside, job[p].at # "idle"
      PROVE  Bumping(p) /\ Restoring(p)
  BY <1>1 DEF PublishInv, Lone, Busy, JobOK
<1>2. FailureRestores
  BY <1>1 DEF FailureRestores, Restoring, Undone
<1>3. PublishedVersionOnDisk
  BY <1>1 DEF PublishedVersionOnDisk, Bumping, Carry
<1> QED
  BY <1>2, <1>3 DEF PublishSafe, PublishInv

\* A failed publication that no other one overlapped leaves what it found, but
\* for the user's edits and the files on which its restore failed, and after
\* one that succeeded the files on disk and the uploaded source carry the
\* version that Dyner accepted (publishAppProject and its deferred restore).
THEOREM FilesAsPublished == PublishSpec => []PublishSafe
<1> QED
  BY PublishStart, PublishStep, PublishIsSafe, PTL DEF PublishSpec

\* With bumps, no version is published twice unless Dyner's answer was lost or
\* two publications have overlapped: whatever kills and failed restores leave,
\* the project knows every version that was accepted (publishAppProject).
THEOREM VersionsGrow == PublishSpec => [][NoVersionTwice]_publishVars
<1>1. ASSUME PublishInv
      PROVE  NoVersionTwice
  BY <1>1, NewestRevision DEF NoVersionTwice
<1> QED
  BY <1>1, PublishStart, PublishStep, PTL DEF PublishSpec

-----------------------------------------------------------------------------
(* SSH host keys *)

Creates(v) == verify[v].at \in {"create", "write", "rename"}

\* Until two first connections have overlapped, what was accepted is pinned in
\* known-hosts.json; the file has finitely many pins, which is what tells the
\* lengths of two texts apart.
AcceptedPinned ==
  /\ IsFiniteSet(DOMAIN knownHosts)
  /\ \A p \in accepted : p[1] \in DOMAIN knownHosts /\ knownHosts[p[1]] = p[2]

\* One connection at most is adding a pin, to the file as it is, and the
\* temporary file is its own.
OneCreates ==
  /\ \A v, w \in Verifier : Creates(v) /\ Creates(w) => v = w
  /\ \A v \in Verifier : Creates(v) =>
       /\ verify[v].host \notin DOMAIN knownHosts
       /\ verify[v].pins = Pinned(knownHosts, verify[v].host, verify[v].key)
       /\ verify[v].at = "write" => verify[v].fd = "temporary" /\ temporary.pins = NoPins
       /\ verify[v].at = "rename" => temporary.pins = verify[v].pins

\* The inductive invariant of the host keys.
HostKeysInv ==
  /\ HostKeysTypeOK
  /\ ~overlapped => AcceptedPinned /\ OneCreates

\* Pins, with one more of them.
LEMMA NoPinsTyped == NoPins \in Pins /\ DOMAIN NoPins = {}
<1>1. NoPins \in [{} -> HostKey]
  BY DEF NoPins
<1> QED
  BY <1>1 DEF Pins

\* Pins with one more host are pins, and the others stay.
LEMMA PinnedTyped ==
  ASSUME NEW pins \in Pins, NEW h \in SshHost, NEW k \in HostKey
  PROVE  /\ Pinned(pins, h, k) \in Pins /\ DOMAIN Pinned(pins, h, k) = DOMAIN pins \cup {h}
         /\ Pinned(pins, h, k)[h] = k
         /\ \A g \in DOMAIN pins : g # h => Pinned(pins, h, k)[g] = pins[g]
<1>1. PICK S \in SUBSET SshHost : pins \in [S -> HostKey]
  BY DEF Pins
<1>2. S \cup {h} \in SUBSET SshHost /\ Pinned(pins, h, k) \in [S \cup {h} -> HostKey]
  BY <1>1 DEF Pinned
<1>3. Pinned(pins, h, k) \in Pins
  BY <1>2 DEF Pins
<1> QED
  BY <1>1, <1>3 DEF Pinned

\* A verification moves: its record stays typed.
LEMMA VerifyMoves ==
  ASSUME HostKeysTypeOK, NEW v \in Verifier, NEW r \in {Unverified} \cup Verification,
         SetVerify(v, r)
  PROVE  /\ verify' \in [Verifier -> {Unverified} \cup Verification]
         /\ verify'[v] = r /\ \A w \in Verifier : w # v => verify'[w] = verify[w]
BY DEF HostKeysTypeOK, SetVerify

\* A connection that verifies has read pins and has a key.
LEMMA Verifying ==
  ASSUME HostKeysTypeOK, NEW v \in Verifier, verify[v].at # "idle"
  PROVE  verify[v] \in Verification
BY DEF HostKeysTypeOK, Unverified

\* A connection that rests writes nothing.
LEMMA IdleCreatesNot == ~(Unverified.at \in {"create", "write", "rename"})
BY DEF Unverified

\* Open: a connection that reads does not create.
LEMMA OpenStep ==
  ASSUME HostKeysInv, NEW v \in Verifier, NEW h \in SshHost, NEW k \in HostKey, Open(v, h, k)
  PROVE  HostKeysInv'
<1> DEFINE r == [at |-> "read", host |-> h, key |-> k, pins |-> NoPins, fd |-> "none"]
<1>1. /\ opens < MaxOpens /\ opens' = opens + 1 /\ SetVerify(v, r)
      /\ UNCHANGED <<knownHosts, temporary, accepted, overlapped, hostCrashes>>
  BY DEF Open, fileVars
<1>2. HostKeysTypeOK
  BY DEF HostKeysInv
<1>3. r \in Verification /\ ~(r.at \in {"create", "write", "rename"})
  BY NoPinsTyped DEF Verification
<1> HIDE DEF r
<1>4. /\ verify' \in [Verifier -> {Unverified} \cup Verification]
      /\ verify'[v] = r /\ \A w \in Verifier : w # v => verify'[w] = verify[w]
  BY <1>1, <1>2, <1>3, VerifyMoves
<1>5. HostKeysTypeOK'
  BY <1>1, <1>2, <1>4, HostKeysAssumption DEF HostKeysTypeOK
<1>6. AcceptedPinned => AcceptedPinned'
  BY <1>1 DEF AcceptedPinned
<1>7. OneCreates => OneCreates'
  BY <1>1, <1>3, <1>4 DEF OneCreates, Creates
<1> QED
  BY <1>1, <1>5, <1>6, <1>7 DEF HostKeysInv

\* The connection gives up: nobody creates who did not before.
LEMMA FailStep ==
  ASSUME HostKeysInv, NEW v \in Verifier, VerifyFails(v)
  PROVE  HostKeysInv'
<1>1. /\ SetVerify(v, Unverified)
      /\ UNCHANGED <<knownHosts, temporary, accepted, overlapped, opens, hostCrashes>>
  BY DEF VerifyFails, fileVars
<1>2. HostKeysTypeOK
  BY DEF HostKeysInv
<1>3. /\ verify' \in [Verifier -> {Unverified} \cup Verification]
      /\ verify'[v] = Unverified /\ \A w \in Verifier : w # v => verify'[w] = verify[w]
  BY <1>1, <1>2, VerifyMoves
<1>4. HostKeysTypeOK'
  BY <1>1, <1>2, <1>3 DEF HostKeysTypeOK
<1>5. AcceptedPinned => AcceptedPinned'
  BY <1>1 DEF AcceptedPinned
<1>6. OneCreates => OneCreates'
  BY <1>1, <1>3, IdleCreatesNot DEF OneCreates, Creates
<1> QED
  BY <1>1, <1>4, <1>5, <1>6 DEF HostKeysInv

\* The agent is killed.
LEMMA KilledStep == HostKeysInv /\ AgentKilled => HostKeysInv'
<1> SUFFICES ASSUME HostKeysInv, AgentKilled
             PROVE  HostKeysInv'
  OBVIOUS
<1>1. /\ verify' = [v \in Verifier |-> Unverified] /\ hostCrashes < MaxHostCrashes
      /\ hostCrashes' = hostCrashes + 1
      /\ UNCHANGED <<knownHosts, temporary, accepted, overlapped, opens>>
  BY DEF AgentKilled, fileVars
<1>2. HostKeysTypeOK'
  BY <1>1, HostKeysAssumption DEF HostKeysInv, HostKeysTypeOK
<1>3. AcceptedPinned => AcceptedPinned'
  BY <1>1 DEF AcceptedPinned
<1>4. OneCreates'
  BY <1>1, IdleCreatesNot DEF OneCreates, Creates
<1> QED
  BY <1>1, <1>2, <1>3, <1>4 DEF HostKeysInv

\* Read and compare: who adds a pin while another one does has overlapped.
LEMMA ReadsStep ==
  ASSUME HostKeysInv, NEW v \in Verifier, Reads(v)
  PROVE  HostKeysInv'
<1> DEFINE h == verify[v].host
           k == verify[v].key
           r == [verify[v] EXCEPT !.at = "create", !.pins = Pinned(knownHosts, h, k)]
<1>1. HostKeysTypeOK /\ verify[v].at = "read" /\ UNCHANGED <<knownHosts, temporary, opens, hostCrashes>>
  BY DEF HostKeysInv, Reads, fileVars
<1>2. verify[v] \in Verification /\ h \in SshHost /\ k \in HostKey
  BY <1>1, Verifying DEF Verification
<1>3. CASE h \in DOMAIN knownHosts
  <2>1. /\ SetVerify(v, Unverified) /\ overlapped' = overlapped
        /\ accepted' = IF knownHosts[h] = k THEN accepted \cup {<<h, k>>} ELSE accepted
    BY <1>3 DEF Reads
  <2>2. /\ verify' \in [Verifier -> {Unverified} \cup Verification]
        /\ verify'[v] = Unverified /\ \A w \in Verifier : w # v => verify'[w] = verify[w]
    BY <1>1, <2>1, VerifyMoves
  <2>3. HostKeysTypeOK'
    <3>1. accepted' \subseteq SshHost \X HostKey
      BY <1>1, <1>2, <2>1 DEF HostKeysTypeOK
    <3> QED
      BY <1>1, <2>1, <2>2, <3>1 DEF HostKeysTypeOK
  <2>4. AcceptedPinned => AcceptedPinned'
    BY <1>1, <1>3, <2>1 DEF AcceptedPinned
  <2>5. OneCreates => OneCreates'
    BY <1>1, <2>1, <2>2, IdleCreatesNot DEF OneCreates, Creates
  <2> QED
    BY <2>1, <2>3, <2>4, <2>5 DEF HostKeysInv
<1>4. CASE h \notin DOMAIN knownHosts
  <2>1. /\ SetVerify(v, r) /\ accepted' = accepted /\ overlapped' = (overlapped \/ Creating)
    BY <1>4 DEF Reads
  <2>2. Pinned(knownHosts, h, k) \in Pins
    BY <1>1, <1>2, PinnedTyped DEF HostKeysTypeOK
  <2>3. /\ r \in Verification /\ r.at = "create" /\ r.host = h /\ r.key = k
        /\ r.pins = Pinned(knownHosts, h, k)
    BY <1>2, <2>2 DEF Verification
  <2> HIDE DEF r
  <2>4. /\ verify' \in [Verifier -> {Unverified} \cup Verification]
        /\ verify'[v] = r /\ \A w \in Verifier : w # v => verify'[w] = verify[w]
    BY <1>1, <2>1, <2>3, VerifyMoves
  <2>5. overlapped' \in BOOLEAN
    BY <1>1, <2>1, Zenon DEF HostKeysTypeOK
  <2>6. HostKeysTypeOK'
    BY <1>1, <2>1, <2>4, <2>5 DEF HostKeysTypeOK
  <2>7. ASSUME ~overlapped' PROVE AcceptedPinned' /\ OneCreates'
    <3>1. ~overlapped /\ ~Creating
      BY <2>1, <2>7
    <3>2. AcceptedPinned'
      BY <1>1, <2>1, <3>1 DEF HostKeysInv, AcceptedPinned
    <3>3. \A w \in Verifier : w # v => ~Creates(w)'
      BY <2>4, <3>1 DEF Creating, Creates
    <3>4. OneCreates'
      BY <1>1, <1>4, <2>3, <2>4, <3>3 DEF OneCreates
    <3> QED
      BY <3>2, <3>4
  <2> QED
    BY <2>6, <2>7 DEF HostKeysInv
<1> QED
  BY <1>3, <1>4

\* The temporary file is created or truncated.
LEMMA CreateStep ==
  ASSUME HostKeysInv, NEW v \in Verifier, CreateTemporary(v)
  PROVE  HostKeysInv'
<1> DEFINE r == [verify[v] EXCEPT !.at = "write", !.fd = "temporary"]
<1>1. /\ HostKeysTypeOK /\ verify[v].at = "create" /\ SetVerify(v, r)
      /\ temporary' = [there |-> TRUE, pins |-> NoPins]
      /\ UNCHANGED <<knownHosts, accepted, overlapped, opens, hostCrashes>>
  BY DEF HostKeysInv, CreateTemporary
<1>2. verify[v] \in Verification
  BY <1>1, Verifying
<1>3. /\ r \in Verification /\ r.at = "write" /\ r.host = verify[v].host
      /\ r.key = verify[v].key /\ r.pins = verify[v].pins /\ r.fd = "temporary"
  BY <1>2 DEF Verification
<1> HIDE DEF r
<1>4. /\ verify' \in [Verifier -> {Unverified} \cup Verification]
      /\ verify'[v] = r /\ \A w \in Verifier : w # v => verify'[w] = verify[w]
  BY <1>1, <1>3, VerifyMoves
<1>5. temporary' \in [there : BOOLEAN, pins : Pins] /\ temporary'.pins = NoPins
  BY <1>1, NoPinsTyped
<1>6. HostKeysTypeOK'
  BY <1>1, <1>4, <1>5 DEF HostKeysTypeOK
<1>7. AcceptedPinned => AcceptedPinned'
  BY <1>1 DEF AcceptedPinned
<1>8. ASSUME OneCreates PROVE OneCreates'
  <2>1. Creates(v) /\ \A w \in Verifier : w # v => ~Creates(w) /\ ~Creates(w)'
    BY <1>1, <1>4, <1>8 DEF OneCreates, Creates
  <2> QED
    BY <1>1, <1>3, <1>4, <1>5, <1>8, <2>1 DEF OneCreates
<1> QED
  BY <1>1, <1>6, <1>7, <1>8 DEF HostKeysInv

\* The whole text lands in an empty file.
LEMMA OverwrittenEmpty ==
  ASSUME NEW pins \in Pins, IsFiniteSet(DOMAIN pins)
  PROVE  Overwritten(NoPins, pins) = pins
<1>1. Cardinality(DOMAIN NoPins) = 0
  BY NoPinsTyped, FS_EmptySet
<1>2. Cardinality(DOMAIN pins) \in Nat
  BY FS_CardinalityType
<1> QED
  BY <1>1, <1>2 DEF Overwritten

\* The temporary file is written.
LEMMA WriteTemporaryStep ==
  ASSUME HostKeysInv, NEW v \in Verifier, WriteTemporary(v)
  PROVE  HostKeysInv'
<1> DEFINE r == [verify[v] EXCEPT !.at = "rename"]
           new == verify[v].pins
<1>1. /\ HostKeysTypeOK /\ verify[v].at = "write" /\ SetVerify(v, r)
      /\ UNCHANGED <<accepted, overlapped, opens, hostCrashes>>
  BY DEF HostKeysInv, WriteTemporary
<1>2. /\ temporary' = IF verify[v].fd = "temporary"
                        THEN [temporary EXCEPT !.pins = Overwritten(@, new)] ELSE temporary
      /\ knownHosts' = IF verify[v].fd = "known" THEN Overwritten(knownHosts, new) ELSE knownHosts
  BY DEF WriteTemporary
<1>3. verify[v] \in Verification /\ new \in Pins
  BY <1>1, Verifying DEF Verification
<1>4. /\ r \in Verification /\ r.at = "rename" /\ r.host = verify[v].host
      /\ r.key = verify[v].key /\ r.pins = verify[v].pins
  BY <1>3 DEF Verification
<1> HIDE DEF r
<1>5. /\ verify' \in [Verifier -> {Unverified} \cup Verification]
      /\ verify'[v] = r /\ \A w \in Verifier : w # v => verify'[w] = verify[w]
  BY <1>1, <1>4, VerifyMoves
<1>6. \A old \in Pins : Overwritten(old, new) \in Pins
  BY <1>3, NoPinsTyped DEF Overwritten
<1>7. HostKeysTypeOK'
  <2>1. knownHosts' \in Pins /\ temporary' \in [there : BOOLEAN, pins : Pins]
    BY <1>1, <1>2, <1>6 DEF HostKeysTypeOK
  <2> QED
    BY <1>1, <1>5, <2>1 DEF HostKeysTypeOK
<1>8. ASSUME ~overlapped PROVE AcceptedPinned' /\ OneCreates'
  <2>1. AcceptedPinned /\ OneCreates
    BY <1>8 DEF HostKeysInv
  <2>2. Creates(v) /\ \A w \in Verifier : w # v => ~Creates(w) /\ ~Creates(w)'
    BY <1>1, <1>5, <2>1 DEF OneCreates, Creates
  <2>3. /\ verify[v].host \notin DOMAIN knownHosts /\ verify[v].fd = "temporary"
        /\ new = Pinned(knownHosts, verify[v].host, verify[v].key) /\ temporary.pins = NoPins
    BY <1>1, <2>1, <2>2 DEF OneCreates
  <2>4. knownHosts' = knownHosts /\ temporary' = [temporary EXCEPT !.pins = Overwritten(@, new)]
    BY <1>2, <2>3
  <2>5. IsFiniteSet(DOMAIN new)
    <3>1. knownHosts \in Pins
      BY <1>1 DEF HostKeysTypeOK
    <3>2. verify[v].host \in SshHost /\ verify[v].key \in HostKey
      BY <1>3 DEF Verification
    <3> DEFINE h == verify[v].host
               k == verify[v].key
    <3>3. h \in SshHost /\ k \in HostKey /\ new = Pinned(knownHosts, h, k)
      BY <2>3, <3>2
    <3> HIDE DEF h, k, new
    <3>4. DOMAIN new = DOMAIN knownHosts \cup {h}
      BY <3>1, <3>3, PinnedTyped
    <3> QED
      BY <2>1, <3>4, FS_AddElement DEF AcceptedPinned
  <2> HIDE DEF new
  <2>6. temporary'.pins = new
    BY <1>1, <1>3, <2>3, <2>4, <2>5, OverwrittenEmpty DEF HostKeysTypeOK
  <2>7. AcceptedPinned'
    BY <1>1, <2>1, <2>4 DEF AcceptedPinned
  <2>8. OneCreates'
    BY <1>4, <1>5, <2>2, <2>3, <2>4, <2>6 DEF OneCreates, new
  <2> QED
    BY <2>7, <2>8
<1> QED
  BY <1>1, <1>7, <1>8 DEF HostKeysInv

\* A rename without an overlap: the file gets its own pin.
LEMMA OwnRename ==
  ASSUME HostKeysInv, NEW v \in Verifier, RenameTemporary(v), temporary.there, ~overlapped
  PROVE  /\ verify[v].host \in SshHost /\ verify[v].key \in HostKey
         /\ verify[v].host \notin DOMAIN knownHosts
         /\ knownHosts' = Pinned(knownHosts, verify[v].host, verify[v].key)
         /\ \A w \in Verifier : w # v => ~Creates(w)
<1>1. HostKeysTypeOK /\ OneCreates /\ verify[v].at = "rename" /\ knownHosts' = temporary.pins
  BY DEF HostKeysInv, RenameTemporary
<1>2. verify[v] \in Verification
  BY <1>1, Verifying
<1>3. Creates(v) /\ \A w \in Verifier : w # v => ~Creates(w)
  BY <1>1 DEF OneCreates, Creates
<1> QED
  BY <1>1, <1>2, <1>3 DEF OneCreates, Verification

\* The temporary file is renamed.
LEMMA RenameStep ==
  ASSUME HostKeysInv, NEW v \in Verifier, RenameTemporary(v)
  PROVE  HostKeysInv'
<1>1. HostKeysTypeOK /\ verify[v].at = "rename" /\ UNCHANGED <<overlapped, opens, hostCrashes>>
  BY DEF HostKeysInv, RenameTemporary
<1>2. CASE ~temporary.there
  <2>1. SetVerify(v, Unverified) /\ UNCHANGED <<knownHosts, temporary, accepted>>
    BY <1>2 DEF RenameTemporary
  <2>2. /\ verify' \in [Verifier -> {Unverified} \cup Verification]
        /\ verify'[v] = Unverified /\ \A w \in Verifier : w # v => verify'[w] = verify[w]
    BY <1>1, <2>1, VerifyMoves
  <2>3. HostKeysTypeOK'
    BY <1>1, <2>1, <2>2 DEF HostKeysTypeOK
  <2>4. AcceptedPinned => AcceptedPinned'
    BY <2>1 DEF AcceptedPinned
  <2>5. OneCreates => OneCreates'
    BY <2>1, <2>2, IdleCreatesNot DEF OneCreates, Creates
  <2> QED
    BY <1>1, <2>3, <2>4, <2>5 DEF HostKeysInv
<1>3. CASE temporary.there
  <2> DEFINE moved(w) == [verify[w] EXCEPT !.fd = IF @ = "temporary" THEN "known" ELSE "gone"]
  <2>1. /\ knownHosts' = temporary.pins /\ temporary' = NoFile
        /\ accepted' = accepted \cup {<<verify[v].host, verify[v].key>>}
        /\ verify' = [w \in Verifier |->
             IF w = v THEN Unverified ELSE IF verify[w].at # "write" THEN verify[w] ELSE moved(w)]
    BY <1>3 DEF RenameTemporary
  <2>2. ASSUME NEW w \in Verifier, verify[w].at = "write"
        PROVE  moved(w) \in Verification
    BY <1>1, <2>2, Verifying DEF Verification
  <2> HIDE DEF moved
  <2>3. /\ verify' \in [Verifier -> {Unverified} \cup Verification]
        /\ verify'[v] = Unverified
        /\ \A w \in Verifier : w # v /\ verify[w].at # "write" => verify'[w] = verify[w]
    BY <1>1, <2>1, <2>2 DEF HostKeysTypeOK
  <2>4. HostKeysTypeOK'
    <3>1. verify[v].host \in SshHost /\ verify[v].key \in HostKey
      BY <1>1, Verifying DEF Verification
    <3>2. knownHosts' \in Pins /\ temporary' \in [there : BOOLEAN, pins : Pins]
      BY <1>1, <2>1, NoPinsTyped DEF HostKeysTypeOK, NoFile
    <3> QED
      BY <1>1, <2>1, <2>3, <3>1, <3>2 DEF HostKeysTypeOK
  <2>5. ASSUME ~overlapped PROVE AcceptedPinned' /\ OneCreates'
    <3> DEFINE h == verify[v].host
               k == verify[v].key
    <3>1. /\ AcceptedPinned /\ h \in SshHost /\ k \in HostKey /\ h \notin DOMAIN knownHosts
          /\ knownHosts' = Pinned(knownHosts, h, k)
          /\ \A w \in Verifier : w # v => ~Creates(w)
      BY <1>3, <2>5, OwnRename DEF HostKeysInv
    <3>2. knownHosts \in Pins /\ accepted' = accepted \cup {<<h, k>>}
      BY <1>1, <2>1 DEF HostKeysTypeOK
    <3> HIDE DEF h, k
    <3>3. /\ DOMAIN knownHosts' = DOMAIN knownHosts \cup {h} /\ knownHosts'[h] = k
          /\ \A g \in DOMAIN knownHosts : knownHosts'[g] = knownHosts[g]
      BY <3>1, <3>2, PinnedTyped
    <3>4. IsFiniteSet(DOMAIN knownHosts')
      BY <3>1, <3>3, FS_AddElement DEF AcceptedPinned
    <3>5. AcceptedPinned'
      BY <3>1, <3>2, <3>3, <3>4 DEF AcceptedPinned
    <3>6. \A w \in Verifier : ~Creates(w)'
      BY <2>3, <3>1, IdleCreatesNot DEF Creates
    <3>7. OneCreates'
      BY <3>6 DEF OneCreates
    <3> QED
      BY <3>5, <3>7
  <2> QED
    BY <1>1, <2>4, <2>5 DEF HostKeysInv
<1> QED
  BY <1>2, <1>3

\* The initial states have the invariant.
LEMMA HostKeysStart == HostKeysInit => HostKeysInv
<1> SUFFICES ASSUME HostKeysInit
             PROVE  HostKeysInv
  OBVIOUS
<1>1. /\ verify = [v \in Verifier |-> Unverified] /\ knownHosts = NoPins /\ temporary = NoFile
      /\ accepted = {} /\ opens = 0 /\ hostCrashes = 0
  BY DEF HostKeysInit
<1>2. overlapped \in BOOLEAN
  BY Zenon DEF HostKeysInit
<1>3. HostKeysTypeOK
  BY <1>1, <1>2, NoPinsTyped, HostKeysAssumption DEF HostKeysTypeOK, NoFile
<1>4. AcceptedPinned
  BY <1>1, NoPinsTyped, FS_EmptySet DEF AcceptedPinned
<1>5. OneCreates
  BY <1>1, IdleCreatesNot DEF OneCreates, Creates
<1> QED
  BY <1>3, <1>4, <1>5 DEF HostKeysInv

\* Every step keeps the invariant.
LEMMA HostKeysStep == HostKeysInv /\ [HostKeysNext]_hostVars => HostKeysInv'
<1>1. ASSUME HostKeysInv, UNCHANGED hostVars
      PROVE  HostKeysInv'
  <2>1. UNCHANGED <<verify, knownHosts, temporary, accepted, overlapped, opens, hostCrashes>>
    BY <1>1 DEF hostVars
  <2> QED
    BY <1>1, <2>1 DEF HostKeysInv, HostKeysTypeOK, AcceptedPinned, OneCreates, Creates
<1> QED
  BY <1>1, OpenStep, ReadsStep, CreateStep, WriteTemporaryStep, RenameStep, FailStep, KilledStep
     DEF HostKeysNext

\* A host that was accepted once is never accepted with another key, whatever
\* fails and whenever the agent is killed, as long as no two first
\* connections overlap (VerifyHostKey).
THEOREM FirstKeyStays == HostKeysSpec => []HostKeysSafe
<1>1. ASSUME HostKeysInv PROVE HostKeysSafe
  BY <1>1 DEF HostKeysInv, AcceptedPinned, KeyStaysPinned, HostKeysSafe
<1> QED
  BY <1>1, HostKeysStart, HostKeysStep, PTL DEF HostKeysSpec

\* A first connection to one host keeps the pins of the others
\* (VerifyHostKey).
THEOREM PinsKept == HostKeysSpec => [][OtherPinsKept]_hostVars
<1>1. ASSUME HostKeysInv, [HostKeysNext]_hostVars
      PROVE  [OtherPinsKept]_hostVars
  <2>1. ASSUME NEW v \in Verifier, RenameTemporary(v), ~overlapped, NEW h \in DOMAIN knownHosts
        PROVE  h \in DOMAIN knownHosts' /\ knownHosts'[h] = knownHosts[h]
    <3>1. CASE temporary.there
      <4>1. knownHosts \in Pins
        BY <1>1 DEF HostKeysInv, HostKeysTypeOK
      <4> DEFINE n == verify[v].host
                 k == verify[v].key
      <4>2. /\ n \in SshHost /\ k \in HostKey /\ n \notin DOMAIN knownHosts
            /\ knownHosts' = Pinned(knownHosts, n, k)
        BY <1>1, <2>1, <3>1, OwnRename
      <4> HIDE DEF n, k
      <4>3. /\ DOMAIN knownHosts' = DOMAIN knownHosts \cup {n}
            /\ \A g \in DOMAIN knownHosts : knownHosts'[g] = knownHosts[g]
        BY <4>1, <4>2, PinnedTyped
      <4> QED
        BY <4>3
    <3>2. CASE ~temporary.there
      BY <2>1, <3>2 DEF RenameTemporary
    <3> QED
      BY <3>1, <3>2
  <2>2. ASSUME NEW v \in Verifier, WriteTemporary(v), ~overlapped
        PROVE  knownHosts' = knownHosts
    BY <1>1, <2>2 DEF WriteTemporary, HostKeysInv, OneCreates, Creates
  <2>3. CASE \E v \in Verifier : RenameTemporary(v) \/ WriteTemporary(v)
    BY <2>1, <2>2, <2>3 DEF OtherPinsKept
  <2>4. CASE \A v \in Verifier : ~RenameTemporary(v) /\ ~WriteTemporary(v)
    <3>1. UNCHANGED knownHosts
      BY <1>1, <2>4 DEF HostKeysNext, AgentKilled, Open, Reads, CreateTemporary, VerifyFails,
                        fileVars, hostVars
    <3> QED
      BY <3>1 DEF OtherPinsKept
  <2> QED
    BY <2>3, <2>4
<1> QED
  BY <1>1, HostKeysStart, HostKeysStep, PTL DEF HostKeysSpec

-----------------------------------------------------------------------------
(* Drafts: what is written anywhere was verified, and a draft that is       *)
(* swapped in was complete in its staging directory.                        *)

\* A directory of verified files: without a hash only content is taken as is.
Verified(t) ==
  /\ DOMAIN t \subseteq Files
  /\ \A f \in DOMAIN t : /\ t[f] \in {"store", "unverified", "starter", "edited"}
                         /\ t[f] = "unverified" => f \in Content

\* A request that builds a new draft has all its sources in the staging
\* directory from the runnable on, and only a request that found the draft has
\* reused set, and only until its node step.
StagedWhole(c) ==
  step[c] \in {"runnable", "swap", "remove", "rename"} /\ ~reused[c] =>
    Source \subseteq DOMAIN staging[c]
ReusedSoon(c) ==
  step[c] \in {"idle", "source", "remove", "rename", "starter", "preview", "wait"} => ~reused[c]

\* The request that waits for a dev server holds previewMu.
WaitsHolding ==
  /\ \A c \in Opener : step[c] = "wait" <=> holder = c
  /\ holder # "none" => preview = "none"

Trees ==
  /\ DOMAIN staging = Opener /\ DOMAIN unpacked = Opener
  /\ Verified(project)
  /\ \A c \in Opener : /\ Verified(staging[c]) /\ Verified(unpacked[c])
                       /\ DOMAIN unpacked[c] \subseteq Content

\* The inductive invariant of drafts.
DraftsInv ==
  /\ DraftsTypeOK /\ Trees /\ DraftWhole
  /\ \A c \in Opener : StagedWhole(c) /\ ReusedSoon(c)
  /\ DevServerOwned /\ WaitsHolding

\* An empty directory has nothing unverified.
LEMMA NothingVerified == Verified(Nothing) /\ DOMAIN Nothing = {}
BY DEF Verified, Nothing

\* The names of a project's files.
LEMMA FileNames ==
  /\ Source \cap Content = {} /\ Source \subseteq Files /\ Content \subseteq Files
  /\ "app.json" \in Source
BY DEF Source, Content, Files

\* Two verified trees, one over the other.
LEMMA OverlaidVerified ==
  ASSUME NEW t, NEW u, Verified(t), Verified(u)
  PROVE  Verified(Overlaid(t, u)) /\ DOMAIN Overlaid(t, u) = DOMAIN t \cup DOMAIN u
BY DEF Verified, Overlaid

\* A tree with one more verified file.
LEMMA PutVerified ==
  ASSUME NEW t, Verified(t), NEW f \in Files, NEW v \in {"store", "starter", "edited"}
  PROVE  Verified(PutFile(t, f, v)) /\ DOMAIN PutFile(t, f, v) = DOMAIN t \cup {f}
<1>1. Verified([g \in {f} |-> v]) /\ DOMAIN [g \in {f} |-> v] = {f}
  BY DEF Verified
<1> QED
  BY <1>1, OverlaidVerified DEF PutFile

\* What is left of a verified tree.
LEMMA RemainingVerified ==
  ASSUME NEW t, Verified(t), NEW S
  PROVE  Verified(Remaining(t, S)) /\ DOMAIN Remaining(t, S) = DOMAIN t \ S
BY DEF Verified, Remaining

\* What one request writes to its own staging directory.
LEMMA StagesOne ==
  ASSUME Trees, NEW c \in Opener, NEW t, Verified(t), staging' = [staging EXCEPT ![c] = t],
         UNCHANGED <<project, unpacked>>
  PROVE  Trees'
<1>1. /\ DOMAIN staging' = Opener /\ staging'[c] = t
      /\ \A d \in Opener : d # c => staging'[d] = staging[d]
  BY DEF Trees
<1> QED
  BY <1>1 DEF Trees

\* A request's staging directory is removed.
LEMMA CleanedTrees ==
  ASSUME Trees, NEW c \in Opener, Cleaned(c), Verified(project')
  PROVE  Trees'
<1>1. /\ DOMAIN staging' = Opener /\ staging'[c] = Nothing
      /\ DOMAIN unpacked' = Opener /\ unpacked'[c] = Nothing
      /\ \A d \in Opener : d # c => staging'[d] = staging[d] /\ unpacked'[d] = unpacked[d]
  BY DEF Trees, Cleaned
<1> QED
  BY <1>1, NothingVerified DEF Trees

\* Every step keeps unverified sources out of the directories.
LEMMA DraftsTrees == DraftsInv /\ [DraftsNext]_draftVars => Trees'
<1> SUFFICES ASSUME DraftsInv, [DraftsNext]_draftVars PROVE Trees'
  OBVIOUS
<1>1. Trees /\ \A c \in Opener : Verified(staging[c]) /\ Verified(unpacked[c])
  BY DEF DraftsInv, Trees
<1>2. Verified(project) /\ DOMAIN staging = Opener /\ DOMAIN unpacked = Opener
  BY <1>1 DEF Trees
<1>3. CASE UNCHANGED <<project, staging, unpacked>>
  BY <1>1, <1>3 DEF Trees
<1>4. CASE Edit
  <2>1. PICK f \in DOMAIN project :
           project' = PutFile(project, f, "edited") \/ project' = Remaining(project, {f})
    BY <1>4 DEF Edit
  <2>2. Verified(project')
    <3>1. f \in Files
      BY <1>2 DEF Verified
    <3>2. Verified(PutFile(project, f, "edited"))
      BY <3>1, <1>2, PutVerified
    <3>3. Verified(Remaining(project, {f}))
      BY <1>2, RemainingVerified
    <3> QED
      BY <2>1, <3>2, <3>3
  <2> QED
    BY <1>1, <1>4, <2>2 DEF Edit, Trees
<1>5. CASE DraftsCrash
  BY <1>1, <1>5, NothingVerified DEF DraftsCrash, Trees
<1>6. ASSUME NEW c \in Opener, WriteSource(c) PROVE Trees'
  <2>1. PICK f \in Source \ DOMAIN staging[c] :
           staging' = [staging EXCEPT ![c] = PutFile(@, f, "store")]
    BY <1>6 DEF WriteSource, Accepted
  <2>2. Verified(PutFile(staging[c], f, "store"))
    BY <1>1, PutVerified, FileNames
  <2> QED
    BY <1>1, <1>6, <2>1, <2>2, StagesOne DEF WriteSource
<1>7. ASSUME NEW c \in Opener, Unpack(c) PROVE Trees'
  <2>1. PICK hashed \in BOOLEAN, archive \in {"store", "forged"} :
          /\ hashed => Accepted(archive)
          /\ unpacked' = [unpacked EXCEPT ![c] =
               [f \in Content |-> IF hashed THEN archive ELSE "unverified"]]
    BY <1>7 DEF Unpack
  <2> DEFINE v == IF hashed THEN archive ELSE "unverified"
             t == [f \in Content |-> v]
  <2>2. v \in {"store", "unverified"}
    BY <2>1 DEF Accepted
  <2>3. unpacked' = [unpacked EXCEPT ![c] = t]
    BY <2>1
  <2> HIDE DEF v
  <2>4. Verified(t) /\ DOMAIN t = Content
    BY <2>2, FileNames DEF Verified
  <2> HIDE DEF t
  <2>5. /\ DOMAIN unpacked' = Opener /\ unpacked'[c] = t
        /\ \A d \in Opener : d # c => unpacked'[d] = unpacked[d]
    BY <1>2, <2>3
  <2> QED
    BY <1>1, <1>7, <2>4, <2>5 DEF Trees, Unpack
<1>8. ASSUME NEW c \in Opener, OpenFails(c) \/ StarterDone(c) PROVE Trees'
  BY <1>1, <1>2, <1>8, CleanedTrees DEF OpenFails, StarterDone
<1>9. ASSUME NEW c \in Opener, SwapStaged(c) PROVE Trees'
  <2> DEFINE t == Overlaid(staging[c], unpacked[c])
  <2>1. Verified(t)
    BY <1>1, OverlaidVerified
  <2>2. staging' = [staging EXCEPT ![c] = t] /\ unpacked' = [unpacked EXCEPT ![c] = Nothing]
        /\ project' = project
    BY <1>9 DEF SwapStaged
  <2> HIDE DEF t
  <2>3. /\ DOMAIN staging' = Opener /\ staging'[c] = t
        /\ DOMAIN unpacked' = Opener /\ unpacked'[c] = Nothing
        /\ \A d \in Opener : d # c => staging'[d] = staging[d] /\ unpacked'[d] = unpacked[d]
    BY <1>2, <2>2
  <2> QED
    BY <1>1, <2>1, <2>2, <2>3, NothingVerified DEF Trees
<1>10. ASSUME NEW c \in Opener, SwapRemoves(c) \/ RemoveProject(c) PROVE Trees'
  <2>1. UNCHANGED <<staging, unpacked>>
    BY <1>10 DEF SwapRemoves, RemoveProject
  <2>2. project' = project \/ \E f : project' = Remaining(project, {f})
    BY <1>10 DEF SwapRemoves, RemoveProject
  <2>3. \A f : Verified(Remaining(project, {f}))
    BY <1>2, RemainingVerified
  <2>4. Verified(project')
    BY <1>2, <2>2, <2>3
  <2> QED
    BY <1>1, <2>1, <2>4 DEF Trees
<1>11. ASSUME NEW c \in Opener, SwapRenames(c) PROVE Trees'
  <2>1. /\ project' = Overlaid(project, unpacked[c]) /\ staging' = staging
        /\ unpacked' = [unpacked EXCEPT ![c] = Nothing]
    BY <1>11 DEF SwapRenames
  <2>2. Verified(project')
    BY <1>1, <1>2, <2>1, OverlaidVerified
  <2>3. /\ DOMAIN unpacked' = Opener /\ unpacked'[c] = Nothing
        /\ \A d \in Opener : d # c => unpacked'[d] = unpacked[d]
    BY <1>2, <2>1
  <2> QED
    BY <1>1, <2>1, <2>2, <2>3, NothingVerified DEF Trees
<1>12. ASSUME NEW c \in Opener, RenameProject(c) PROVE Trees'
  <2>1. Cleaned(c) /\ (project' = staging[c] \/ project' = project)
    BY <1>12 DEF RenameProject
  <2> QED
    BY <1>1, <1>2, <2>1, CleanedTrees
<1>13. ASSUME NEW c \in Opener, StarterFile(c) PROVE Trees'
  <2>1. PICK f \in Files : /\ project' = PutFile(project, f, "starter")
                           /\ staging' = [staging EXCEPT ![c] = PutFile(@, f, "starter")]
    BY <1>13 DEF StarterFile
  <2>2. Verified(project') /\ Verified(PutFile(staging[c], f, "starter"))
    BY <1>1, <1>2, <2>1, PutVerified
  <2>3. /\ DOMAIN staging' = Opener /\ staging'[c] = PutFile(staging[c], f, "starter")
        /\ \A d \in Opener : d # c => staging'[d] = staging[d]
    BY <1>2, <2>1
  <2> QED
    BY <1>1, <1>13, <2>2, <2>3 DEF Trees, StarterFile
<1>14. CASE \/ ClosePreviews
            \/ \E c \in Opener :
                 \/ OpenAppDraft(c) \/ SourceWritten(c) \/ CreateBoilerplate(c) \/ NodeReady(c)
                 \/ StartLivePreview(c) \/ PreviewWaited(c) \/ PreviewTimesOut(c)
  BY <1>3, <1>14 DEF ClosePreviews, OpenAppDraft, SourceWritten, CreateBoilerplate, NodeReady,
                     StartLivePreview, PreviewWaited, PreviewTimesOut
<1>15. UNCHANGED draftVars => UNCHANGED <<project, staging, unpacked>>
  BY DEF draftVars
<1> QED
  BY <1>3, <1>4, <1>5, <1>6, <1>7, <1>8, <1>9, <1>10, <1>11, <1>12, <1>13, <1>14, <1>15
     DEF DraftsNext

Steps == {"idle", "source", "runnable", "swap", "remove", "rename", "starter", "node", "preview",
          "wait"}

\* Where the requests are after a step of one of them.
LEMMA OneMoves ==
  ASSUME DraftsTypeOK, NEW c \in Opener, NEW next \in Steps, To(c, next)
  PROVE  /\ step' \in [Opener -> Steps] /\ step'[c] = next
         /\ \A d \in Opener : d # c => step'[d] = step[d]
BY DEF DraftsTypeOK, To, Steps

\* Every step keeps the types.
LEMMA DraftsTypes == DraftsInv /\ [DraftsNext]_draftVars => DraftsTypeOK'
<1> SUFFICES ASSUME DraftsInv, [DraftsNext]_draftVars PROVE DraftsTypeOK'
  OBVIOUS
<1>1. DraftsTypeOK /\ Trees'
  BY DraftsTrees DEF DraftsInv
<1>2. /\ DOMAIN project' \subseteq Files
      /\ \A f \in DOMAIN project' :
           project'[f] \in {"store", "unverified", "forged", "starter", "edited"}
      /\ \A c \in Opener : DOMAIN staging'[c] \subseteq Files /\ DOMAIN unpacked'[c] \subseteq Content
  BY <1>1 DEF Trees, Verified
<1>3. step' \in [Opener -> Steps]
  <2>1. step \in [Opener -> Steps]
    BY <1>1 DEF DraftsTypeOK, Steps
  <2>2. ASSUME NEW c \in Opener, \E next \in Steps : To(c, next) PROVE step' \in [Opener -> Steps]
    BY <1>1, <2>2, OneMoves
  <2>3. CASE step' = step
    BY <2>1, <2>3
  <2>4. CASE step' = [c \in Opener |-> "idle"]
    BY <2>4 DEF Steps
  <2>5. ASSUME NEW c \in Opener,
               \/ OpenAppDraft(c) \/ SourceWritten(c) \/ Unpack(c) \/ OpenFails(c) \/ SwapStaged(c)
               \/ SwapRenames(c) \/ RenameProject(c) \/ CreateBoilerplate(c) \/ StarterDone(c)
               \/ NodeReady(c) \/ StartLivePreview(c) \/ PreviewWaited(c) \/ PreviewTimesOut(c)
        PROVE  step' \in [Opener -> Steps]
    <3>1. To(c, "source") \/ To(c, "runnable") \/ To(c, "node") \/ To(c, "swap") \/ To(c, "idle")
          \/ To(c, "remove") \/ To(c, "starter") \/ To(c, "preview") \/ To(c, "wait")
      BY <2>5 DEF OpenAppDraft, SourceWritten, Unpack, OpenFails, SwapStaged, SwapRenames,
                  RenameProject, CreateBoilerplate, StarterDone, NodeReady, StartLivePreview,
                  PreviewWaited, PreviewTimesOut
    <3> QED
      BY <2>2, <3>1 DEF Steps
  <2>6. ASSUME NEW c \in Opener, RemoveProject(c) PROVE step' = step \/ To(c, "rename")
    BY <2>6 DEF RemoveProject
  <2>7. CASE \/ Edit \/ ClosePreviews
             \/ \E c \in Opener : WriteSource(c) \/ SwapRemoves(c) \/ StarterFile(c)
    BY <2>3, <2>7 DEF Edit, ClosePreviews, WriteSource, SwapRemoves, StarterFile
  <2>8. DraftsCrash => step' = [c \in Opener |-> "idle"]
    BY DEF DraftsCrash
  <2>9. UNCHANGED draftVars => step' = step
    BY DEF draftVars
  <2>10. "rename" \in Steps
    BY DEF Steps
  <2> QED
    BY <2>2, <2>3, <2>4, <2>5, <2>6, <2>7, <2>8, <2>9, <2>10 DEF DraftsNext
<1>4. reused' \in [Opener -> BOOLEAN]
  <2>1. reused \in [Opener -> BOOLEAN]
    BY <1>1 DEF DraftsTypeOK
  <2>2. CASE reused' = reused \/ reused' = [c \in Opener |-> FALSE]
    BY <2>1, <2>2
  <2>3. ASSUME NEW c \in Opener, OpenAppDraft(c) PROVE reused' \in [Opener -> BOOLEAN]
    <3>1. ("app.json" \in DOMAIN project) \in BOOLEAN
      OBVIOUS
    <3> DEFINE b == "app.json" \in DOMAIN project
    <3>2. reused' = [reused EXCEPT ![c] = b]
      BY <2>3 DEF OpenAppDraft
    <3>3. b \in BOOLEAN
      BY <3>1
    <3> HIDE DEF b
    <3> QED
      BY <2>1, <3>2, <3>3
  <2>4. ASSUME NEW c \in Opener, OpenFails(c) \/ NodeReady(c) PROVE reused' \in [Opener -> BOOLEAN]
    BY <2>1, <2>4 DEF OpenFails, NodeReady
  <2>5. \/ reused' = reused \/ reused' = [c \in Opener |-> FALSE]
        \/ \E c \in Opener : OpenAppDraft(c) \/ OpenFails(c) \/ NodeReady(c)
    BY DEF DraftsNext, draftVars, Edit, DraftsCrash, ClosePreviews, WriteSource,
           SourceWritten, Unpack, SwapStaged, SwapRemoves, SwapRenames, RemoveProject,
           RenameProject, CreateBoilerplate, StarterFile, StarterDone, StartLivePreview,
           PreviewWaited, PreviewTimesOut
  <2> QED
    BY <2>2, <2>3, <2>4, <2>5
<1>5. torn' \in BOOLEAN
  <2>1. torn \in BOOLEAN
    BY <1>1 DEF DraftsTypeOK
  <2> QED
    BY <2>1 DEF DraftsNext, draftVars, Edit, DraftsCrash, ClosePreviews, OpenAppDraft, WriteSource,
           SourceWritten, Unpack, OpenFails, SwapStaged, SwapRemoves, SwapRenames, RemoveProject,
           RenameProject, CreateBoilerplate, StarterFile, StarterDone, NodeReady,
           StartLivePreview, PreviewWaited, PreviewTimesOut, KillDevServer
<1>6. draftKills' \in Nat /\ edits' \in Nat /\ draftKills' + edits' <= MaxMishaps
  <2>1. draftKills \in Nat /\ edits \in Nat /\ draftKills + edits <= MaxMishaps
    BY <1>1 DEF DraftsTypeOK
  <2>2. \/ draftKills' = draftKills /\ edits' = edits
        \/ Mishap /\ draftKills' = draftKills + 1 /\ edits' = edits
        \/ Mishap /\ draftKills' = draftKills /\ edits' = edits + 1
    BY DEF DraftsNext, draftVars, budgets, Edit, DraftsCrash, ClosePreviews, OpenAppDraft,
           WriteSource, SourceWritten, Unpack, OpenFails, SwapStaged, SwapRemoves, SwapRenames,
           RemoveProject, RenameProject, CreateBoilerplate, StarterFile, StarterDone, NodeReady,
           StartLivePreview, PreviewWaited, PreviewTimesOut, KillDevServer
  <2> QED
    BY <2>1, <2>2, DraftsAssumption DEF Mishap
<1>7. preview' \in {"none", "static", "vite"} /\ holder' \in Opener \cup {"none"}
  <2>1. preview \in {"none", "static", "vite"} /\ holder \in Opener \cup {"none"}
    BY <1>1 DEF DraftsTypeOK
  <2> QED
    BY <2>1 DEF DraftsNext, draftVars, previewVars, Edit, DraftsCrash, ClosePreviews, OpenAppDraft,
           WriteSource, SourceWritten, Unpack, OpenFails, SwapStaged, SwapRemoves, SwapRenames,
           RemoveProject, RenameProject, CreateBoilerplate, StarterFile, StarterDone, NodeReady,
           StartLivePreview, PreviewWaited, PreviewTimesOut, KillDevServer
<1>8. servers' \in Nat
  <2>1. servers \in Nat
    BY <1>1 DEF DraftsTypeOK
  <2>2. KillDevServer => servers' \in Nat
    BY <2>1 DEF KillDevServer
  <2>3. servers' = servers \/ servers' = servers + 1 \/ KillDevServer
    BY DEF DraftsNext, draftVars, previewVars, Edit, DraftsCrash, ClosePreviews, OpenAppDraft,
           WriteSource, SourceWritten, Unpack, OpenFails, SwapStaged, SwapRemoves, SwapRenames,
           RemoveProject, RenameProject, CreateBoilerplate, StarterFile, StarterDone, NodeReady,
           StartLivePreview, PreviewWaited, PreviewTimesOut
  <2> QED
    BY <2>1, <2>2, <2>3
<1> QED
  BY <1>2, <1>3, <1>4, <1>5, <1>6, <1>7, <1>8 DEF DraftsTypeOK, Steps

\* A bound with something to spare.
LEMMA SparedBound == \A m, n \in Nat : m <= n => m <= n + 0 /\ m <= n + 1
OBVIOUS

\* previewMu and the dev server.
LEMMA DraftsServers == DraftsInv /\ [DraftsNext]_draftVars => DevServerOwned' /\ WaitsHolding'
<1> SUFFICES ASSUME DraftsInv, [DraftsNext]_draftVars PROVE DevServerOwned' /\ WaitsHolding'
  OBVIOUS
<1>1. DraftsTypeOK /\ DevServerOwned /\ WaitsHolding
  BY DEF DraftsInv
<1>2. /\ \A c \in Opener : c # "none" /\ (step[c] = "wait" <=> holder = c)
      /\ holder # "none" => preview = "none"
      /\ servers <= draftKills + IF preview = "vite" \/ holder # "none" THEN 1 ELSE 0
      /\ holder \in Opener \cup {"none"} /\ step \in [Opener -> Steps]
      /\ servers \in Nat /\ draftKills \in Nat
  BY <1>1, DraftsAssumption DEF DevServerOwned, WaitsHolding, DraftsTypeOK, Steps
<1>3. CASE UNCHANGED <<step, previewVars, draftKills>>
  BY <1>1, <1>3 DEF DevServerOwned, WaitsHolding, previewVars
<1>4. ASSUME NEW c \in Opener, step[c] # "wait", NEW next \in Steps \ {"wait"}, To(c, next),
             UNCHANGED <<previewVars, draftKills>>
      PROVE  DevServerOwned' /\ WaitsHolding'
  <2>1. /\ step'[c] = next /\ next # "wait"
        /\ \A d \in Opener : d # c => step'[d] = step[d]
    BY <1>1, <1>4, OneMoves
  <2> QED
    BY <1>2, <1>4, <2>1 DEF DevServerOwned, WaitsHolding, previewVars
<1>5. ASSUME KillDevServer PROVE servers' <= draftKills' /\ servers' \in Nat /\ draftKills' \in Nat
  BY <1>2, <1>5 DEF KillDevServer
<1>6. CASE DraftsCrash
  <2>1. /\ KillDevServer /\ step' = [c \in Opener |-> "idle"]
        /\ preview' = "none" /\ holder' = "none"
    BY <1>6 DEF DraftsCrash
  <2>2. \A c \in Opener : step'[c] # "wait" /\ c # "none"
    BY <1>2, <2>1
  <2>3. DevServerOwned'
    BY <1>5, <2>1 DEF DevServerOwned
  <2>4. WaitsHolding'
    BY <2>1, <2>2 DEF WaitsHolding
  <2> QED
    BY <2>3, <2>4
<1>7. CASE ClosePreviews
  <2>1. holder = "none" /\ holder' = holder /\ preview' = "none" /\ step' = step
        /\ IF preview = "vite" THEN KillDevServer ELSE UNCHANGED <<draftKills, servers>>
    BY <1>7 DEF ClosePreviews
  <2>2. servers' <= draftKills' /\ servers' \in Nat /\ draftKills' \in Nat
    <3>1. CASE preview = "vite"
      BY <1>5, <2>1, <3>1
    <3>2. CASE preview # "vite"
      BY <1>2, <2>1, <3>2
    <3> QED
      BY <3>1, <3>2
  <2>3. DevServerOwned'
    BY <2>1, <2>2, SparedBound, Zenon DEF DevServerOwned
  <2>4. WaitsHolding'
    BY <1>2, <2>1 DEF WaitsHolding
  <2> QED
    BY <2>3, <2>4
<1>8. ASSUME NEW c \in Opener, StartLivePreview(c) PROVE DevServerOwned' /\ WaitsHolding'
  <2>1. step[c] = "preview" /\ holder = "none" /\ draftKills' = draftKills
    BY <1>8 DEF StartLivePreview, budgets
  <2>2. CASE To(c, "idle") /\ UNCHANGED previewVars
    BY <1>4, <2>1, <2>2 DEF Steps
  <2>3. CASE To(c, "idle") /\ preview = "none" /\ preview' = "static" /\ UNCHANGED <<holder, servers>>
    <3>1. step'[c] = "idle" /\ \A d \in Opener : d # c => step'[d] = step[d]
      BY <1>1, <2>3, OneMoves DEF Steps
    <3> QED
      BY <1>2, <2>1, <2>3, <3>1 DEF DevServerOwned, WaitsHolding
  <2>4. CASE /\ To(c, "wait") /\ preview = "none" /\ holder' = c /\ servers' \in {servers, servers + 1}
             /\ UNCHANGED preview
    <3>1. step'[c] = "wait" /\ \A d \in Opener : d # c => step'[d] = step[d]
      BY <1>1, <2>4, OneMoves DEF Steps
    <3> QED
      BY <1>2, <2>1, <2>4, <3>1 DEF DevServerOwned, WaitsHolding
  <2> QED
    BY <1>8, <2>2, <2>3, <2>4 DEF StartLivePreview
<1>13. ASSUME NEW c \in Opener, PreviewWaited(c) \/ PreviewTimesOut(c)
       PROVE  DevServerOwned' /\ WaitsHolding'
  <2>1. step[c] = "wait" /\ To(c, "idle") /\ holder' = "none"
        /\ \/ preview' = "vite" /\ UNCHANGED <<servers, draftKills>>
           \/ KillDevServer /\ UNCHANGED preview
    BY <1>13 DEF PreviewWaited, PreviewTimesOut, budgets
  <2>2. step'[c] = "idle" /\ \A d \in Opener : d # c => step'[d] = step[d]
    BY <1>1, <2>1, OneMoves DEF Steps
  <2>3. holder = c /\ holder # "none" /\ preview = "none" /\ servers <= draftKills + 1
    BY <1>2, <2>1
  <2>4. servers' <= draftKills' + IF preview' = "vite" THEN 1 ELSE 0
    <3>1. CASE KillDevServer /\ UNCHANGED preview
      <4>1. servers' <= draftKills' /\ preview' # "vite"
        BY <1>5, <2>3, <3>1
      <4>2. draftKills' \in Nat /\ servers' \in Nat
        BY <1>5, <3>1
      <4> QED
        BY <4>1, <4>2, SparedBound, Zenon
    <3>2. CASE preview' = "vite" /\ UNCHANGED <<servers, draftKills>>
      BY <1>2, <2>3, <3>2
    <3> QED
      BY <2>1, <3>1, <3>2
  <2>5. DevServerOwned'
    BY <2>1, <2>4 DEF DevServerOwned
  <2>6. WaitsHolding'
    BY <1>2, <2>1, <2>2, <2>3 DEF WaitsHolding
  <2> QED
    BY <2>5, <2>6
<1>9. ASSUME NEW c \in Opener,
             \/ OpenAppDraft(c) \/ SourceWritten(c) \/ Unpack(c) \/ OpenFails(c) \/ SwapStaged(c)
             \/ SwapRenames(c) \/ RenameProject(c) \/ CreateBoilerplate(c) \/ StarterDone(c)
             \/ NodeReady(c)
      PROVE  DevServerOwned' /\ WaitsHolding'
  <2>1. step[c] # "wait" /\ UNCHANGED <<previewVars, draftKills>>
    BY <1>9 DEF budgets, OpenAppDraft, SourceWritten, Unpack, OpenFails, SwapStaged, SwapRenames,
                RenameProject, CreateBoilerplate, StarterDone, NodeReady
  <2>2. \E next \in Steps \ {"wait"} : To(c, next)
    <3>1. To(c, "source") \/ To(c, "runnable") \/ To(c, "node") \/ To(c, "swap") \/ To(c, "idle")
          \/ To(c, "remove") \/ To(c, "starter") \/ To(c, "preview")
      BY <1>9 DEF OpenAppDraft, SourceWritten, Unpack, OpenFails, SwapStaged, SwapRenames,
                  RenameProject, CreateBoilerplate, StarterDone, NodeReady
    <3> QED
      BY <3>1 DEF Steps
  <2> QED
    BY <1>4, <2>1, <2>2
<1>10. ASSUME NEW c \in Opener, RemoveProject(c) PROVE DevServerOwned' /\ WaitsHolding'
  <2>1. step[c] = "remove" /\ UNCHANGED <<previewVars, draftKills>> /\ (To(c, "rename") \/ step' = step)
    BY <1>10 DEF RemoveProject, budgets
  <2> QED
    BY <1>3, <1>4, <2>1 DEF Steps
<1>11. CASE Edit \/ \E c \in Opener : WriteSource(c) \/ SwapRemoves(c) \/ StarterFile(c)
  BY <1>3, <1>11 DEF Edit, WriteSource, SwapRemoves, StarterFile, budgets
<1>12. UNCHANGED draftVars => UNCHANGED <<step, previewVars, draftKills>>
  BY DEF draftVars, previewVars
<1> QED
  BY <1>3, <1>6, <1>7, <1>8, <1>9, <1>10, <1>11, <1>12, <1>13 DEF DraftsNext

\* A step of one request leaves the others alone.
LEMMA OthersStay ==
  ASSUME DraftsInv, NEW c \in Opener,
         \A d \in Opener : d # c =>
           step'[d] = step[d] /\ staging'[d] = staging[d] /\ reused'[d] = reused[d],
         StagedWhole(c)' /\ ReusedSoon(c)'
  PROVE  \A d \in Opener : StagedWhole(d)' /\ ReusedSoon(d)'
<1>1. ASSUME NEW d \in Opener, d # c PROVE StagedWhole(d)' /\ ReusedSoon(d)'
  <2>1. StagedWhole(d) /\ ReusedSoon(d)
    BY DEF DraftsInv
  <2> QED
    BY <1>1, <2>1 DEF StagedWhole, ReusedSoon
<1> QED
  BY <1>1

\* Every step keeps what a request has staged complete.
LEMMA DraftsRequests ==
  DraftsInv /\ [DraftsNext]_draftVars => \A d \in Opener : StagedWhole(d)' /\ ReusedSoon(d)'
<1> SUFFICES ASSUME DraftsInv, [DraftsNext]_draftVars
             PROVE  \A d \in Opener : StagedWhole(d)' /\ ReusedSoon(d)'
  OBVIOUS
<1> DEFINE Good == \A d \in Opener : StagedWhole(d)' /\ ReusedSoon(d)'
<1>1. /\ \A c \in Opener : StagedWhole(c) /\ ReusedSoon(c)
      /\ DOMAIN staging = Opener /\ reused \in [Opener -> BOOLEAN] /\ DraftsTypeOK
  BY DEF DraftsInv, Trees, DraftsTypeOK
<1>2. CASE UNCHANGED <<step, staging, reused>>
  BY <1>1, <1>2 DEF StagedWhole, ReusedSoon
<1>3. CASE DraftsCrash
  BY <1>1, <1>3 DEF DraftsCrash, StagedWhole, ReusedSoon
<1>4. ASSUME NEW c \in Opener, NEW next \in Steps, To(c, next),
             \A d \in Opener : d # c => staging'[d] = staging[d] /\ reused'[d] = reused[d],
             next \in {"runnable", "swap", "remove", "rename"} /\ ~reused'[c] =>
               Source \subseteq DOMAIN staging'[c],
             next \in {"idle", "source", "remove", "rename", "starter", "preview", "wait"} =>
               ~reused'[c]
      PROVE  Good
  <2>1. step'[c] = next /\ \A d \in Opener : d # c => step'[d] = step[d]
    BY <1>1, <1>4, OneMoves
  <2>2. StagedWhole(c)' /\ ReusedSoon(c)'
    BY <1>4, <2>1 DEF StagedWhole, ReusedSoon
  <2> QED
    BY <1>4, <2>1, <2>2, OthersStay
<1> HIDE DEF Good
<1>5. ASSUME NEW c \in Opener, OpenAppDraft(c) PROVE Good
  <2> DEFINE b == "app.json" \in DOMAIN project
  <2>1. reused' = [reused EXCEPT ![c] = b] /\ UNCHANGED staging
    BY <1>5 DEF OpenAppDraft
  <2>2. (~b /\ To(c, "source")) \/ (b /\ (To(c, "runnable") \/ To(c, "node")))
    BY <1>5 DEF OpenAppDraft
  <2> HIDE DEF b
  <2>3. (reused'[c] <=> b) /\ \A d \in Opener : d # c => reused'[d] = reused[d]
    BY <1>1, <2>1
  <2>4. CASE ~b /\ To(c, "source")
    BY <1>4, <2>1, <2>3, <2>4 DEF Steps
  <2>5. CASE b /\ To(c, "runnable")
    BY <1>4, <2>1, <2>3, <2>5 DEF Steps
  <2>6. CASE b /\ To(c, "node")
    BY <1>4, <2>1, <2>3, <2>6 DEF Steps
  <2> QED
    BY <2>2, <2>4, <2>5, <2>6
<1>6. ASSUME NEW c \in Opener, NEW f, NEW v, staging' = [staging EXCEPT ![c] = PutFile(@, f, v)],
             UNCHANGED <<step, reused>>
      PROVE  Good
  <2>1. /\ DOMAIN staging[c] \subseteq DOMAIN staging'[c]
        /\ \A d \in Opener : d # c => staging'[d] = staging[d]
    BY <1>1, <1>6 DEF PutFile, Overlaid
  <2>2. StagedWhole(c)' /\ ReusedSoon(c)'
    BY <1>1, <1>6, <2>1 DEF StagedWhole, ReusedSoon
  <2> QED
    BY <1>6, <2>1, <2>2, OthersStay DEF Good
<1>7. ASSUME NEW c \in Opener, SourceWritten(c) PROVE Good
  <2>1. To(c, "runnable") /\ Source \subseteq DOMAIN staging[c] /\ UNCHANGED <<staging, reused>>
    BY <1>7 DEF SourceWritten
  <2> QED
    BY <1>4, <2>1 DEF Steps
<1>8. ASSUME NEW c \in Opener, Unpack(c) PROVE Good
  <2>1. step[c] = "runnable" /\ To(c, "swap") /\ UNCHANGED <<staging, reused>>
    BY <1>8 DEF Unpack
  <2>2. ~reused[c] => Source \subseteq DOMAIN staging[c]
    BY <1>1, <2>1 DEF StagedWhole
  <2> QED
    BY <1>4, <2>1, <2>2 DEF Steps
<1>9. ASSUME NEW c \in Opener, OpenFails(c) PROVE Good
  <2>1. To(c, "idle") /\ ~reused'[c]
        /\ \A d \in Opener : d # c => staging'[d] = staging[d] /\ reused'[d] = reused[d]
    BY <1>1, <1>9 DEF OpenFails, Cleaned
  <2> QED
    BY <1>4, <2>1 DEF Steps
<1>10. ASSUME NEW c \in Opener, SwapStaged(c) PROVE Good
  <2>1. /\ step[c] = "swap" /\ ~reused[c] /\ To(c, "remove") /\ UNCHANGED reused
        /\ staging' = [staging EXCEPT ![c] = Overlaid(@, unpacked[c])]
    BY <1>10 DEF SwapStaged
  <2>2. Source \subseteq DOMAIN staging[c]
    BY <1>1, <2>1 DEF StagedWhole
  <2>3. /\ DOMAIN staging[c] \subseteq DOMAIN staging'[c]
        /\ \A d \in Opener : d # c => staging'[d] = staging[d]
    BY <1>1, <2>1 DEF Overlaid
  <2> QED
    BY <1>4, <2>1, <2>2, <2>3 DEF Steps
<1>11. ASSUME NEW c \in Opener, SwapRenames(c) PROVE Good
  <2>1. To(c, "node") /\ UNCHANGED <<staging, reused>>
    BY <1>11 DEF SwapRenames
  <2> QED
    BY <1>4, <2>1 DEF Steps
<1>12. ASSUME NEW c \in Opener, RemoveProject(c) PROVE Good
  <2>1. step[c] = "remove" /\ UNCHANGED <<staging, reused>> /\ (To(c, "rename") \/ step' = step)
    BY <1>12 DEF RemoveProject
  <2>2. ~reused[c] /\ Source \subseteq DOMAIN staging[c]
    BY <1>1, <2>1 DEF StagedWhole, ReusedSoon
  <2> QED
    BY <1>2, <1>4, <2>1, <2>2 DEF Steps, Good
<1>13. ASSUME NEW c \in Opener, RenameProject(c) PROVE Good
  <2>1. /\ step[c] = "rename" /\ (To(c, "node") \/ To(c, "idle")) /\ UNCHANGED reused
        /\ \A d \in Opener : d # c => staging'[d] = staging[d]
    BY <1>1, <1>13 DEF RenameProject, Cleaned
  <2>2. ~reused[c]
    BY <1>1, <2>1 DEF ReusedSoon
  <2> QED
    BY <1>4, <2>1, <2>2 DEF Steps
<1>14. ASSUME NEW c \in Opener, CreateBoilerplate(c) PROVE Good
  <2>1. step[c] = "idle" /\ To(c, "starter") /\ UNCHANGED <<staging, reused>>
    BY <1>14 DEF CreateBoilerplate
  <2>2. ~reused[c]
    BY <1>1, <2>1 DEF ReusedSoon
  <2> QED
    BY <1>4, <2>1, <2>2 DEF Steps
<1>15. ASSUME NEW c \in Opener, StarterDone(c) PROVE Good
  <2>1. /\ step[c] = "starter" /\ (To(c, "node") \/ To(c, "idle")) /\ UNCHANGED reused
        /\ \A d \in Opener : d # c => staging'[d] = staging[d]
    BY <1>1, <1>15 DEF StarterDone, Cleaned
  <2>2. ~reused[c]
    BY <1>1, <2>1 DEF ReusedSoon
  <2> QED
    BY <1>4, <2>1, <2>2 DEF Steps
<1>16. ASSUME NEW c \in Opener, NodeReady(c) PROVE Good
  <2>1. To(c, "preview") /\ UNCHANGED staging /\ ~reused'[c]
        /\ \A d \in Opener : d # c => reused'[d] = reused[d]
    BY <1>1, <1>16 DEF NodeReady
  <2> QED
    BY <1>4, <2>1 DEF Steps
<1>17. ASSUME NEW c \in Opener, StartLivePreview(c) \/ PreviewWaited(c) \/ PreviewTimesOut(c)
       PROVE  Good
  <2>1. /\ step[c] \in {"preview", "wait"} /\ (To(c, "idle") \/ To(c, "wait"))
        /\ UNCHANGED <<staging, reused>>
    BY <1>17 DEF StartLivePreview, PreviewWaited, PreviewTimesOut
  <2>2. ~reused[c]
    BY <1>1, <2>1 DEF ReusedSoon
  <2> QED
    BY <1>4, <2>1, <2>2 DEF Steps
<1>18. ASSUME NEW c \in Opener, WriteSource(c) \/ StarterFile(c) PROVE Good
  BY <1>6, <1>18 DEF WriteSource, StarterFile
<1>19. CASE Edit \/ ClosePreviews \/ \E c \in Opener : SwapRemoves(c)
  BY <1>2, <1>19 DEF Edit, ClosePreviews, SwapRemoves, Good
<1>20. UNCHANGED draftVars => UNCHANGED <<step, staging, reused>>
  BY DEF draftVars
<1> QED
  BY <1>2, <1>3, <1>5, <1>7, <1>8, <1>9, <1>10, <1>11, <1>12, <1>13, <1>14, <1>15, <1>16, <1>17,
     <1>18, <1>19, <1>20 DEF DraftsNext, Good

\* Every step keeps drafts whole.
LEMMA DraftsWhole == DraftsInv /\ [DraftsNext]_draftVars => DraftWhole'
<1> SUFFICES ASSUME DraftsInv, [DraftsNext]_draftVars, "app.json" \in DOMAIN project', ~torn'
             PROVE  Source \subseteq DOMAIN project'
  BY DEF DraftWhole
<1>1. "app.json" \in DOMAIN project /\ ~torn => Source \subseteq DOMAIN project
  BY DEF DraftsInv, DraftWhole
<1>2. Trees /\ \A c \in Opener : StagedWhole(c) /\ ReusedSoon(c)
  BY DEF DraftsInv
<1>3. CASE UNCHANGED <<project, torn>>
  BY <1>1, <1>3
<1>4. CASE Edit
  BY <1>4 DEF Edit
<1>5. ASSUME NEW c \in Opener, SwapRemoves(c) PROVE Source \subseteq DOMAIN project'
  <2>1. UNCHANGED torn /\ \E f \in Content : project' = Remaining(project, {f})
    BY <1>5 DEF SwapRemoves
  <2>2. DOMAIN project' \subseteq DOMAIN project /\ DOMAIN project \cap Source \subseteq DOMAIN project'
    BY <2>1, FileNames DEF Remaining
  <2> QED
    BY <1>1, <2>1, <2>2
<1>6. ASSUME NEW c \in Opener, SwapRenames(c) PROVE Source \subseteq DOMAIN project'
  <2>1. UNCHANGED torn /\ DOMAIN project' = DOMAIN project \cup DOMAIN unpacked[c]
    BY <1>6 DEF SwapRenames, Overlaid
  <2>2. "app.json" \notin DOMAIN unpacked[c]
    BY <1>2, FileNames DEF Trees
  <2> QED
    BY <1>1, <2>1, <2>2
<1>7. ASSUME NEW c \in Opener, RemoveProject(c) PROVE Source \subseteq DOMAIN project'
  <2>1. CASE UNCHANGED <<project, torn>>
    BY <1>3, <2>1
  <2>2. CASE torn' = (torn \/ "app.json" \in DOMAIN project) /\ \E f : project' = Remaining(project, {f})
    BY <1>1, <2>2 DEF Remaining
  <2> QED
    BY <1>7, <2>1, <2>2 DEF RemoveProject
<1>8. ASSUME NEW c \in Opener, RenameProject(c) PROVE Source \subseteq DOMAIN project'
  <2>1. step[c] = "rename" /\ (project' = staging[c] \/ project' = project) /\ torn' = torn
    BY <1>8 DEF RenameProject
  <2>2. Source \subseteq DOMAIN staging[c]
    BY <1>2, <2>1 DEF StagedWhole, ReusedSoon
  <2> QED
    BY <1>3, <2>1, <2>2
<1>9. ASSUME NEW c \in Opener, StarterFile(c) PROVE Source \subseteq DOMAIN project'
  BY <1>9 DEF StarterFile
<1>10. CASE \/ ClosePreviews \/ DraftsCrash
            \/ \E c \in Opener :
                 \/ OpenAppDraft(c) \/ SourceWritten(c) \/ CreateBoilerplate(c) \/ NodeReady(c)
                 \/ StartLivePreview(c) \/ PreviewWaited(c) \/ WriteSource(c) \/ Unpack(c)
                 \/ OpenFails(c) \/ SwapStaged(c) \/ StarterDone(c) \/ PreviewTimesOut(c)
  BY <1>3, <1>10 DEF ClosePreviews, DraftsCrash, OpenAppDraft, SourceWritten, CreateBoilerplate,
       NodeReady, StartLivePreview, PreviewWaited, PreviewTimesOut, WriteSource, Unpack, OpenFails, SwapStaged,
       StarterDone
<1>11. UNCHANGED draftVars => UNCHANGED <<project, torn>>
  BY DEF draftVars
<1> QED
  BY <1>3, <1>4, <1>5, <1>6, <1>7, <1>8, <1>9, <1>10, <1>11 DEF DraftsNext

\* The initial states have the invariant.
LEMMA DraftsStart == DraftsInit => DraftsInv
<1> SUFFICES ASSUME DraftsInit PROVE DraftsInv
  OBVIOUS
<1>1. Verified(Nothing) /\ DOMAIN Nothing = {}
  BY NothingVerified
<1>2. /\ project = Nothing /\ step = [c \in Opener |-> "idle"] /\ reused = [c \in Opener |-> FALSE]
      /\ staging = [c \in Opener |-> Nothing] /\ unpacked = [c \in Opener |-> Nothing]
      /\ torn = FALSE /\ preview = "none" /\ holder = "none" /\ servers = 0
      /\ draftKills = 0 /\ edits = 0
  BY DEF DraftsInit
<1>3. /\ \A c \in Opener : staging[c] = Nothing /\ unpacked[c] = Nothing /\ step[c] = "idle" /\ ~reused[c]
      /\ DOMAIN staging = Opener /\ DOMAIN unpacked = Opener
  BY <1>2
<1>4. Trees
  BY <1>1, <1>2, <1>3 DEF Trees
<1>5. DraftsTypeOK
  <2>1. reused \in [Opener -> BOOLEAN] /\ torn \in BOOLEAN
    BY <1>2
  <2>2. draftKills = 0 /\ edits = 0 /\ 0 <= MaxMishaps
    BY <1>2, DraftsAssumption
  <2> QED
    BY <1>1, <1>2, <1>3, <2>1, <2>2 DEF DraftsTypeOK
<1>6. DraftWhole /\ \A c \in Opener : StagedWhole(c) /\ ReusedSoon(c)
  BY <1>1, <1>2, <1>3 DEF DraftWhole, StagedWhole, ReusedSoon
<1>7. DevServerOwned /\ WaitsHolding
  BY <1>2, <1>3, DraftsAssumption DEF DevServerOwned, WaitsHolding
<1> QED
  BY <1>4, <1>5, <1>6, <1>7 DEF DraftsInv

\* Every step keeps the invariant.
LEMMA DraftsStep == DraftsInv /\ [DraftsNext]_draftVars => DraftsInv'
<1>1. ASSUME DraftsInv, [DraftsNext]_draftVars PROVE DraftsInv'
  <2>1. DraftsTypeOK' /\ Trees' /\ DraftWhole'
    BY <1>1, DraftsTypes, DraftsTrees, DraftsWhole
  <2>2. \A c \in Opener : StagedWhole(c)' /\ ReusedSoon(c)'
    BY <1>1, DraftsRequests
  <2>3. DevServerOwned' /\ WaitsHolding'
    BY <1>1, DraftsServers
  <2> QED
    BY <2>1, <2>2, <2>3 DEF DraftsInv
<1> QED
  BY <1>1

\* openAppDraft, materializeStoreDraft and startLivePreview: whatever requests
\* overlap, fail or are killed, no unverified source reaches the draft, a draft
\* with an app.json has its sources, and requests add no dev server to the one
\* that has an owner: what runs besides was left by as many kills.
THEOREM DraftsStayWhole == DraftsSpec => []DraftsSafe
<1>1. DraftsInv => DraftsSafe
  <2>1. DraftsInv => OnlyVerified
    BY DEF DraftsInv, Trees, Verified, OnlyVerified
  <2> QED
    BY <2>1 DEF DraftsInv, DraftsSafe
<1> QED
  BY <1>1, DraftsStart, DraftsStep, PTL DEF DraftsSpec

\* A source that the user edited is only replaced by the user, or by a request
\* that looked before the draft was there.
THEOREM EditedSourcesKept == DraftsSpec => [][EditsKept]_draftVars
<1>1. ASSUME DraftsInv, [DraftsNext]_draftVars
      PROVE  [EditsKept]_draftVars
  <2> SUFFICES ASSUME NEW f \in Source \cap DOMAIN project,
                      ~(f \in DOMAIN project' /\ project'[f] = project[f])
               PROVE  edits' # edits \/ \E c \in Opener : step[c] \in {"remove", "starter"} /\ ~reused[c]
    BY DEF EditsKept
  <2>1. Trees /\ DraftsTypeOK /\ \A c \in Opener : ReusedSoon(c)
    BY <1>1 DEF DraftsInv
  <2>2. project' # project
    OBVIOUS
  <2>3. CASE Edit
    BY <2>1, <2>3 DEF Edit, DraftsTypeOK
  <2>4. ASSUME NEW c \in Opener, RemoveProject(c) \/ StarterFile(c)
        PROVE  step[c] \in {"remove", "starter"} /\ ~reused[c]
    BY <2>1, <2>4 DEF RemoveProject, StarterFile, ReusedSoon
  <2>5. ASSUME NEW c \in Opener, SwapRemoves(c) PROVE FALSE
    <3>1. PICK g \in Content : project' = Remaining(project, {g})
      BY <2>5 DEF SwapRemoves
    <3>2. f # g
      BY FileNames
    <3> QED
      BY <3>1, <3>2 DEF Remaining
  <2>6. ASSUME NEW c \in Opener, SwapRenames(c) PROVE FALSE
    <3>1. project' = Overlaid(project, unpacked[c])
      BY <2>6 DEF SwapRenames
    <3>2. f \notin DOMAIN unpacked[c]
      BY <2>1, FileNames DEF Trees
    <3> QED
      BY <3>1, <3>2 DEF Overlaid
  <2>7. ASSUME NEW c \in Opener, RenameProject(c) PROVE FALSE
    <3>1. project = Nothing
      BY <2>2, <2>7 DEF RenameProject
    <3> QED
      BY <3>1, NothingVerified
  <2>8. \/ Edit
        \/ \E c \in Opener : \/ RemoveProject(c) \/ StarterFile(c) \/ SwapRemoves(c) \/ SwapRenames(c)
                             \/ RenameProject(c)
    BY <1>1, <2>2 DEF DraftsNext, draftVars, DraftsCrash, ClosePreviews, OpenAppDraft, WriteSource,
         SourceWritten, Unpack, OpenFails, SwapStaged, CreateBoilerplate, StarterDone, NodeReady,
         StartLivePreview, PreviewWaited, PreviewTimesOut
  <2> QED
    BY <2>3, <2>4, <2>5, <2>6, <2>7, <2>8
<1> QED
  BY <1>1, DraftsStart, DraftsStep, PTL DEF DraftsSpec

-----------------------------------------------------------------------------
(* The node toolchain *)

\* Types of the PATH and of the installation.
NodeTypes ==
  /\ path \in Seq(Dirs) /\ seen \in [Hydrators -> Seq(Dirs)]
  /\ hydrated \in 0 .. Len(Extra) + 2 /\ nodeDirs \subseteq Dirs
  /\ pc \in [Hydrators -> NodeSteps]
  /\ index \in Indexes \cup {<<>>} /\ verified \in Seq(Parts)
  /\ staged \subseteq Parts /\ crashes \in 0 .. MaxCrashes

\* nodeRuntimeMu: one request looks and installs at a time, and the start of
\* the agent never installs.
Installing == {"install", "extract", "remove", "rename"}
OneInstaller ==
  /\ \A c, d \in Caller :
       pc[c] \notin {"idle", "ok", "failed"} /\ pc[d] \notin {"idle", "ok", "failed"} => c = d
  /\ Boot \in DOMAIN pc /\ pc[Boot] \notin Installing

\* pathHydrationMu: one caller hydrates while hydrated counts, and nobody goes
\* on before it is done.
HydrationOrder ==
  /\ \A c \in Hydrators : pc[c] = "extra" => hydrated \in 1 .. Len(Extra) + 1
  /\ \A c \in Hydrators : pc[c] = "setExtra" => hydrated \in 1 .. Len(Extra)
  /\ \A c, d \in Hydrators :
       pc[c] \in {"extra", "setExtra"} /\ pc[d] \in {"extra", "setExtra"} => c = d
  /\ \A c \in Hydrators :
       pc[c] \in {"look", "prepend", "set"} \cup Installing => hydrated = Len(Extra) + 2

\* What a prepend has read is on the PATH, which has grown meanwhile by the
\* managed directory at most.
SeenKept ==
  \A c \in Hydrators :
    /\ pc[c] \in {"set", "setExtra"} => Range(seen[c]) \subseteq Range(path)
    /\ pc[c] = "setExtra" => Range(path) \subseteq Range(seen[c])
    /\ pc[c] = "set" => Range(path) \subseteq Range(seen[c]) \cup {Managed}

\* An installation starts without a toolchain and stages one archive, of the
\* release that selectLatestLTS has chosen.
StagesArchive ==
  /\ ToolchainWhole
  /\ \A c \in Caller :
       /\ pc[c] \in Installing => toolchain = {}
       /\ pc[c] = "extract" => staged \cup Range(verified) \in {Parts, {"lib", "node"}}
       /\ pc[c] \in {"remove", "rename"} => staged = Parts
  /\ index # <<>> => chosen = SelectLatestLTS(index)

\* A request that went on has found node and npm.
WentOn == \A c \in Caller : pc[c] = "ok" => NodeAndNpmAvailable

\* The inductive invariant of the node toolchain.
NodeInv == NodeTypes /\ OneInstaller /\ HydrationOrder /\ SeenKept /\ StagesArchive /\ WentOn

\* A set of naturals that is not empty has a least member.
LEMMA Least ==
  ASSUME NEW T, T \subseteq Nat, T # {}
  PROVE  \E m \in T : \A k \in T : m <= k
<1> DEFINE less == {ss \in Nat \X Nat : ss[1] < ss[2]}
<1>1. IsWellFoundedOn(less, Nat)
  BY NatLessThanWellFounded DEF OpToRel
<1>2. PICK m \in T : \A y \in T : <<y, m>> \notin less
  BY <1>1, WFMin
<1>3. \A k \in T : ~(k < m)
  BY <1>2
<1> QED
  BY <1>3

\* Induction, for a set in place of a predicate.
LEMMA Counting ==
  ASSUME NEW S, 0 \in S, \A n \in Nat : n \in S => n + 1 \in S
  PROVE  Nat \subseteq S
<1> SUFFICES ASSUME Nat \ S # {} PROVE FALSE
  OBVIOUS
<1>1. PICK m \in Nat \ S : \A k \in Nat \ S : m <= k
  BY Least
<1>2. m # 0 /\ m - 1 \in Nat /\ m - 1 \in S
  BY <1>1
<1>3. (m - 1) + 1 \in S
  BY <1>2
<1> QED
  BY <1>1, <1>3


\* The entry that the loop of mergePathEntries adds is there once.
LEMMA EntryAdded ==
  ASSUME NEW D, NEW entries \in Seq(D), NEW entry \in D
  PROVE  /\ AddEntry(entries, entry) \in Seq(D)
         /\ Range(AddEntry(entries, entry)) = Range(entries) \cup {entry}
<1>1. CASE entry \in Range(entries)
  BY <1>1 DEF AddEntry
<1>2. CASE entry \notin Range(entries)
  <2>1. AddEntry(entries, entry) = Append(entries, entry)
    BY <1>2 DEF AddEntry
  <2> QED
    BY <2>1 DEF Range
<1> QED
  BY <1>1, <1>2

\* The loop is defined for every number of rounds.
LEMMA RoundsDefined ==
  ASSUME NEW entries
  PROVE  \A n \in Nat : \E g :
           g = [i \in 0 .. n |-> IF i = 0 THEN <<>> ELSE AddEntry(g[i - 1], entries[i])]
<1> DEFINE Rounds(g, n) ==
             g = [i \in 0 .. n |-> IF i = 0 THEN <<>> ELSE AddEntry(g[i - 1], entries[i])]
           S == {n \in Nat : \E g : Rounds(g, n)}
<1>1. 0 \in S
  <2>1. Rounds([i \in 0 .. 0 |-> <<>>], 0)
    OBVIOUS
  <2> QED
    BY <2>1
<1>2. ASSUME NEW n \in Nat, n \in S PROVE n + 1 \in S
  <2>1. PICK g : Rounds(g, n)
    BY <1>2
  <2> DEFINE h == [i \in 0 .. n + 1 |-> IF i = n + 1 THEN AddEntry(g[n], entries[n + 1]) ELSE g[i]]
  <2>2. ASSUME NEW i \in 0 .. n + 1
        PROVE  h[i] = IF i = 0 THEN <<>> ELSE AddEntry(h[i - 1], entries[i])
    <3>1. CASE i = n + 1
      <4>1. h[i] = AddEntry(g[n], entries[i]) /\ h[i - 1] = g[n] /\ i # 0
        BY <3>1
      <4> QED
        BY <4>1
    <3>2. CASE i \in 1 .. n
      <4>1. h[i] = g[i] /\ h[i - 1] = g[i - 1] /\ i # 0 /\ i \in 0 .. n
        BY <3>2
      <4>2. g[i] = AddEntry(g[i - 1], entries[i])
        BY <2>1, <4>1
      <4> QED
        BY <4>1, <4>2
    <3>3. CASE i = 0
      <4>1. h[i] = g[i] /\ i \in 0 .. n
        BY <3>3
      <4> QED
        BY <2>1, <3>3, <4>1
    <3> QED
      BY <3>1, <3>2, <3>3
  <2>3. h = [i \in 0 .. n + 1 |-> h[i]]
    OBVIOUS
  <2> HIDE DEF h
  <2>4. Rounds(h, n + 1)
    BY <2>2, <2>3
  <2> QED
    BY <2>4
<1> HIDE DEF S
<1>3. Nat \subseteq S
  BY <1>1, <1>2, Counting
<1> QED
  BY <1>3 DEF S

\* mergePathEntries keeps the entries of both lists, and adds none.
LEMMA Merged ==
  ASSUME NEW D, NEW primary \in Seq(D), NEW fallback \in Seq(D)
  PROVE  /\ MergePathEntries(primary, fallback) \in Seq(D)
         /\ Range(MergePathEntries(primary, fallback)) = Range(primary) \cup Range(fallback)
<1> DEFINE entries == primary \o fallback
           count == Len(entries)
           merged == CHOOSE g : g = [n \in 0 .. count |->
                       IF n = 0 THEN <<>> ELSE AddEntry(g[n - 1], entries[n])]
           Upto(n) == {entries[j] : j \in 1 .. n}
           S == {n \in Nat : n <= count => merged[n] \in Seq(D) /\ Range(merged[n]) = Upto(n)}
<1>1. entries \in Seq(D) /\ count \in Nat
  OBVIOUS
<1>2. Range(primary) \cup Range(fallback) = Upto(count)
  <2>1. Range(primary) \subseteq Upto(count)
    <3> SUFFICES ASSUME NEW i \in 1 .. Len(primary)
      PROVE  \E j \in 1 .. count : entries[j] = primary[i]
      BY DEF Range
    <3>1. i \in 1 .. count /\ entries[i] = primary[i]
      OBVIOUS
    <3> QED
      BY <3>1
  <2>2. Range(fallback) \subseteq Upto(count)
    <3> SUFFICES ASSUME NEW i \in 1 .. Len(fallback)
                 PROVE \E j \in 1 .. count : entries[j] = fallback[i]
      BY DEF Range
    <3>1. Len(primary) + i \in 1 .. count /\ entries[Len(primary) + i] = fallback[i]
      OBVIOUS
    <3> QED
      BY <3>1
  <2>3. ASSUME NEW j \in 1 .. count PROVE entries[j] \in Range(primary) \cup Range(fallback)
    <3>1. CASE j <= Len(primary)
      <4>1. entries[j] = primary[j] /\ j \in DOMAIN primary
        BY <3>1
      <4> QED
        BY <4>1 DEF Range
    <3>2. CASE j > Len(primary)
      <4>1. entries[j] = fallback[j - Len(primary)] /\ j - Len(primary) \in DOMAIN fallback
        BY <3>2
      <4> QED
        BY <4>1 DEF Range
    <3> QED
      BY <3>1, <3>2
  <2> HIDE DEF entries, count
  <2> QED
    BY <2>1, <2>2, <2>3
<1>3. merged = [n \in 0 .. count |-> IF n = 0 THEN <<>> ELSE AddEntry(merged[n - 1], entries[n])]
  BY <1>1, RoundsDefined
<1>4. MergePathEntries(primary, fallback) = merged[count]
  BY DEF MergePathEntries
<1> HIDE DEF merged, entries, count
<1>5. 0 \in S
  <2>1. merged[0] = <<>>
    BY <1>1, <1>3
  <2>2. Range(<<>>) = {} /\ Upto(0) = {}
    BY DEF Range
  <2>3. <<>> \in Seq(D)
    OBVIOUS
  <2> HIDE DEF Upto
  <2> QED
    BY <2>1, <2>2, <2>3
<1> HIDE DEF Upto
<1>6. ASSUME NEW n \in Nat, n \in S PROVE n + 1 \in S
  <2> SUFFICES ASSUME n + 1 <= count
               PROVE  merged[n + 1] \in Seq(D) /\ Range(merged[n + 1]) = Upto(n + 1)
    OBVIOUS
  <2>1. merged[n] \in Seq(D) /\ Range(merged[n]) = Upto(n)
    BY <1>1, <1>6
  <2>2. merged[n + 1] = AddEntry(merged[n], entries[n + 1]) /\ entries[n + 1] \in D
    <3>1. n + 1 \in 0 .. count /\ n + 1 # 0 /\ n + 1 \in 1 .. Len(entries) /\ (n + 1) - 1 = n
      BY <1>1 DEF count
    <3>2. entries[n + 1] \in D
      BY <1>1, <3>1, ElementOfSeq
    <3>3. merged[n + 1] = AddEntry(merged[(n + 1) - 1], entries[n + 1])
      BY <1>3, <3>1
    <3> QED
      BY <3>1, <3>2, <3>3
  <2>3. Upto(n + 1) = Upto(n) \cup {entries[n + 1]}
    <3>1. \A j : j \in 1 .. n + 1 <=> j \in 1 .. n \/ j = n + 1
      OBVIOUS
    <3> QED
      BY <3>1 DEF Upto
  <2> HIDE DEF S
  <2>4. /\ AddEntry(merged[n], entries[n + 1]) \in Seq(D)
        /\ Range(AddEntry(merged[n], entries[n + 1])) = Range(merged[n]) \cup {entries[n + 1]}
    <3> DEFINE list == merged[n]
               entry == entries[n + 1]
    <3>1. list \in Seq(D) /\ entry \in D
      BY <2>1, <2>2
    <3> HIDE DEF list, entry
    <3>2. AddEntry(list, entry) \in Seq(D) /\ Range(AddEntry(list, entry)) = Range(list) \cup {entry}
      BY <3>1, EntryAdded
    <3> QED
      BY <3>2 DEF list, entry
  <2> QED
    BY <2>1, <2>2, <2>3, <2>4
<1> HIDE DEF S
<1>7. count \in S
  BY <1>1, <1>5, <1>6, Counting
<1> QED
  BY <1>1, <1>2, <1>4, <1>7 DEF S

\* A list of one directory.
LEMMA OneEntry ==
  ASSUME NEW D, NEW d \in D
  PROVE  <<d>> \in Seq(D) /\ Range(<<d>>) = {d}
BY DEF Range

\* The four places that set the PATH: the shell and the extra directories while
\* hydrating, the managed directory, and a new process.
LEMMA PathSet ==
  ASSUME NodeInv, NodeRuntimeNext
  PROVE  /\ path' \in Seq(Dirs)
         /\ Range(path) \subseteq Range(path') \/ AgentCrashes
         /\ \A c \in Hydrators :
              /\ HydrateSets(c) \/ PrependSets(c) => Range(seen[c]) \subseteq Range(path')
              /\ PrependSets(c) => Range(path') = Range(seen[c]) \cup {Managed}
<1> USE NodeRuntimeAssumption DEF NodeInv, NodeTypes
<1>7. \A p, f \in Seq(Dirs) :
        /\ MergePathEntries(p, f) \in Seq(Dirs)
        /\ Range(MergePathEntries(p, f)) = Range(p) \cup Range(f)
  BY Merged
<1>1. ASSUME NEW c \in Hydrators, HydrateShell(c)
      PROVE  path' \in Seq(Dirs) /\ Range(path) \subseteq Range(path')
  <2>1. CASE path' = MergePathEntries(Login, path)
    BY <2>1, Merged
  <2>2. CASE path' = path
    BY <2>2
  <2> QED
    BY <1>1, <2>1, <2>2 DEF HydrateShell
<1>2. ASSUME NEW c \in Hydrators, HydrateSets(c)
      PROVE  /\ path' \in Seq(Dirs) /\ Range(path) \subseteq Range(path')
             /\ Range(seen[c]) \subseteq Range(path')
  <2>1. hydrated \in 1 .. Len(Extra) /\ Range(path) \subseteq Range(seen[c])
    BY <1>2 DEF HydrateSets, HydrationOrder, SeenKept
  <2>2. Extra[hydrated] \in Dirs
    BY <2>1, ElementOfSeq
  <2>3. <<Extra[hydrated]>> \in Seq(Dirs) /\ seen[c] \in Seq(Dirs)
    BY <2>2, OneEntry
  <2>4. path' = MergePathEntries(<<Extra[hydrated]>>, seen[c])
    BY <1>2 DEF HydrateSets
  <2> HIDE DEF NodeInv, NodeTypes
  <2>5. path' \in Seq(Dirs)
        /\ Range(path') = Range(<<Extra[hydrated]>>) \cup Range(seen[c])
    BY <1>7, <2>3, <2>4
  <2> QED
    BY <2>1, <2>5
<1>3. ASSUME NEW c \in Hydrators, PrependSets(c)
      PROVE  /\ path' \in Seq(Dirs) /\ Range(path) \subseteq Range(path')
             /\ Range(path') = Range(seen[c]) \cup {Managed}
  <2>1. Range(path) \subseteq Range(seen[c]) \cup {Managed}
    BY <1>3 DEF PrependSets, SeenKept
  <2>2. Managed \in Dirs /\ seen[c] \in Seq(Dirs)
    BY DEF Dirs
  <2>3. <<Managed>> \in Seq(Dirs) /\ Range(<<Managed>>) = {Managed}
    BY <2>2, OneEntry
  <2>4. path' = MergePathEntries(<<Managed>>, seen[c])
    BY <1>3 DEF PrependSets
  <2> HIDE DEF NodeInv, NodeTypes
  <2>5. path' \in Seq(Dirs) /\ Range(path') = {Managed} \cup Range(seen[c])
    BY <1>7, <2>2, <2>3, <2>4
  <2> QED
    BY <2>1, <2>5
<1>4. CASE AgentCrashes
  <2>1. crashes' = crashes + 1 /\ path' = Inherited
    BY <1>4 DEF AgentCrashes
  <2>2. \A c \in Hydrators : ~HydrateSets(c) /\ ~PrependSets(c)
    BY <2>1 DEF HydrateSets, PrependSets
  <2> QED
    BY <1>4, <2>1, <2>2
<1>5. CASE UNCHANGED path /\ ~AgentCrashes
  BY <1>5, <1>2, <1>3
<1>6. \/ AgentCrashes \/ UNCHANGED path
      \/ \E c \in Hydrators : HydrateShell(c) \/ HydrateSets(c) \/ PrependSets(c)
  BY DEF NodeRuntimeNext, Enter, HydratedAlready, PrependReads, HydrateEnds, Look, Download,
         InstallFails, Extract, Extracted, RemoveOld, RenameNew, Again
<1> HIDE DEF NodeInv
<1> QED
  BY <1>1, <1>2, <1>3, <1>4, <1>5, <1>6

\* Every step keeps the types.
LEMMA NodeTypesStep == ASSUME NodeInv, NodeRuntimeNext PROVE NodeTypes'
<1> USE PathSet, NodeRuntimeAssumption DEF NodeInv, NodeTypes, Goto, NodeSteps, stagingVars,
  diskVars
<1>1. CASE AgentCrashes
  BY <1>1 DEF AgentCrashes
<1>2. ASSUME NEW c \in Hydrators, Enter(c) PROVE NodeTypes'
  BY <1>2 DEF Enter
<1>3. ASSUME NEW c \in Hydrators, HydrateShell(c) PROVE NodeTypes'
  BY <1>3 DEF HydrateShell
<1>4. ASSUME NEW c \in Hydrators, HydratedAlready(c) PROVE NodeTypes'
  BY <1>4 DEF HydratedAlready
<1>5. ASSUME NEW c \in Hydrators, PrependReads(c) PROVE NodeTypes'
  BY <1>5 DEF PrependReads
<1>6. ASSUME NEW c \in Hydrators, HydrateSets(c) PROVE NodeTypes'
  <2>1. hydrated + 1 \in 0 .. Len(Extra) + 2
    BY <1>6 DEF HydrateSets, HydrationOrder
  <2> QED
    BY <1>6, <2>1 DEF HydrateSets
<1>7. ASSUME NEW c \in Hydrators, HydrateEnds(c) PROVE NodeTypes'
  BY <1>7 DEF HydrateEnds
<1>8. ASSUME NEW c \in Hydrators, PrependSets(c) PROVE NodeTypes'
  BY <1>8 DEF PrependSets
<1>9. ASSUME NEW c \in Hydrators, Look(c) PROVE NodeTypes'
  BY <1>9 DEF Look
<1>10. ASSUME NEW c \in Hydrators, Download(c) PROVE NodeTypes'
  <2>1. Archives \subseteq Seq(Parts)
    BY DEF Archives, Parts
  <2>3. verified' \in Seq(Parts)
    BY <1>10, <2>1 DEF Download
  <2> QED
    BY <1>10, <2>3 DEF Download
<1>11. ASSUME NEW c \in Hydrators, InstallFails(c) PROVE NodeTypes'
  BY <1>11 DEF InstallFails
<1>12. ASSUME NEW c \in Hydrators, Extract(c) PROVE NodeTypes'
  BY <1>12 DEF Extract
<1>13. ASSUME NEW c \in Hydrators, Extracted(c) PROVE NodeTypes'
  BY <1>13 DEF Extracted
<1>14. ASSUME NEW c \in Hydrators, RemoveOld(c) PROVE NodeTypes'
  BY <1>14 DEF RemoveOld
<1>15. ASSUME NEW c \in Hydrators, RenameNew(c) PROVE NodeTypes'
  BY <1>15 DEF RenameNew
<1>16. ASSUME NEW c \in Hydrators, Again(c) PROVE NodeTypes'
  BY <1>16 DEF Again
<1> QED
  BY <1>1, <1>2, <1>3, <1>4, <1>5, <1>6, <1>7, <1>8, <1>9, <1>10, <1>11, <1>12, <1>13, <1>14,
    <1>15, <1>16 DEF NodeRuntimeNext

\* Every step keeps nodeRuntimeMu.
LEMMA OneInstallerStep == ASSUME NodeInv, NodeRuntimeNext PROVE OneInstaller'
<1> USE NodeRuntimeAssumption DEF NodeInv, NodeTypes, OneInstaller, Installing, Goto, Hydrators
<1>1. CASE AgentCrashes
  BY <1>1 DEF AgentCrashes
<1>2. ASSUME NEW c \in Hydrators, Enter(c) PROVE OneInstaller'
  BY <1>2 DEF Enter
<1>3. ASSUME NEW c \in Hydrators, HydrateShell(c) PROVE OneInstaller'
  BY <1>3 DEF HydrateShell
<1>4. ASSUME NEW c \in Hydrators, HydratedAlready(c) PROVE OneInstaller'
  BY <1>4 DEF HydratedAlready
<1>5. ASSUME NEW c \in Hydrators, PrependReads(c) PROVE OneInstaller'
  BY <1>5 DEF PrependReads
<1>6. ASSUME NEW c \in Hydrators, HydrateSets(c) PROVE OneInstaller'
  BY <1>6 DEF HydrateSets
<1>7. ASSUME NEW c \in Hydrators, HydrateEnds(c) PROVE OneInstaller'
  BY <1>7 DEF HydrateEnds
<1>8. ASSUME NEW c \in Hydrators, PrependSets(c) PROVE OneInstaller'
  BY <1>8 DEF PrependSets
<1>9. ASSUME NEW c \in Hydrators, Look(c) PROVE OneInstaller'
  BY <1>9 DEF Look
<1>10. ASSUME NEW c \in Hydrators, Download(c) PROVE OneInstaller'
  BY <1>10 DEF Download
<1>11. ASSUME NEW c \in Hydrators, InstallFails(c) PROVE OneInstaller'
  BY <1>11 DEF InstallFails
<1>12. ASSUME NEW c \in Hydrators, Extract(c) PROVE OneInstaller'
  BY <1>12 DEF Extract
<1>13. ASSUME NEW c \in Hydrators, Extracted(c) PROVE OneInstaller'
  BY <1>13 DEF Extracted
<1>14. ASSUME NEW c \in Hydrators, RemoveOld(c) PROVE OneInstaller'
  BY <1>14 DEF RemoveOld
<1>15. ASSUME NEW c \in Hydrators, RenameNew(c) PROVE OneInstaller'
  BY <1>15 DEF RenameNew
<1>16. ASSUME NEW c \in Hydrators, Again(c) PROVE OneInstaller'
  BY <1>16 DEF Again
<1> QED
  BY <1>1, <1>2, <1>3, <1>4, <1>5, <1>6, <1>7, <1>8, <1>9, <1>10, <1>11, <1>12, <1>13, <1>14,
    <1>15, <1>16 DEF NodeRuntimeNext

\* Every step keeps pathHydrationMu.
LEMMA HydrationStep == ASSUME NodeInv, NodeRuntimeNext PROVE HydrationOrder'
<1> USE NodeRuntimeAssumption DEF NodeInv, NodeTypes, HydrationOrder, Installing, Goto
<1>1. CASE AgentCrashes
  BY <1>1 DEF AgentCrashes
<1>2. ASSUME NEW c \in Hydrators, Enter(c) PROVE HydrationOrder'
  BY <1>2 DEF Enter
<1>3. ASSUME NEW c \in Hydrators, HydrateShell(c) PROVE HydrationOrder'
  BY <1>3 DEF HydrateShell
<1>4. ASSUME NEW c \in Hydrators, HydratedAlready(c) PROVE HydrationOrder'
  BY <1>4 DEF HydratedAlready
<1>5. ASSUME NEW c \in Hydrators, PrependReads(c) PROVE HydrationOrder'
  BY <1>5 DEF PrependReads
<1>6. ASSUME NEW c \in Hydrators, HydrateSets(c) PROVE HydrationOrder'
  BY <1>6 DEF HydrateSets
<1>7. ASSUME NEW c \in Hydrators, HydrateEnds(c) PROVE HydrationOrder'
  BY <1>7 DEF HydrateEnds
<1>8. ASSUME NEW c \in Hydrators, PrependSets(c) PROVE HydrationOrder'
  BY <1>8 DEF PrependSets
<1>9. ASSUME NEW c \in Hydrators, Look(c) PROVE HydrationOrder'
  BY <1>9 DEF Look
<1>10. ASSUME NEW c \in Hydrators, Download(c) PROVE HydrationOrder'
  BY <1>10 DEF Download
<1>11. ASSUME NEW c \in Hydrators, InstallFails(c) PROVE HydrationOrder'
  BY <1>11 DEF InstallFails
<1>12. ASSUME NEW c \in Hydrators, Extract(c) PROVE HydrationOrder'
  BY <1>12 DEF Extract
<1>13. ASSUME NEW c \in Hydrators, Extracted(c) PROVE HydrationOrder'
  BY <1>13 DEF Extracted
<1>14. ASSUME NEW c \in Hydrators, RemoveOld(c) PROVE HydrationOrder'
  BY <1>14 DEF RemoveOld
<1>15. ASSUME NEW c \in Hydrators, RenameNew(c) PROVE HydrationOrder'
  BY <1>15 DEF RenameNew
<1>16. ASSUME NEW c \in Hydrators, Again(c) PROVE HydrationOrder'
  BY <1>16 DEF Again
<1> QED
  BY <1>1, <1>2, <1>3, <1>4, <1>5, <1>6, <1>7, <1>8, <1>9, <1>10, <1>11, <1>12, <1>13, <1>14,
    <1>15, <1>16 DEF NodeRuntimeNext

\* Every step keeps what the prepends have read.
LEMMA SeenStep == ASSUME NodeInv, NodeRuntimeNext PROVE SeenKept'
<1> USE DEF NodeInv, NodeTypes, SeenKept, Goto
<1>1. CASE AgentCrashes
  BY <1>1 DEF AgentCrashes
<1>2. ASSUME NEW c \in Hydrators, Enter(c) PROVE SeenKept'
  BY <1>2 DEF Enter
<1>3. ASSUME NEW c \in Hydrators, HydrateShell(c) PROVE SeenKept'
  <2>1. \A d \in Hydrators : pc[d] \notin {"set", "setExtra"}
    BY <1>3 DEF HydrateShell, HydrationOrder
  <2>2. \A d \in Hydrators : pc'[d] \notin {"set", "setExtra"}
    BY <1>3, <2>1 DEF HydrateShell
  <2> QED
    BY <2>2
<1>4. ASSUME NEW c \in Hydrators, HydratedAlready(c) PROVE SeenKept'
  BY <1>4 DEF HydratedAlready
<1>5. ASSUME NEW c \in Hydrators, PrependReads(c) PROVE SeenKept'
  BY <1>5 DEF PrependReads
<1>6. ASSUME NEW c \in Hydrators, HydrateSets(c) PROVE SeenKept'
  <2>1. \A d \in Hydrators : pc[d] = "setExtra" => d = c
    BY <1>6 DEF HydrateSets, HydrationOrder
  <2>2. \A d \in Hydrators : pc[d] # "set"
    BY <1>6 DEF HydrateSets, HydrationOrder
  <2>3. \A d \in Hydrators : pc'[d] \notin {"set", "setExtra"}
    BY <1>6, <2>1, <2>2 DEF HydrateSets
  <2> QED
    BY <2>3
<1>7. ASSUME NEW c \in Hydrators, HydrateEnds(c) PROVE SeenKept'
  BY <1>7 DEF HydrateEnds
<1>8. ASSUME NEW c \in Hydrators, PrependSets(c) PROVE SeenKept'
  <2>1. \A d \in Hydrators : pc[d] # "setExtra"
    BY <1>8 DEF PrependSets, HydrationOrder
  <2>2. Range(path') = Range(seen[c]) \cup {Managed} /\ Range(path) \subseteq Range(path')
    <3>1. ~AgentCrashes
      BY <1>8 DEF PrependSets, AgentCrashes
    <3> QED
      BY <1>8, <3>1, PathSet
  <2>3. seen' = seen /\ \A d \in Hydrators : pc'[d] \in {"set", "setExtra"} => pc[d] = pc'[d]
    BY <1>8 DEF PrependSets
  <2>4. pc[c] = "set"
    BY <1>8 DEF PrependSets
  <2>5. Range(seen[c]) \subseteq Range(path)
    BY <2>4
  <2>6. ASSUME NEW d \in Hydrators, pc'[d] = "set"
        PROVE  Range(seen'[d]) \subseteq Range(path') /\ Range(path') \subseteq Range(seen'[d])
          \cup {Managed}
    <3>1. pc[d] = "set"
      BY <2>3, <2>6
    <3>2. Range(seen[d]) \subseteq Range(path) /\ Range(path) \subseteq Range(seen[d]) \cup
      {Managed}
      BY <3>1
    <3> QED
      BY <2>2, <2>3, <2>5, <3>2
  <2> HIDE DEF NodeInv
  <2> QED
    BY <2>1, <2>3, <2>6
<1>9. ASSUME NEW c \in Hydrators, Look(c) PROVE SeenKept'
  BY <1>9 DEF Look
<1>10. ASSUME NEW c \in Hydrators, Download(c) PROVE SeenKept'
  BY <1>10 DEF Download
<1>11. ASSUME NEW c \in Hydrators, InstallFails(c) PROVE SeenKept'
  BY <1>11 DEF InstallFails
<1>12. ASSUME NEW c \in Hydrators, Extract(c) PROVE SeenKept'
  BY <1>12 DEF Extract
<1>13. ASSUME NEW c \in Hydrators, Extracted(c) PROVE SeenKept'
  BY <1>13 DEF Extracted
<1>14. ASSUME NEW c \in Hydrators, RemoveOld(c) PROVE SeenKept'
  BY <1>14 DEF RemoveOld
<1>15. ASSUME NEW c \in Hydrators, RenameNew(c) PROVE SeenKept'
  BY <1>15 DEF RenameNew
<1>16. ASSUME NEW c \in Hydrators, Again(c) PROVE SeenKept'
  BY <1>16 DEF Again
<1> QED
  BY <1>1, <1>2, <1>3, <1>4, <1>5, <1>6, <1>7, <1>8, <1>9, <1>10, <1>11, <1>12, <1>13, <1>14,
    <1>15, <1>16 DEF NodeRuntimeNext

\* Node that is found stays found while the PATH and the toolchain grow.
LEMMA StaysAvailable ==
  ASSUME NodeAndNpmAvailable, Range(path) \subseteq Range(path'), toolchain \subseteq toolchain',
         nodeDirs' = nodeDirs
  PROVE  NodeAndNpmAvailable'
BY DEF NodeAndNpmAvailable

\* A request installs only without a toolchain.
LEMMA NoneToReplace ==
  ASSUME NodeInv, NEW c \in Hydrators, pc[c] \in Installing
  PROVE  c \in Caller /\ toolchain = {}
<1>1. c # Boot
  BY DEF NodeInv, OneInstaller
<1> QED
  BY <1>1 DEF NodeInv, StagesArchive, Hydrators

\* No step of a running agent takes a file out of a toolchain.
LEMMA ToolchainGrows ==
  ASSUME NodeInv, NodeRuntimeNext
  PROVE  toolchain \subseteq toolchain' /\ nodeDirs' = nodeDirs
<1>1. nodeDirs' = nodeDirs
  BY DEF NodeRuntimeNext, AgentCrashes, Enter, HydrateShell, HydratedAlready, PrependReads,
    HydrateSets,
         HydrateEnds, PrependSets, Look, Download, InstallFails, Extract, Extracted, RemoveOld,
           RenameNew, Again
<1>2. ASSUME NEW c \in Hydrators, RemoveOld(c) \/ RenameNew(c) PROVE toolchain = {}
  BY <1>2, NoneToReplace DEF RemoveOld, RenameNew, Installing
<1>3. toolchain' = toolchain \/ \E c \in Hydrators : RemoveOld(c) \/ RenameNew(c)
  BY DEF NodeRuntimeNext, AgentCrashes, Enter, HydrateShell, HydratedAlready, PrependReads,
    HydrateSets,
         HydrateEnds, PrependSets, Look, Download, InstallFails, Extract, Extracted, Again, diskVars
<1> QED
  BY <1>1, <1>2, <1>3

\* The head of a list and the rest of it.
LEMMA HeadAndTail ==
  ASSUME NEW D, NEW s \in Seq(D), s # <<>>
  PROVE  Head(s) \in D /\ Tail(s) \in Seq(D) /\ Range(s) = {Head(s)} \cup Range(Tail(s))
<1>1. Len(s) \in Nat /\ Len(s) > 0 /\ Head(s) = s[1] /\ Tail(s) \in Seq(D) /\ Len(Tail(s)) =
  Len(s) - 1
  OBVIOUS
<1>2. \A i \in 1 .. Len(s) - 1 : Tail(s)[i] = s[i + 1]
  OBVIOUS
<1>3. ASSUME NEW i \in 1 .. Len(s) PROVE s[i] \in {Head(s)} \cup Range(Tail(s))
  <2>1. CASE i = 1
    BY <1>1, <2>1
  <2>2. CASE i # 1
    <3>1. i - 1 \in 1 .. Len(Tail(s)) /\ Tail(s)[i - 1] = s[i]
      BY <1>1, <1>2, <2>2
    <3>2. i - 1 \in DOMAIN Tail(s)
      BY <1>1, <3>1
    <3> QED
      BY <3>1, <3>2 DEF Range
  <2> QED
    BY <2>1, <2>2
<1>4. ASSUME NEW i \in 1 .. Len(Tail(s)) PROVE Tail(s)[i] \in Range(s)
  <2>1. Tail(s)[i] = s[i + 1] /\ i + 1 \in 1 .. Len(s)
    BY <1>1, <1>2
  <2> QED
    BY <2>1 DEF Range
<1>5. Head(s) \in Range(s)
  BY <1>1 DEF Range
<1>6. Head(s) \in D
  BY <1>1, ElementOfSeq
<1>7. DOMAIN s = 1 .. Len(s) /\ DOMAIN Tail(s) = 1 .. Len(Tail(s))
  BY <1>1
<1>8. Range(s) \subseteq {Head(s)} \cup Range(Tail(s))
  BY <1>3, <1>7 DEF Range
<1>9. Range(Tail(s)) \subseteq Range(s)
  BY <1>4, <1>7 DEF Range
<1> QED
  BY <1>1, <1>5, <1>6, <1>8, <1>9

\* Unless the agent is killed, node that was found stays found.
LEMMA StaysFound ==
  ASSUME NodeInv, NodeRuntimeNext, ~AgentCrashes, NodeAndNpmAvailable
  PROVE  NodeAndNpmAvailable'
BY PathSet, ToolchainGrows, StaysAvailable

\* ensureNodeRuntime installs only when the state directory has no toolchain.
LEMMA LooksFirst ==
  ASSUME NodeInv, NEW c \in Hydrators, Look(c), pc'[c] = "install"
  PROVE  toolchain = {}
<1>1. ~NodeAndNpmAvailable /\ ~(ManagedNodeAvailable /\ Managed \notin Range(path))
  BY DEF Look, Goto, NodeInv, NodeTypes
<1>2. ~ManagedNodeAvailable
  BY <1>1 DEF ManagedNodeAvailable, NodeAndNpmAvailable
<1> QED
  BY <1>2 DEF ManagedNodeAvailable, NodeInv, StagesArchive, ToolchainWhole, Parts

\* Every step keeps the answer of ensureNodeRuntime: only a look answers, and
\* the start of the agent answers nobody.
LEMMA WentOnStep == ASSUME NodeInv, NodeRuntimeNext PROVE WentOn'
<1>1. CASE AgentCrashes
  BY <1>1 DEF AgentCrashes, WentOn, Hydrators
<1>2. CASE ~AgentCrashes
  <2> SUFFICES ASSUME NEW d \in Caller, pc'[d] = "ok" PROVE NodeAndNpmAvailable'
    BY DEF WentOn
  <2>1. pc \in [Hydrators -> NodeSteps] /\ d \in Hydrators /\ d # Boot
    BY NodeRuntimeAssumption DEF NodeInv, NodeTypes, Hydrators
  <2>2. pc[d] = "ok" => NodeAndNpmAvailable
    BY DEF NodeInv, WentOn
  <2>3. pc[d] = "ok" \/ NodeAndNpmAvailable
    <3> HIDE DEF NodeInv
    <3>1. PICK c \in Hydrators :
            \/ Enter(c) \/ HydrateShell(c) \/ HydratedAlready(c) \/ PrependReads(c) \/
              HydrateSets(c)
            \/ HydrateEnds(c) \/ PrependSets(c) \/ Look(c) \/ Download(c) \/ InstallFails(c)
            \/ Extract(c) \/ Extracted(c) \/ RemoveOld(c) \/ RenameNew(c) \/ Again(c)
      BY <1>2 DEF NodeRuntimeNext
    <3>2. CASE Look(c)
      BY <2>1, <3>2 DEF Look, Goto
    <3>3. CASE PrependSets(c)
      BY <2>1, <3>3 DEF PrependSets, Goto
    <3>4. CASE ~Look(c) /\ ~PrependSets(c)
      BY <2>1, <3>1, <3>4 DEF Goto, Enter, HydrateShell, HydratedAlready, PrependReads, HydrateSets,
         HydrateEnds, Download, InstallFails, Extract, Extracted, RemoveOld, RenameNew, Again
    <3> QED
      BY <3>2, <3>3, <3>4
  <2> QED
    BY <1>2, <2>2, <2>3, StaysFound
<1> QED
  BY <1>1, <1>2

\* A caller that goes on with what is staged leaves the installation sound.
LEMMA StagesOn ==
  ASSUME NodeInv, UNCHANGED <<toolchain, stagingVars>>,
         \A d \in Caller :
           pc'[d] \in Installing =>
             \/ pc[d] = pc'[d]
             \/ pc'[d] = "install" /\ toolchain = {}
             \/ pc[d] = "extract" /\ pc'[d] = "remove" /\ staged = Parts
             \/ pc[d] = "remove" /\ pc'[d] = "rename"
  PROVE  StagesArchive'
<1>1. toolchain' = toolchain /\ index' = index /\ verified' = verified /\ staged' = staged
      /\ chosen' = chosen
  BY DEF stagingVars
<1>2. StagesArchive
  BY DEF NodeInv
<1>3. ToolchainWhole' /\ (index' # <<>> => chosen' = SelectLatestLTS(index'))
  BY <1>1, <1>2 DEF StagesArchive, ToolchainWhole
<1>4. ASSUME NEW d \in Caller
      PROVE  /\ pc'[d] \in Installing => toolchain' = {}
             /\ pc'[d] = "extract" => staged' \cup Range(verified') \in {Parts, {"lib", "node"}}
             /\ pc'[d] \in {"remove", "rename"} => staged' = Parts
  <2>1. /\ pc[d] \in Installing => toolchain = {}
        /\ pc[d] = "extract" => staged \cup Range(verified) \in {Parts, {"lib", "node"}}
        /\ pc[d] \in {"remove", "rename"} => staged = Parts
    BY <1>2 DEF StagesArchive
  <2>2. pc'[d] = "extract" => pc[d] = "extract"
    BY DEF Installing
  <2>3. pc'[d] \in {"remove", "rename"} => pc[d] \in {"remove", "rename"} \/ staged = Parts
    BY DEF Installing
  <2>4. pc'[d] \in Installing => pc[d] \in Installing \/ toolchain = {}
    BY DEF Installing
  <2> QED
    BY <1>1, <2>1, <2>2, <2>3, <2>4
<1> QED
  BY <1>3, <1>4 DEF StagesArchive

\* While one request installs, the others wait for nodeRuntimeMu.
LEMMA Alone ==
  ASSUME NodeInv, NEW c \in Hydrators, pc[c] \in Installing, NEW d \in Caller, d # c
  PROVE  pc[d] \in {"idle", "ok", "failed"}
BY NoneToReplace DEF NodeInv, OneInstaller, Installing

\* Every step keeps the installation.
LEMMA StagesStep == ASSUME NodeInv, NodeRuntimeNext PROVE StagesArchive'
<1>1. CASE AgentCrashes
  <2>1. \A d \in Caller : pc'[d] = "idle"
    BY <1>1 DEF AgentCrashes, Hydrators
  <2>2. ToolchainWhole' /\ index' = <<>>
    BY <1>1 DEF AgentCrashes, diskVars, NodeInv, StagesArchive, ToolchainWhole
  <2> QED
    BY <2>1, <2>2 DEF StagesArchive, Installing
<1>0. pc \in [Hydrators -> NodeSteps] /\ Caller \subseteq Hydrators
  BY DEF NodeInv, NodeTypes, Hydrators
<1>2. ASSUME NEW c \in Hydrators, Enter(c) PROVE StagesArchive'
  <2> HIDE DEF NodeInv
  <2>1. UNCHANGED <<toolchain, stagingVars>>
    BY <1>2 DEF Enter, diskVars
  <2>2. \A d \in Caller : pc'[d] \in Installing => pc[d] = pc'[d]
    BY <1>0, <1>2 DEF Enter, Goto, Installing
  <2> QED
    BY <2>1, <2>2, StagesOn
<1>3. ASSUME NEW c \in Hydrators, HydrateShell(c) PROVE StagesArchive'
  <2> HIDE DEF NodeInv
  <2>1. UNCHANGED <<toolchain, stagingVars>>
    BY <1>3 DEF HydrateShell, diskVars
  <2>2. \A d \in Caller : pc'[d] \in Installing => pc[d] = pc'[d]
    BY <1>0, <1>3 DEF HydrateShell, Goto, Installing
  <2> QED
    BY <2>1, <2>2, StagesOn
<1>4. ASSUME NEW c \in Hydrators, HydratedAlready(c) PROVE StagesArchive'
  <2> HIDE DEF NodeInv
  <2>1. UNCHANGED <<toolchain, stagingVars>>
    BY <1>4 DEF HydratedAlready, diskVars
  <2>2. \A d \in Caller : pc'[d] \in Installing => pc[d] = pc'[d]
    BY <1>0, <1>4 DEF HydratedAlready, Goto, Installing
  <2> QED
    BY <2>1, <2>2, StagesOn
<1>5. ASSUME NEW c \in Hydrators, PrependReads(c) PROVE StagesArchive'
  <2> HIDE DEF NodeInv
  <2>1. UNCHANGED <<toolchain, stagingVars>>
    BY <1>5 DEF PrependReads, diskVars
  <2>2. \A d \in Caller : pc'[d] \in Installing => pc[d] = pc'[d]
    BY <1>0, <1>5 DEF PrependReads, Goto, Installing
  <2> QED
    BY <2>1, <2>2, StagesOn
<1>6. ASSUME NEW c \in Hydrators, HydrateSets(c) PROVE StagesArchive'
  <2> HIDE DEF NodeInv
  <2>1. UNCHANGED <<toolchain, stagingVars>>
    BY <1>6 DEF HydrateSets, diskVars
  <2>2. \A d \in Caller : pc'[d] \in Installing => pc[d] = pc'[d]
    BY <1>0, <1>6 DEF HydrateSets, Goto, Installing
  <2> QED
    BY <2>1, <2>2, StagesOn
<1>7. ASSUME NEW c \in Hydrators, HydrateEnds(c) PROVE StagesArchive'
  <2> HIDE DEF NodeInv
  <2>1. UNCHANGED <<toolchain, stagingVars>>
    BY <1>7 DEF HydrateEnds, diskVars
  <2>2. \A d \in Caller : pc'[d] \in Installing => pc[d] = pc'[d]
    BY <1>0, <1>7 DEF HydrateEnds, Goto, Installing
  <2> QED
    BY <2>1, <2>2, StagesOn
<1>8. ASSUME NEW c \in Hydrators, PrependSets(c) PROVE StagesArchive'
  <2> HIDE DEF NodeInv
  <2>1. UNCHANGED <<toolchain, stagingVars>>
    BY <1>8 DEF PrependSets, diskVars
  <2>2. \A d \in Caller : pc'[d] \in Installing => pc[d] = pc'[d]
    BY <1>0, <1>8 DEF PrependSets, Goto, Installing
  <2> QED
    BY <2>1, <2>2, StagesOn
<1>9. ASSUME NEW c \in Hydrators, Again(c) PROVE StagesArchive'
  <2> HIDE DEF NodeInv
  <2>1. UNCHANGED <<toolchain, stagingVars>>
    BY <1>9 DEF Again, diskVars
  <2>2. \A d \in Caller : pc'[d] \in Installing => pc[d] = pc'[d]
    BY <1>0, <1>9 DEF Again, Goto, Installing
  <2> QED
    BY <2>1, <2>2, StagesOn
<1>10. ASSUME NEW c \in Hydrators, Look(c) PROVE StagesArchive'
  <2>1. UNCHANGED <<toolchain, stagingVars>>
    BY <1>10 DEF Look, diskVars
  <2>2. \A d \in Caller : pc'[d] \in Installing => pc[d] = pc'[d] \/ (d = c /\ pc'[d] = "install")
    BY <1>0, <1>10 DEF Look, Goto, Installing
  <2>3. pc'[c] = "install" => toolchain = {}
    BY <1>10, LooksFirst
  <2> QED
    BY <2>1, <2>2, <2>3, StagesOn
<1>11. ASSUME NEW c \in Hydrators, Extracted(c) PROVE StagesArchive'
  <2>1. UNCHANGED <<toolchain, stagingVars>> /\ pc[c] = "extract" /\ verified = <<>>
    BY <1>11 DEF Extracted, diskVars
  <2>2. \A d \in Caller :
          pc'[d] \in Installing =>
            \/ pc[d] = pc'[d]
            \/ pc[d] = "extract" /\ pc'[d] = "remove" /\ {"node", "npm"} \subseteq staged
    BY <1>0, <1>11 DEF Extracted, Goto, Installing
  <2>3. {"node", "npm"} \subseteq staged => staged = Parts
    <3>1. staged \cup Range(verified) \in {Parts, {"lib", "node"}}
      BY <2>1, NoneToReplace DEF NodeInv, StagesArchive, Installing
    <3>2. Range(verified) = {}
      BY <2>1 DEF Range
    <3> QED
      BY <3>1, <3>2
  <2> QED
    BY <2>1, <2>2, <2>3, StagesOn
<1>12. ASSUME NEW c \in Hydrators, RemoveOld(c) PROVE StagesArchive'
  <2>1. pc[c] = "remove" /\ toolchain = {}
    BY <1>12, NoneToReplace DEF RemoveOld, Installing
  <2>2. UNCHANGED <<toolchain, stagingVars>> /\ pc' = [pc EXCEPT ![c] = "rename"]
    BY <1>12, <2>1 DEF RemoveOld, Goto
  <2>3. \A d \in Caller :
          pc'[d] \in Installing => pc[d] = pc'[d] \/ (pc[d] = "remove" /\ pc'[d] = "rename")
    BY <1>0, <2>1, <2>2
  <2> QED
    BY <2>2, <2>3, StagesOn
<1>13. ASSUME NEW c \in Hydrators, Download(c) PROVE StagesArchive'
  <2>1. pc[c] = "install" /\ pc' = [pc EXCEPT ![c] = "extract"] /\ toolchain' = toolchain
        /\ staged' = {} /\ verified' \in Archives /\ chosen' = SelectLatestLTS(index')
    BY <1>13 DEF Download, Goto, diskVars
  <2>2. toolchain = {} /\ pc[c] \in Installing
    BY <2>1, NoneToReplace DEF Installing
  <2>3. Range(verified') \in {Parts, {"lib", "node"}}
    <3>1. Range(<<"node", "npm", "lib">>) = Parts /\ Range(<<"lib", "node">>) = {"lib", "node"}
      BY DEF Range, Parts
    <3> QED
      BY <2>1, <3>1 DEF Archives
  <2>4. \A d \in Caller : d # c => pc'[d] \notin Installing
    BY <1>0, <2>1, <2>2, Alone DEF Installing
  <2>5. \A d \in Caller : pc'[d] \notin {"remove", "rename"}
    BY <1>0, <2>1, <2>4 DEF Installing
  <2>6. ToolchainWhole' /\ toolchain' = {}
    BY <2>1, <2>2 DEF ToolchainWhole
  <2>7. staged' \cup Range(verified') = Range(verified')
    BY <2>1
  <2> QED
    BY <2>1, <2>3, <2>5, <2>6, <2>7 DEF StagesArchive
<1>14. ASSUME NEW c \in Hydrators, InstallFails(c) PROVE StagesArchive'
  <2>1. pc[c] \in Installing /\ pc' = [pc EXCEPT ![c] = "failed"] /\ toolchain' = toolchain
        /\ index' = index /\ chosen' = chosen
    BY <1>14 DEF InstallFails, Goto, diskVars, Installing
  <2>2. \A d \in Caller : pc'[d] \notin Installing
    BY <1>0, <2>1, Alone DEF Installing
  <2>3. ToolchainWhole' /\ (index' # <<>> => chosen' = SelectLatestLTS(index'))
    BY <2>1 DEF NodeInv, StagesArchive, ToolchainWhole
  <2> QED
    BY <2>2, <2>3 DEF StagesArchive, Installing
<1>15. ASSUME NEW c \in Hydrators, Extract(c) PROVE StagesArchive'
  <2>1. pc[c] = "extract" /\ pc' = pc /\ toolchain' = toolchain /\ verified # <<>>
        /\ staged' = staged \cup {Head(verified)} /\ verified' = Tail(verified)
        /\ index' = index /\ chosen' = chosen
    BY <1>15 DEF Extract, diskVars
  <2>2. verified \in Seq(Parts)
    BY DEF NodeInv, NodeTypes
  <2>3. staged' \cup Range(verified') = staged \cup Range(verified)
    BY <2>1, <2>2, HeadAndTail
  <2>4. StagesArchive
    BY DEF NodeInv
  <2>5. \A d \in Caller : pc[d] \notin {"remove", "rename"}
    BY <2>1, Alone DEF Installing
  <2>6. ToolchainWhole' /\ (index' # <<>> => chosen' = SelectLatestLTS(index'))
    BY <2>1, <2>4 DEF StagesArchive, ToolchainWhole
  <2>7. \A d \in Caller :
          /\ pc[d] \in Installing => toolchain = {}
          /\ pc[d] = "extract" => staged \cup Range(verified) \in {Parts, {"lib", "node"}}
    BY <2>4 DEF StagesArchive
  <2> HIDE DEF NodeInv
  <2> QED
    BY <2>1, <2>3, <2>5, <2>6, <2>7 DEF StagesArchive
<1>16. ASSUME NEW c \in Hydrators, RenameNew(c) PROVE StagesArchive'
  <2>1. pc[c] = "rename" /\ pc' = [pc EXCEPT ![c] = "prepend"] /\ toolchain' = staged
        /\ index' = index /\ chosen' = chosen
    BY <1>16 DEF RenameNew, Goto
  <2>2. staged = Parts /\ pc[c] \in Installing
    BY <2>1, NoneToReplace DEF NodeInv, StagesArchive, Installing
  <2>3. \A d \in Caller : pc'[d] \notin Installing
    BY <1>0, <2>1, <2>2, Alone DEF Installing
  <2>4. ToolchainWhole' /\ (index' # <<>> => chosen' = SelectLatestLTS(index'))
    BY <2>1, <2>2 DEF NodeInv, StagesArchive, ToolchainWhole
  <2> QED
    BY <2>3, <2>4 DEF StagesArchive, Installing
<1> QED
  BY <1>1, <1>2, <1>3, <1>4, <1>5, <1>6, <1>7, <1>8, <1>9, <1>10, <1>11, <1>12, <1>13, <1>14,
    <1>15, <1>16 DEF NodeRuntimeNext

\* The initial states have the invariant.
LEMMA NodeStart == NodeRuntimeInit => NodeInv
<1> SUFFICES ASSUME NodeRuntimeInit PROVE NodeInv
  OBVIOUS
<1> USE NodeRuntimeAssumption
<1>1. /\ path \in Seq(Dirs) /\ hydrated \in 0 .. Len(Extra) + 2 /\ nodeDirs \subseteq Dirs
      /\ staged \subseteq Parts /\ crashes \in 0 .. MaxCrashes
  BY DEF NodeRuntimeInit
<1>2. verified \in Seq(Parts) /\ index \in Indexes \cup {<<>>}
  BY DEF NodeRuntimeInit
<1>3. seen \in [Hydrators -> Seq(Dirs)]
  BY DEF NodeRuntimeInit
<1>4. pc \in [Hydrators -> NodeSteps] /\ \A c \in Hydrators : pc[c] = "idle"
  BY DEF NodeRuntimeInit, NodeSteps
<1>5. NodeTypes
  BY <1>1, <1>2, <1>3, <1>4 DEF NodeTypes
<1>6. OneInstaller
  BY <1>4 DEF OneInstaller, Installing, Hydrators
<1>7. HydrationOrder /\ SeenKept
  BY <1>4 DEF HydrationOrder, SeenKept, Installing
<1>8. StagesArchive /\ WentOn
  BY <1>4 DEF NodeRuntimeInit, StagesArchive, ToolchainWhole, WentOn, Hydrators, Installing
<1> QED
  BY <1>5, <1>6, <1>7, <1>8 DEF NodeInv

\* A step that changes nothing keeps the invariant.
LEMMA NodeStutter == NodeInv /\ UNCHANGED nodeVars => NodeInv'
<1> SUFFICES ASSUME NodeInv, UNCHANGED nodeVars PROVE NodeInv'
  OBVIOUS
<1>1. NodeTypes' /\ OneInstaller' /\ HydrationOrder' /\ SeenKept'
  BY DEF nodeVars, NodeInv, NodeTypes, OneInstaller, HydrationOrder, SeenKept
<1>2. StagesArchive' /\ WentOn'
  BY DEF nodeVars, NodeInv, StagesArchive, ToolchainWhole, WentOn, NodeAndNpmAvailable
<1> QED
  BY <1>1, <1>2 DEF NodeInv

\* The first suitable release of a list that starts with the newest is the
\* newest suitable one.
LEMMA FirstIsNewest ==
  ASSUME NEW list \in Indexes, NEW i \in DOMAIN list, Suitable(list[i])
  PROVE  list[i].version <= SelectLatestLTS(list)
<1> DEFINE suitable == {n \in DOMAIN list : Suitable(list[n])}
           first == CHOOSE n \in suitable : \A k \in suitable : n <= k
<1>1. list \in Seq([version : Nat, lts : BOOLEAN, built : BOOLEAN])
  BY NodeRuntimeAssumption
<1>2. i \in suitable /\ suitable \subseteq Nat
  BY <1>1
<1>3. \E n \in suitable : \A k \in suitable : n <= k
  <2> HIDE DEF suitable
  <2> QED
    BY <1>2, Least
<1>4. first \in suitable /\ first <= i
  <2> HIDE DEF suitable
  <2> QED
    BY <1>2, <1>3
<1>5. SelectLatestLTS(list) = list[first].version
  <2>1. suitable # {}
    BY <1>2
  <2> QED
    BY <2>1 DEF SelectLatestLTS
<1>6. first \in DOMAIN list
  BY <1>4
<1> HIDE DEF first, suitable
<1>7. list[i].version \in Nat /\ list[first].version \in Nat
  <2>1. \A n \in DOMAIN list : list[n] \in [version : Nat, lts : BOOLEAN, built : BOOLEAN]
    <3>1. DOMAIN list = 1 .. Len(list)
      BY <1>1
    <3> QED
      BY <1>1, <3>1, ElementOfSeq
  <2> QED
    BY <1>6, <2>1
<1>8. CASE first = i
  BY <1>5, <1>7, <1>8
<1>9. CASE first # i
  <2>1. first \in Nat /\ i \in Nat /\ first < i
    BY <1>1, <1>4, <1>6, <1>9
  <2>2. list[first].version >= list[i].version
    BY <1>6, <2>1, NodeRuntimeAssumption
  <2> QED
    BY <1>5, <1>7, <2>2
<1> QED
  BY <1>8, <1>9

\* The invariant gives the properties of the toolchain.
LEMMA NodeSafety == NodeInv => NodeRuntimeSafe
<1> SUFFICES ASSUME NodeInv PROVE NodeRuntimeSafe
  OBVIOUS
<1>1. \A list \in Seq(Dirs) : Range(list) \subseteq Dirs
  BY DEF Range
<1>2. Range(verified) \subseteq Parts
  BY DEF NodeInv, NodeTypes, Range
<1>3. ToolchainWhole /\ toolchain \subseteq Parts
  BY DEF NodeInv, StagesArchive, ToolchainWhole
<1>4. NodeRuntimeTypeOK
  BY <1>1, <1>2, <1>3 DEF NodeInv, NodeTypes, NodeRuntimeTypeOK
<1>5. NewestLTSInstalled
  <2> SUFFICES ASSUME index # <<>>, installed = chosen, NEW i \in DOMAIN index, Suitable(index[i])
               PROVE  index[i].version <= installed
    BY DEF NewestLTSInstalled
  <2>1. index \in Indexes /\ chosen = SelectLatestLTS(index)
    BY DEF NodeInv, NodeTypes, StagesArchive
  <2> QED
    BY <2>1, FirstIsNewest
<1> QED
  BY <1>3, <1>4, <1>5 DEF NodeRuntimeSafe

\* Every step keeps the invariant.
LEMMA NodeStep == NodeInv /\ [NodeRuntimeNext]_nodeVars => NodeInv'
<1> SUFFICES ASSUME NodeInv, [NodeRuntimeNext]_nodeVars PROVE NodeInv'
  OBVIOUS
<1>1. CASE NodeRuntimeNext
  BY <1>1, NodeTypesStep, OneInstallerStep, HydrationStep, SeenStep, StagesStep, WentOnStep
     DEF NodeInv
<1> QED
  BY <1>1, NodeStutter

\* A directory leaves the PATH only with the process.
LEMMA PathStep == NodeInv /\ NodeInv' /\ [NodeRuntimeNext]_nodeVars => PathKept
<1> SUFFICES ASSUME NodeInv, NodeInv', [NodeRuntimeNext]_nodeVars PROVE PathKept
  OBVIOUS
<1>1. \A c \in Caller : pc'[c] = "ok" => NodeAndNpmAvailable'
  BY DEF NodeInv, WentOn
<1>2. AgentCrashes => crashes' # crashes
  BY NodeRuntimeAssumption DEF AgentCrashes, NodeInv, NodeTypes
<1>3. CASE NodeRuntimeNext
  BY <1>1, <1>2, <1>3, PathSet DEF PathKept
<1>4. CASE UNCHANGED nodeVars
  BY <1>1, <1>4 DEF PathKept, nodeVars
<1> QED
  BY <1>3, <1>4

\* ensureNodeRuntime: whatever fails, overlaps or is killed, the toolchain is
\* absent or whole, and it is the newest suitable release that was listed, for
\* every number of requests and crashes and every list of releases that names
\* the newest first.
THEOREM ToolchainFoundWhole == NodeRuntimeSpec => []NodeRuntimeSafe
<1> QED
  BY NodeStart, NodeStep, NodeSafety, PTL DEF NodeRuntimeSpec

\* hydrateExecutablePath and prependPathDir: while the agent runs no directory
\* leaves the PATH, and a request that went on has node and npm.
THEOREM PathOnlyGrows == NodeRuntimeSpec => [][PathKept]_nodeVars
<1>1. NodeInv /\ NodeInv' /\ [NodeRuntimeNext]_nodeVars => [PathKept]_nodeVars
  BY PathStep
<1> QED
  BY NodeStart, NodeStep, <1>1, PTL DEF NodeRuntimeSpec

-----------------------------------------------------------------------------
(* Network files *)

\* Types of the directories and of the copies.
CopyState ==
  [at : {"idle", "list", "next", "create", "stream", "close", "rename", "done", "failed"},
   from : Side, to : Side, todo : SUBSET FileName, files : SUBSET FileName,
   file : FileName \cup {""}, read : 0 .. MaxChunks, arrived : 0 .. MaxChunks,
   stor : {"none", "asked", "open", "failed"}, bytes : Nat, total : Nat, sized : BOOLEAN,
   cut : SUBSET FileName, mixed : BOOLEAN]
CopyTypes ==
  /\ protocol \in {"sftp", "ftp"} /\ dirs \in [Side -> [FileName -> File]]
  /\ temps \subseteq Copier
  /\ copies \in 0 .. MaxCopyCalls /\ copyKills \in 0 .. MaxCopyKills
  /\ copy \in [Copier -> CopyState]

\* A copy writes into one directory: a STOR serves an upload that is streamed,
\* and only a download is renamed.
Handling == {"create", "stream", "close", "rename"}
CopySound(c) ==
  /\ <<copy[c].from, copy[c].to>> \in CopyKinds
  /\ copy[c].stor # "none" => ByStor(c) /\ copy[c].at \in {"stream", "close"}
  /\ copy[c].at \in Handling => copy[c].file \in FileName
  /\ copy[c].at = "rename" => ToLocal(c)
  /\ copy[c].arrived <= copy[c].read
  /\ copy[c].cut # {} => protocol = "ftp"
  /\ copy[c].at = "create" \/ copy[c].stor = "asked" => copy[c].read = 0
CopiesSound == \A c \in Copier : CopySound(c)

\* Two copies that meet know it.
MeetingsMixed ==
  \A c, d \in Copier :
    c # d /\ copy[c].at # "idle" /\ Meets(d, copy[c].from, copy[c].to) => copy[c].mixed

\* Until the agent is killed a temporary file belongs to a download.
TempsOwned ==
  copyKills = 0 => \A c \in temps : copy[c].at \in {"stream", "close", "rename"} /\ ToLocal(c)

\* The account of a copy r from the directory source into target: what its
\* files will still add, and what the target holds of those behind it.
Kept(directory) == {f \in FileName : directory[f] # NoEntry}
Counted(r, source) ==
  /\ r.at = "list" => r.bytes = 0 /\ r.total = Sizes(Kept(source), source)
  /\ r.at \in {"next", "done"} => r.bytes + Sizes(r.todo, source) = r.total
  /\ r.at \in Handling =>
       r.bytes + (source[r.file].chunks + Sizes(r.todo, source)) = r.total + r.read
Listed(r, source) ==
  /\ r.at \in {"next", "done"} \cup Handling => r.files = Kept(source) /\ r.todo \subseteq r.files
  /\ r.at \in Handling => r.file \in r.files \ r.todo /\ r.read <= source[r.file].chunks
  /\ r.at \in {"close", "rename"} => r.read = source[r.file].chunks
  /\ r.at = "done" => r.todo = {}
Behind(r, source, target, server) ==
  /\ r.at \in {"next", "done"} \cup Handling =>
       \A f \in r.files \ r.todo :
         \/ r.at \in Handling /\ f = r.file
         \/ target[f] = WholeFile(source[f].chunks)
  /\ r.at \in {"stream", "close"} /\ r.to # "local" =>
       IF server = "ftp" THEN r.stor = "open" => target[r.file].chunks = r.arrived
                         ELSE target[r.file].chunks = r.read
AddsUp(r, source, target, server) ==
  (r.sized => Counted(r, source)) /\ Listed(r, source) /\ Behind(r, source, target, server)
AccountOf(c) ==
  copy[c].at # "idle" /\ ~copy[c].mixed /\ copy[c].cut = {} =>
    AddsUp(copy[c], dirs[copy[c].from], dirs[copy[c].to], protocol)

\* The inductive invariant of network copies.
NetCopyInv ==
  /\ CopyTypes /\ CopiesSound /\ MeetingsMixed /\ TempsOwned /\ LocalWhole
  /\ \A c \in Copier : AccountOf(c)

\* The sets of files that a directory can list are finite.
LEMMA FilesFinite ==
  ASSUME NEW S \in SUBSET FileName
  PROVE  /\ IsFiniteSet(S) /\ Cardinality(S) \in Nat /\ (Cardinality(S) = 0 <=> S = {})
         /\ \A f \in S : Cardinality(S \ {f}) = Cardinality(S) - 1
<1>1. IsFiniteSet(S)
  BY NetCopyAssumption, FS_Subset
<1> QED
  BY <1>1, FS_CardinalityType, FS_EmptySet, FS_RemoveElement

\* The sum of networkPathSize is defined: for the sets of at most n files, and
\* so for all of them.
Summing(g, listing) ==
  g = [S \in SUBSET FileName |->
         IF S = {} THEN 0
         ELSE LET f == CHOOSE f \in S : TRUE IN listing[f].chunks + g[S \ {f}]]

\* So some function satisfies the equation of Sizes.
LEMMA SumDefined ==
  ASSUME NEW listing
  PROVE  \E g : Summing(g, listing)
<1> DEFINE Picked(S) == CHOOSE f \in S : TRUE
           Small(n) == {S \in SUBSET FileName : Cardinality(S) <= n}
           Sum(g, n) == g = [S \in Small(n) |->
             IF S = {} THEN 0 ELSE listing[Picked(S)].chunks + g[S \ {Picked(S)}]]
           N == {n \in Nat : \E g : Sum(g, n)}
<1>1. 0 \in N
  <2>1. \A S \in Small(0) : S = {}
    BY FilesFinite
  <2>2. Sum([S \in Small(0) |-> 0], 0)
    BY <2>1
  <2> QED
    BY <2>2
<1>2. ASSUME NEW n \in Nat, n \in N PROVE n + 1 \in N
  <2>1. PICK g : Sum(g, n)
    BY <1>2
  <2> DEFINE h == [S \in Small(n + 1) |->
                     IF S \in Small(n) THEN g[S]
                     ELSE listing[Picked(S)].chunks + g[S \ {Picked(S)}]]
  <2>2. ASSUME NEW S \in Small(n + 1), S # {}
        PROVE  S \ {Picked(S)} \in Small(n)
    <3>1. Picked(S) \in S
      BY <2>2
    <3>2. S \in SUBSET FileName /\ Cardinality(S) <= n + 1
      OBVIOUS
    <3> HIDE DEF Picked
    <3>3. Cardinality(S \ {Picked(S)}) = Cardinality(S) - 1 /\ Cardinality(S) \in Nat
      BY <3>1, <3>2, FilesFinite
    <3> QED
      BY <3>2, <3>3
  <2>3. Small(n) \subseteq Small(n + 1)
    BY FilesFinite
  <2>4. ASSUME NEW S \in Small(n)
        PROVE  g[S] = IF S = {} THEN 0 ELSE listing[Picked(S)].chunks + g[S \ {Picked(S)}]
    <3> HIDE DEF Small, Picked
    <3> QED
      BY <2>1
  <2>5. ASSUME NEW S \in Small(n + 1)
        PROVE  h[S] = IF S = {} THEN 0 ELSE listing[Picked(S)].chunks + h[S \ {Picked(S)}]
    <3>1. CASE S = {}
      <4>1. S \in Small(n)
        BY <3>1, FilesFinite
      <4>2. h[S] = g[S]
        BY <4>1
      <4> QED
        BY <2>4, <3>1, <4>1, <4>2
    <3>2. CASE S # {}
      <4>1. S \ {Picked(S)} \in Small(n)
        BY <2>2, <3>2
      <4> HIDE DEF Small, Picked
      <4>2. h[S \ {Picked(S)}] = g[S \ {Picked(S)}]
        BY <2>3, <4>1
      <4>3. CASE S \in Small(n)
        BY <2>4, <3>2, <4>2, <4>3
      <4>4. CASE S \notin Small(n)
        BY <3>2, <4>2, <4>4
      <4> QED
        BY <4>3, <4>4
    <3> QED
      BY <3>1, <3>2
  <2>6. h = [S \in Small(n + 1) |-> h[S]]
    OBVIOUS
  <2> HIDE DEF h, Small, Picked
  <2>7. Sum(h, n + 1)
    BY <2>5, <2>6
  <2> HIDE DEF Sum
  <2> QED
    BY <2>7
<1> HIDE DEF N
<1>3. Nat \subseteq N
  BY <1>1, <1>2, Counting
<1>4. Cardinality(FileName) \in N
  BY <1>3, FilesFinite
<1>5. Small(Cardinality(FileName)) = SUBSET FileName
  <2>1. \A S \in SUBSET FileName : Cardinality(S) <= Cardinality(FileName)
    BY NetCopyAssumption, FS_Subset
  <2> QED
    BY <2>1
<1>6. PICK g : Sum(g, Cardinality(FileName))
  BY <1>4 DEF N
<1> QED
  BY <1>5, <1>6 DEF Summing

\* A total is the sum over the files whichever is taken out first.
LEMMA SizesSum ==
  ASSUME NEW listing \in [FileName -> File]
  PROVE  /\ Sizes({}, listing) = 0
         /\ \A S \in SUBSET FileName :
              /\ Sizes(S, listing) \in Nat
              /\ \A f \in S : Sizes(S, listing) = listing[f].chunks + Sizes(S \ {f}, listing)
<1> DEFINE Picked(S) == CHOOSE f \in S : TRUE
           sum == CHOOSE g : Summing(g, listing)
           Summed(S) == /\ sum[S] \in Nat
                        /\ \A f \in S : sum[S] = listing[f].chunks + sum[S \ {f}]
           M == {n \in Nat : \A S \in SUBSET FileName : Cardinality(S) = n => sum[S] \in Nat}
           N == {n \in Nat : \A S \in SUBSET FileName : Cardinality(S) = n => Summed(S)}
<1>1. sum = [S \in SUBSET FileName |->
               IF S = {} THEN 0
               ELSE LET f == CHOOSE f \in S : TRUE IN listing[f].chunks + sum[S \ {f}]]
  <2>1. Summing(sum, listing)
    BY SumDefined
  <2> QED
    BY <2>1 DEF Summing
<1>2. \A S \in SUBSET FileName : Sizes(S, listing) = sum[S]
  BY DEF Sizes, Summing
<1> HIDE DEF sum
<1>3. sum[{}] = 0
  BY <1>1
<1>4. ASSUME NEW S \in SUBSET FileName, S # {}
      PROVE  Picked(S) \in S /\ sum[S] = listing[Picked(S)].chunks + sum[S \ {Picked(S)}]
  BY <1>1, <1>4
<1>5. \A f \in FileName : listing[f].chunks \in Nat
  BY DEF File
<1>6. 0 \in M
  BY <1>3, FilesFinite
<1>7. ASSUME NEW n \in Nat, n \in M PROVE n + 1 \in M
  <2> SUFFICES ASSUME NEW S \in SUBSET FileName, Cardinality(S) = n + 1 PROVE sum[S] \in Nat
    OBVIOUS
  <2>1. S # {}
    BY FilesFinite
  <2>2. PICK p \in S : sum[S] = listing[p].chunks + sum[S \ {p}]
    BY <1>4, <2>1
  <2>3. S \ {p} \in SUBSET FileName /\ Cardinality(S \ {p}) = n
    BY FilesFinite
  <2>4. sum[S \ {p}] \in Nat
    BY <1>7, <2>3
  <2> QED
    BY <1>5, <2>2, <2>4
<1> HIDE DEF M
<1>8. \A S \in SUBSET FileName : sum[S] \in Nat
  <2>1. Nat \subseteq M
    BY <1>6, <1>7, Counting
  <2> QED
    BY <2>1, FilesFinite DEF M
<1>9. 0 \in N
  BY <1>3, FilesFinite
<1>10. ASSUME NEW n \in Nat, n \in N PROVE n + 1 \in N
  <2> SUFFICES ASSUME NEW S \in SUBSET FileName, Cardinality(S) = n + 1 PROVE Summed(S)
    OBVIOUS
  <2>1. S # {}
    BY FilesFinite
  <2>2. PICK p \in S : sum[S] = listing[p].chunks + sum[S \ {p}]
    BY <1>4, <2>1
  <2>3. ASSUME NEW f \in S PROVE Summed(S \ {f})
    <3>1. S \ {f} \in SUBSET FileName /\ Cardinality(S \ {f}) = n
      BY FilesFinite
    <3> HIDE DEF Summed
    <3> QED
      BY <1>10, <3>1
  <2>4. sum[S] \in Nat
    BY <1>8
  <2>5. ASSUME NEW f \in S PROVE sum[S] = listing[f].chunks + sum[S \ {f}]
    <3>1. CASE f = p
      BY <2>2, <3>1
    <3>2. CASE f # p
      <4>1. sum[S \ {p}] = listing[f].chunks + sum[(S \ {p}) \ {f}]
        BY <2>3, <3>2
      <4>2. sum[S \ {f}] = listing[p].chunks + sum[(S \ {f}) \ {p}]
        BY <2>3, <3>2
      <4>3. (S \ {p}) \ {f} = (S \ {f}) \ {p}
        OBVIOUS
      <4>4. sum[(S \ {f}) \ {p}] \in Nat
        BY <1>8
      <4>5. listing[f].chunks \in Nat /\ listing[p].chunks \in Nat
        BY <1>5
      <4> HIDE DEF Summed, Picked
      <4>6. sum[S] = listing[p].chunks + (listing[f].chunks + sum[(S \ {f}) \ {p}])
        BY <2>2, <4>1, <4>3, Zenon
      <4>7. listing[f].chunks + sum[S \ {f}]
              = listing[f].chunks + (listing[p].chunks + sum[(S \ {f}) \ {p}])
        BY <4>2, Zenon
      <4>8. \A a, b, z \in Nat : a + (b + z) = b + (a + z)
        OBVIOUS
      <4> QED
        BY <4>4, <4>5, <4>6, <4>7, <4>8, Zenon
    <3> QED
      BY <3>1, <3>2
  <2> QED
    BY <2>4, <2>5
<1> HIDE DEF N
<1>11. Nat \subseteq N
  BY <1>9, <1>10, Counting
<1>12. ASSUME NEW S \in SUBSET FileName PROVE Summed(S)
  <2>1. Cardinality(S) \in N
    BY <1>11, FilesFinite
  <2> QED
    BY <2>1 DEF N
<1> QED
  BY <1>2, <1>3, <1>12

\* What the fields of a copy hold.
LEMMA CopyFields ==
  ASSUME NEW r \in CopyState
  PROVE  /\ r.read \in Nat /\ r.read <= MaxChunks /\ r.arrived \in Nat /\ r.arrived <= MaxChunks
         /\ r.bytes \in Nat /\ r.total \in Nat /\ r.mixed \in BOOLEAN
         /\ r.todo \in SUBSET FileName /\ r.files \in SUBSET FileName
<1>1. r.read \in 0 .. MaxChunks /\ r.arrived \in 0 .. MaxChunks
  BY DEF CopyState
<1>2. r.bytes \in Nat /\ r.total \in Nat /\ r.mixed \in BOOLEAN
  BY DEF CopyState
<1>3. r.todo \in SUBSET FileName /\ r.files \in SUBSET FileName
  BY DEF CopyState
<1> QED
  BY <1>1, <1>2, <1>3, NetCopyAssumption

\* What a directory's files count is a number.
LEMMA ChunksNat ==
  ASSUME NEW directory \in [FileName -> File], NEW f \in FileName
  PROVE  directory[f].chunks \in Nat /\ directory[f].chunks <= MaxChunks
BY NetCopyAssumption DEF File

\* After the listing everything listed is still to be added.
LEMMA ListAdds ==
  ASSUME NEW r \in CopyState, NEW source \in [FileName -> File], NEW target, NEW server,
         r.at = "list", r.sized => Counted(r, source)
  PROVE  AddsUp([r EXCEPT !.at = "next", !.todo = Kept(source), !.files = Kept(source)],
                source, target, server)
<1> DEFINE s == [r EXCEPT !.at = "next", !.todo = Kept(source), !.files = Kept(source)]
<1>1. s.at = "next" /\ s.todo = Kept(source) /\ s.files = Kept(source) /\ s.bytes = r.bytes
      /\ s.total = r.total /\ s.sized = r.sized
  BY DEF CopyState
<1>2. /\ r.sized => r.bytes = 0 /\ r.total = Sizes(Kept(source), source)
      /\ Kept(source) \in SUBSET FileName
  BY DEF Counted, Kept
<1>3. Sizes(Kept(source), source) \in Nat
  BY <1>2, SizesSum
<1> HIDE DEF s
<1>4. s.sized => Counted(s, source)
  BY <1>1, <1>2, <1>3 DEF Counted, Handling
<1>5. Listed(s, source) /\ Behind(s, source, target, server)
  BY <1>1 DEF Listed, Behind, Handling
<1> QED
  BY <1>4, <1>5 DEF AddsUp, s

\* With nothing left to copy the account is closed.
LEMMA DoneAdds ==
  ASSUME NEW r \in CopyState, NEW source, NEW target, NEW server,
         r.at = "next", r.todo = {}, AddsUp(r, source, target, server)
  PROVE  AddsUp([r EXCEPT !.at = "done"], source, target, server)
<1> DEFINE s == [r EXCEPT !.at = "done"]
<1>1. s.at = "done" /\ s.todo = r.todo /\ s.files = r.files /\ s.bytes = r.bytes
      /\ s.total = r.total /\ s.sized = r.sized
  BY DEF CopyState
<1> HIDE DEF s
<1>2. s.sized => Counted(s, source)
  BY <1>1 DEF AddsUp, Counted, Handling
<1>3. Listed(s, source) /\ Behind(s, source, target, server)
  BY <1>1 DEF AddsUp, Listed, Behind, Handling
<1> QED
  BY <1>2, <1>3 DEF AddsUp, s

\* The next file is taken from what is left.
LEMMA OpenAdds ==
  ASSUME NEW r \in CopyState, NEW source \in [FileName -> File], NEW target, NEW server,
         r.at = "next", NEW f \in r.todo, AddsUp(r, source, target, server)
  PROVE  AddsUp([r EXCEPT !.at = "create", !.todo = @ \ {f}, !.file = f, !.read = 0, !.arrived = 0],
                source, target, server)
<1> DEFINE s == [r EXCEPT !.at = "create", !.todo = @ \ {f}, !.file = f, !.read = 0, !.arrived = 0]
<1>1. s.at = "create" /\ s.todo = r.todo \ {f} /\ s.file = f /\ s.read = 0 /\ s.files = r.files
      /\ s.bytes = r.bytes /\ s.total = r.total /\ s.sized = r.sized
  BY DEF CopyState
<1>2. r.todo \in SUBSET FileName /\ r.bytes \in Nat /\ r.total \in Nat /\ f \in FileName
  BY DEF CopyState
<1>3. Sizes(r.todo, source) = source[f].chunks + Sizes(r.todo \ {f}, source)
  BY <1>2, SizesSum
<1>4. r.sized => r.bytes + Sizes(r.todo, source) = r.total
  BY DEF AddsUp, Counted
<1>5. source[f].chunks \in Nat
  BY <1>2, ChunksNat
<1> HIDE DEF s
<1>6. s.sized => Counted(s, source)
  BY <1>1, <1>2, <1>3, <1>4 DEF Counted, Handling
<1>7. Listed(s, source)
  BY <1>1, <1>5 DEF AddsUp, Listed, Handling
<1>8. Behind(s, source, target, server)
  BY <1>1 DEF AddsUp, Behind, Handling
<1> QED
  BY <1>6, <1>7, <1>8 DEF AddsUp, s

\* Only the target and the channel to it change.
LEMMA WritesAdd ==
  ASSUME NEW r \in CopyState, NEW s \in CopyState, NEW source, NEW target, NEW target2, NEW server,
         r.at \in Handling, s.at \in {"stream", "close"},
         s.at = "close" => r.at = "close" \/ r.read = source[r.file].chunks,
         s.to = r.to, s.todo = r.todo, s.files = r.files, s.file = r.file, s.read = r.read,
         s.bytes = r.bytes, s.total = r.total /\ s.sized = r.sized,
         AddsUp(r, source, target, server),
         \A f \in r.files : f # r.file => target2[f] = target[f],
         s.to # "local" =>
           IF server = "ftp" THEN s.stor = "open" => target2[r.file].chunks = s.arrived
                             ELSE target2[r.file].chunks = s.read
  PROVE  AddsUp(s, source, target2, server)
<1>1. s.sized => Counted(s, source)
  BY DEF AddsUp, Counted, Handling
<1>2. Listed(s, source)
  BY DEF AddsUp, Listed, Handling
<1>3. Behind(s, source, target2, server)
  <2>1. \A f \in r.files \ r.todo : f = r.file \/ target[f] = WholeFile(source[f].chunks)
    BY DEF AddsUp, Behind
  <2>2. \A f \in s.files \ s.todo : f = s.file \/ target2[f] = WholeFile(source[f].chunks)
    BY <2>1
  <2>3. s.at \in Handling
    BY DEF Handling
  <2> QED
    BY <2>2, <2>3 DEF Behind, Handling
<1> QED
  BY <1>1, <1>2, <1>3 DEF AddsUp

\* A chunk counts once: for the progress and for the file.
LEMMA StreamAdds ==
  ASSUME NEW r \in CopyState, NEW source \in [FileName -> File], NEW target, NEW target2, NEW
    server,
         r.at = "stream", r.read < source[r.file].chunks, AddsUp(r, source, target, server),
         \A f \in r.files : f # r.file => target2[f] = target[f],
         r.to # "local" =>
           IF server = "ftp" THEN target2 = target ELSE target2[r.file].chunks = r.read + 1
  PROVE  AddsUp([r EXCEPT !.read = @ + 1, !.bytes = @ + 1], source, target2, server)
<1> DEFINE s == [r EXCEPT !.read = @ + 1, !.bytes = @ + 1]
<1>1. s.at = r.at /\ s.todo = r.todo /\ s.file = r.file /\ s.read = r.read + 1 /\ s.files = r.files
      /\ s.bytes = r.bytes + 1 /\ s.total = r.total /\ s.sized = r.sized /\ s.to = r.to
      /\ s.stor = r.stor
      /\ s.arrived = r.arrived
  BY DEF CopyState
<1>2. r.read \in Nat /\ r.bytes \in Nat /\ r.total \in Nat /\ r.todo \in SUBSET FileName
  BY CopyFields
<1>3. r.file \in FileName
  BY DEF AddsUp, Listed, Handling, Kept
<1>4. source[r.file].chunks \in Nat /\ Sizes(r.todo, source) \in Nat
  BY <1>2, <1>3, ChunksNat, SizesSum
<1> HIDE DEF s
<1>5. ASSUME s.sized PROVE Counted(s, source)
  <2>1. r.bytes + (source[r.file].chunks + Sizes(r.todo, source)) = r.total + r.read
    BY <1>1, <1>5 DEF AddsUp, Counted, Handling
  <2>2. (r.bytes + 1) + (source[r.file].chunks + Sizes(r.todo, source)) = r.total + (r.read + 1)
    BY <1>2, <1>4, <2>1
  <2> QED
    BY <1>1, <2>2 DEF Counted, Handling
<1>6. Listed(s, source)
  BY <1>1, <1>2, <1>4 DEF AddsUp, Listed, Handling
<1>7. Behind(s, source, target2, server)
  <2>1. \A f \in r.files \ r.todo : f = r.file \/ target[f] = WholeFile(source[f].chunks)
    BY DEF AddsUp, Behind, Handling
  <2>2. \A f \in s.files \ s.todo : f = s.file \/ target2[f] = WholeFile(source[f].chunks)
    BY <1>1, <2>1
  <2>3. r.to # "local" /\ server = "ftp" /\ r.stor = "open" => target[r.file].chunks = r.arrived
    BY DEF AddsUp, Behind
  <2> QED
    BY <1>1, <2>2, <2>3 DEF Behind, Handling
<1> QED
  BY <1>5, <1>6, <1>7 DEF AddsUp, s

\* A file that has been written whole is behind the copy.
LEMMA FileAdds ==
  ASSUME NEW r \in CopyState, NEW s \in CopyState, NEW source \in [FileName -> File],
         NEW target, NEW target2, NEW server,
         r.at \in {"close", "rename"}, s.at = "next", s.todo = r.todo, s.files = r.files,
         s.bytes = r.bytes, s.total = r.total /\ s.sized = r.sized,
         AddsUp(r, source, target, server),
         \A f \in r.files : f # r.file => target2[f] = target[f],
         target2[r.file] = WholeFile(r.read)
  PROVE  AddsUp(s, source, target2, server)
<1>1. r.file \in FileName /\ r.read = source[r.file].chunks
  BY DEF AddsUp, Listed, Handling, Kept
<1>2. r.bytes \in Nat /\ r.total \in Nat /\ r.read \in Nat /\ r.todo \in SUBSET FileName
  BY CopyFields
<1>3. Sizes(r.todo, source) \in Nat
  BY <1>2, SizesSum
<1>4. r.sized => r.bytes + (source[r.file].chunks + Sizes(r.todo, source)) = r.total + r.read
  BY DEF AddsUp, Counted, Handling
<1>5. ASSUME s.sized PROVE Counted(s, source)
  <2>1. r.bytes + Sizes(r.todo, source) = r.total
    BY <1>1, <1>2, <1>3, <1>4, <1>5
  <2> QED
    BY <2>1 DEF Counted, Handling
<1>6. Listed(s, source)
  BY DEF AddsUp, Listed, Handling
<1>7. Behind(s, source, target2, server)
  <2>1. \A f \in r.files \ r.todo : f = r.file \/ target[f] = WholeFile(source[f].chunks)
    BY DEF AddsUp, Behind, Handling
  <2> QED
    BY <1>1, <2>1 DEF Behind, Handling
<1> QED
  BY <1>5, <1>6, <1>7 DEF AddsUp

\* A step of the copy c to s: it may change its target and its temporary file.
Moves(c, s) ==
  /\ copy[c].at # "idle" /\ s.at # "idle" /\ s \in CopyState
  /\ s.from = copy[c].from /\ s.to = copy[c].to /\ s.mixed = copy[c].mixed
  /\ SetCopy(c, s)
  /\ dirs' \in [Side -> [FileName -> File]]
  /\ \A side \in Side : side # copy[c].to => dirs'[side] = dirs[side]
  /\ temps' \subseteq temps \cup {c} /\ UNCHANGED <<protocol, copies, copyKills>>

\* The same is due of a record as CopySound says of a copy.
RecordSound(s) ==
  /\ s.stor # "none" => s.to # "local" /\ protocol = "ftp" /\ s.at \in {"stream", "close"}
  /\ s.at \in Handling => s.file \in FileName
  /\ s.at = "rename" => s.to = "local"
  /\ s.arrived <= s.read
  /\ s.cut # {} => protocol = "ftp"
  /\ s.at = "create" \/ s.stor = "asked" => s.read = 0

\* Directories that an unmixed copy works in are left alone by the others.
LEMMA Apart ==
  ASSUME NetCopyInv, NEW c \in Copier, NEW d \in Copier, c # d,
         copy[c].at # "idle", copy[d].at # "idle", ~copy[d].mixed
  PROVE  copy[c].to # copy[d].from /\ copy[c].to # copy[d].to
BY DEF NetCopyInv, MeetingsMixed, Meets

\* A copy leads from one directory into another.
LEMMA TwoSides ==
  ASSUME NetCopyInv, NEW c \in Copier
  PROVE  /\ copy[c] \in CopyState /\ copy[c].from \in Side /\ copy[c].to \in Side
         /\ copy[c].from # copy[c].to
<1>1. copy[c] \in CopyState
  BY DEF NetCopyInv, CopyTypes
<1>2. <<copy[c].from, copy[c].to>> \in CopyKinds
  BY DEF NetCopyInv, CopiesSound, CopySound
<1> QED
  BY <1>1, <1>2 DEF CopyState, CopyKinds

\* A step of one copy keeps the invariant when its own account and record stay
\* sound and no half file is left on this computer.
LEMMA MoveKeeps ==
  ASSUME NetCopyInv, NEW c \in Copier, NEW s, Moves(c, s), RecordSound(s),
         copyKills = 0 /\ c \in temps' => s.at \in {"stream", "close", "rename"} /\ s.to = "local",
         ~s.mixed /\ s.cut = {} => AddsUp(s, dirs[s.from], dirs'[s.to], protocol),
         s.to = "local" => LocalWhole'
  PROVE  NetCopyInv'
<1> USE DEF Moves, SetCopy
<1>1. copy \in [Copier -> CopyState]
  BY DEF NetCopyInv, CopyTypes
<1>2. copy' = [copy EXCEPT ![c] = s] /\ copy'[c] = s /\ \A d \in Copier : d # c => copy'[d] =
  copy[d]
  BY <1>1
<1>3. copy' \in [Copier -> CopyState]
  BY <1>1, <1>2
<1>4. CopyTypes'
  BY <1>3 DEF NetCopyInv, CopyTypes
<1>5. CopiesSound'
  <2> SUFFICES ASSUME NEW d \in Copier PROVE CopySound(d)'
    BY DEF CopiesSound
  <2>1. CopySound(d)
    BY DEF NetCopyInv, CopiesSound
  <2>2. CASE d = c
    BY <1>2, <2>1, <2>2 DEF CopySound, RecordSound, ToLocal, ByStor
  <2>3. CASE d # c
    BY <1>2, <2>1, <2>3 DEF CopySound, ToLocal, ByStor
  <2> QED
    BY <2>2, <2>3
<1>6. MeetingsMixed'
  <2>1. \A d \in Copier : /\ copy'[d].at = "idle" <=> copy[d].at = "idle"
                          /\ copy'[d].from = copy[d].from /\ copy'[d].to = copy[d].to
                          /\ copy'[d].mixed = copy[d].mixed
    BY <1>2
  <2> HIDE DEF Moves
  <2> QED
    BY <2>1 DEF NetCopyInv, MeetingsMixed, Meets
<1>7. TempsOwned'
  <2> SUFFICES ASSUME copyKills = 0, NEW d \in temps'
               PROVE  copy'[d].at \in {"stream", "close", "rename"} /\ copy'[d].to = "local"
    BY DEF TempsOwned, ToLocal
  <2>1. CASE d = c
    BY <1>2, <2>1
  <2>2. CASE d # c
    BY <1>2, <2>2 DEF NetCopyInv, CopyTypes, TempsOwned, ToLocal
  <2> QED
    BY <2>1, <2>2
<1>8. LocalWhole'
  <2>1. CASE s.to # "local"
    <3>1. dirs'["local"] = dirs["local"]
      BY <2>1 DEF Side
    <3> QED
      BY <3>1 DEF NetCopyInv, LocalWhole, Present
  <2> QED
    BY <2>1
<1>9. ASSUME NEW d \in Copier PROVE AccountOf(d)'
  <2>1. CASE d = c
    <3>1. dirs'[s.from] = dirs[s.from]
      BY TwoSides
    <3> QED
      BY <1>2, <2>1, <3>1 DEF AccountOf
  <2>2. CASE d # c
    <3> SUFFICES ASSUME copy[d].at # "idle", ~copy[d].mixed, copy[d].cut = {}
                 PROVE  AddsUp(copy[d], dirs'[copy[d].from], dirs'[copy[d].to], protocol)
      BY <1>2, <2>2 DEF AccountOf
    <3>1. copy[c].to # copy[d].from /\ copy[c].to # copy[d].to
      BY <2>2, Apart
    <3>2. dirs'[copy[d].from] = dirs[copy[d].from] /\ dirs'[copy[d].to] = dirs[copy[d].to]
      BY <3>1, TwoSides
    <3>3. AccountOf(d)
      BY DEF NetCopyInv
    <3> QED
      BY <3>2, <3>3 DEF AccountOf
  <2> QED
    BY <2>1, <2>2
<1> QED
  BY <1>4, <1>5, <1>6, <1>7, <1>8, <1>9 DEF NetCopyInv

\* What a step finds: the record of its copy and, of an unmixed one, the account.
LEMMA Found ==
  ASSUME NetCopyInv, NEW c \in Copier
  PROVE  /\ copy[c] \in CopyState /\ copy[c].from \in Side /\ copy[c].to \in Side
         /\ copy[c].from # copy[c].to
         /\ dirs \in [Side -> [FileName -> File]]
         /\ dirs[copy[c].from] \in [FileName -> File] /\ dirs[copy[c].to] \in [FileName -> File]
         /\ RecordSound(copy[c])
         /\ c \in temps /\ copyKills = 0 => copy[c].at \in {"stream", "close", "rename"} /\
           ToLocal(c)
         /\ copy[c].at # "idle" /\ ~copy[c].mixed /\ copy[c].cut = {} =>
              AddsUp(copy[c], dirs[copy[c].from], dirs[copy[c].to], protocol)
<1>1. copy[c] \in CopyState /\ copy[c].from \in Side /\ copy[c].to \in Side /\ copy[c].from #
  copy[c].to
  BY TwoSides
<1>2. dirs \in [Side -> [FileName -> File]]
  BY DEF NetCopyInv, CopyTypes
<1>3. RecordSound(copy[c])
  BY DEF NetCopyInv, CopiesSound, CopySound, RecordSound, ToLocal, ByStor
<1>4. AccountOf(c)
  BY DEF NetCopyInv
<1> QED
  BY <1>1, <1>2, <1>3, <1>4 DEF AccountOf, NetCopyInv, TempsOwned

\* The listing of the source.
LEMMA ListStep ==
  ASSUME NetCopyInv, NEW c \in Copier, ListSource(c)
  PROVE  NetCopyInv'
<1> DEFINE r == copy[c]
           s == [r EXCEPT !.at = "next", !.todo = Kept(dirs[r.from]), !.files = Kept(dirs[r.from])]
<1>1. r.at = "list" /\ SetCopy(c, s) /\ UNCHANGED <<protocol, dirs, temps, copies,
  copyKills>>
  BY DEF ListSource, Present, Kept
<1>2. s \in CopyState
  <2>1. r \in CopyState
    BY TwoSides
  <2> QED
    BY <2>1 DEF CopyState, Kept
<1>3. s.at = "next" /\ s.from = r.from /\ s.to = r.to /\ s.mixed = r.mixed /\ s.cut = r.cut
      /\ s.stor = r.stor
      /\ s.arrived = r.arrived /\ s.read = r.read
  BY TwoSides DEF CopyState
<1>4. ~r.mixed /\ r.cut = {} => AddsUp(s, dirs[r.from], dirs[r.to], protocol)
  BY <1>1, Found, ListAdds DEF AddsUp
<1> HIDE DEF s
<1>5. Moves(c, s)
  BY <1>1, <1>2, <1>3, Found DEF Moves, NetCopyInv, CopyTypes
<1>6. RecordSound(s)
  BY <1>1, <1>3, Found DEF RecordSound, Handling
<1>7. ~(copyKills = 0 /\ c \in temps')
  BY <1>1, Found
<1>8. LocalWhole'
  BY <1>1 DEF NetCopyInv, LocalWhole, Present
<1> QED
  BY <1>1, <1>3, <1>4, <1>5, <1>6, <1>7, <1>8, MoveKeeps

\* The next file, or the end of the copy.
LEMMA OpenReadStep ==
  ASSUME NetCopyInv, NEW c \in Copier, OpenRead(c)
  PROVE  NetCopyInv'
<1> DEFINE r == copy[c]
<1>1. r.at = "next" /\ UNCHANGED <<protocol, dirs, temps, copies, copyKills>>
  BY DEF OpenRead
<1>2. ~(copyKills = 0 /\ c \in temps')
  BY <1>1, Found
<1>3. LocalWhole'
  BY <1>1 DEF NetCopyInv, LocalWhole, Present
<1>4. CASE r.todo = {} /\ SetCopy(c, [r EXCEPT !.at = "done"])
  <2> DEFINE s == [r EXCEPT !.at = "done"]
  <2>1. s \in CopyState
    <3>1. r \in CopyState
      BY TwoSides
    <3> QED
      BY <3>1 DEF CopyState
  <2>2. s.at = "done" /\ s.from = r.from /\ s.to = r.to /\ s.mixed = r.mixed /\ s.cut = r.cut
      /\ s.stor = r.stor
        /\ s.arrived = r.arrived /\ s.read = r.read
    BY TwoSides DEF CopyState
  <2>3. ~r.mixed /\ r.cut = {} => AddsUp(s, dirs[r.from], dirs[r.to], protocol)
    BY <1>1, <1>4, Found, DoneAdds
  <2> HIDE DEF s
  <2>4. Moves(c, s)
    BY <1>1, <1>4, <2>1, <2>2, Found DEF Moves, NetCopyInv, CopyTypes, s
  <2>5. RecordSound(s)
    BY <1>1, <2>2, Found DEF RecordSound, Handling
  <2> QED
    BY <1>1, <1>2, <1>3, <2>2, <2>3, <2>4, <2>5, MoveKeeps
<1>5. ASSUME NEW f \in r.todo,
             SetCopy(c, [r EXCEPT !.at = "create", !.todo = @ \ {f}, !.file = f, !.read = 0,
                                  !.arrived = 0])
      PROVE  NetCopyInv'
  <2> DEFINE s == [r EXCEPT !.at = "create", !.todo = @ \ {f}, !.file = f, !.read = 0, !.arrived
    = 0]
  <2>1. s \in CopyState
    <3>1. 0 \in 0 .. MaxChunks
      BY NetCopyAssumption
    <3>2. r \in CopyState /\ f \in FileName /\ r.todo \ {f} \in SUBSET FileName
      BY Found, CopyFields
    <3> QED
      BY <3>1, <3>2 DEF CopyState
  <2>2. s.at = "create" /\ s.from = r.from /\ s.to = r.to /\ s.mixed = r.mixed
      /\ s.cut = r.cut /\ s.stor = r.stor
        /\ s.arrived = 0 /\ s.read = 0 /\ s.file = f /\ f \in FileName
    BY TwoSides DEF CopyState
  <2>3. ~r.mixed /\ r.cut = {} => AddsUp(s, dirs[r.from], dirs[r.to], protocol)
    BY <1>1, Found, OpenAdds
  <2> HIDE DEF s
  <2>4. Moves(c, s)
    BY <1>1, <1>5, <2>1, <2>2, Found DEF Moves, NetCopyInv, CopyTypes, s
  <2>5. RecordSound(s)
    BY <1>1, <2>2, Found DEF RecordSound, Handling
  <2> QED
    BY <1>1, <1>2, <1>3, <2>2, <2>3, <2>4, <2>5, MoveKeeps
<1> QED
  BY <1>4, <1>5 DEF OpenRead

\* What a copy writes into its target, and how the target changes.
LEMMA Puts ==
  ASSUME NetCopyInv, NEW side \in Side, NEW f \in FileName, NEW file \in File, Put(side, f, file)
  PROVE  /\ dirs' \in [Side -> [FileName -> File]]
         /\ \A other \in Side : other # side => dirs'[other] = dirs[other]
         /\ dirs'[side][f] = file /\ \A g \in FileName : g # f => dirs'[side][g] = dirs[side][g]
<1>1. dirs \in [Side -> [FileName -> File]]
  BY DEF NetCopyInv, CopyTypes
<1> QED
  BY <1>1 DEF Put

\* Files of any length up to the bound are files.
LEMMA Fits ==
  ASSUME NEW n \in Nat, n <= MaxChunks
  PROVE  HalfFile(n) \in File /\ WholeFile(n) \in File /\ EndedFile(n) \in File
BY NetCopyAssumption DEF HalfFile, WholeFile, EndedFile, File

\* A download opens its temporary file, SFTP truncates the target, FTP asks.
LEMMA OpenWriteStep ==
  ASSUME NetCopyInv, NEW c \in Copier, OpenWrite(c)
  PROVE  NetCopyInv'
<1> DEFINE r == copy[c]
           s == [r EXCEPT !.at = "stream", !.stor = IF ByStor(c) THEN "asked" ELSE "none"]
<1>1. r.at = "create" /\ SetCopy(c, s) /\ UNCHANGED <<protocol, copies, copyKills>>
      /\ temps' = IF ToLocal(c) THEN temps \cup {c} ELSE temps
  BY DEF OpenWrite
<1>2. s \in CopyState
  <2>1. r \in CopyState
    BY TwoSides
  <2> QED
    BY <2>1 DEF CopyState
<1>3. s.at = "stream" /\ s.from = r.from /\ s.to = r.to /\ s.mixed = r.mixed /\ s.cut = r.cut
      /\ s.stor = (IF ByStor(c) THEN "asked" ELSE "none") /\ s.todo = r.todo /\ s.files = r.files
      /\ s.file = r.file /\ s.bytes = r.bytes /\ s.total = r.total /\ s.sized = r.sized
      /\ s.arrived = r.arrived /\ s.read = r.read
  BY TwoSides DEF CopyState
<1> HIDE DEF s
<1>4. r.file \in FileName /\ r.read = 0 /\ RecordSound(r)
  BY <1>1, Found DEF RecordSound, Handling
<1>5. RecordSound(s)
  BY <1>3, <1>4 DEF RecordSound, ByStor, ToLocal, Handling
<1>6. copyKills = 0 /\ c \in temps' => s.to = "local"
  <2>1. c \in temps /\ copyKills = 0 => ToLocal(c)
    BY Found
  <2> QED
    BY <1>1, <1>3, <2>1 DEF ToLocal
<1>7. r \in CopyState /\ r.at \in Handling /\ r.files \in SUBSET FileName
  BY <1>1, Found DEF Handling, CopyState
<1>8. CASE ToLocal(c) \/ ByStor(c)
  <2>1. dirs' = dirs
    BY <1>8 DEF OpenWrite
  <2>2. ~r.mixed /\ r.cut = {} => AddsUp(s, dirs[r.from], dirs'[r.to], protocol)
    <3> SUFFICES ASSUME ~r.mixed, r.cut = {} PROVE AddsUp(s, dirs[r.from], dirs'[r.to], protocol)
      OBVIOUS
    <3>1. AddsUp(r, dirs[r.from], dirs[r.to], protocol)
      BY <1>1, Found
    <3>2. s.to # "local" => protocol = "ftp" /\ s.stor # "open"
      BY <1>3, <1>8 DEF ByStor, ToLocal
    <3> QED
      BY <1>2, <1>3, <1>7, <2>1, <3>1, <3>2, WritesAdd
  <2>3. Moves(c, s)
    BY <1>1, <1>2, <1>3, <2>1, Found DEF Moves, NetCopyInv, CopyTypes
  <2>4. LocalWhole'
    BY <1>1, <2>1 DEF NetCopyInv, LocalWhole, Present
  <2> QED
    BY <1>1, <1>3, <1>5, <1>6, <2>2, <2>3, <2>4, MoveKeeps
<1>9. CASE ~(ToLocal(c) \/ ByStor(c))
  <2>1. Put(r.to, r.file, HalfFile(0)) /\ r.to # "local" /\ protocol # "ftp"
    BY <1>9 DEF OpenWrite, ToLocal, ByStor
  <2>2. HalfFile(0) \in File /\ r.to \in Side
    BY Fits, NetCopyAssumption, Found
  <2>3. /\ dirs' \in [Side -> [FileName -> File]]
        /\ \A side \in Side : side # r.to => dirs'[side] = dirs[side]
        /\ dirs'[r.to][r.file] = HalfFile(0)
        /\ \A g \in FileName : g # r.file => dirs'[r.to][g] = dirs[r.to][g]
    BY <1>4, <2>1, <2>2, Puts
  <2>4. ~r.mixed /\ r.cut = {} => AddsUp(s, dirs[r.from], dirs'[r.to], protocol)
    <3> SUFFICES ASSUME ~r.mixed, r.cut = {} PROVE AddsUp(s, dirs[r.from], dirs'[r.to], protocol)
      OBVIOUS
    <3>1. AddsUp(r, dirs[r.from], dirs[r.to], protocol)
      BY <1>1, Found
    <3>2. dirs'[r.to][r.file].chunks = s.read
      BY <1>3, <1>4, <2>3 DEF HalfFile
    <3>3. \A f \in r.files : f # r.file => dirs'[r.to][f] = dirs[r.to][f]
      BY <1>7, <2>3
    <3> QED
      BY <1>2, <1>3, <1>7, <2>1, <3>1, <3>2, <3>3, WritesAdd
  <2>5. Moves(c, s)
    BY <1>1, <1>2, <1>3, <1>9, <2>3 DEF Moves, NetCopyInv, CopyTypes
  <2> QED
    BY <1>1, <1>3, <1>5, <1>6, <2>1, <2>4, <2>5, MoveKeeps
<1> QED
  BY <1>8, <1>9

\* The server takes the STOR and truncates the target.
LEMMA StorOpensStep ==
  ASSUME NetCopyInv, NEW c \in Copier, StorOpens(c)
  PROVE  NetCopyInv'
<1> DEFINE r == copy[c]
           s == [r EXCEPT !.stor = "open"]
<1>1. r.stor = "asked" /\ SetCopy(c, s) /\ UNCHANGED <<protocol, temps, copies,
  copyKills>>
      /\ Put(r.to, r.file, HalfFile(0))
  BY DEF StorOpens
<1>2. s \in CopyState
  <2>1. r \in CopyState
    BY TwoSides
  <2> QED
    BY <2>1 DEF CopyState
<1>3. s.stor = "open" /\ s.at = r.at /\ s.from = r.from /\ s.to = r.to /\ s.mixed = r.mixed
      /\ s.cut = r.cut
      /\ s.todo = r.todo /\ s.files = r.files /\ s.file = r.file /\ s.bytes = r.bytes
      /\ s.total = r.total /\ s.sized = r.sized /\ s.arrived = r.arrived /\ s.read = r.read
  BY TwoSides DEF CopyState
<1> HIDE DEF s
<1>4. r.at \in {"stream", "close"} /\ r.to # "local" /\ protocol = "ftp" /\ r.file \in FileName
      /\ r.read = 0 /\ r.arrived = 0 /\ r \in CopyState /\ r.files \in SUBSET FileName
  BY <1>1, Found, CopyFields DEF RecordSound, Handling
<1>5. RecordSound(s)
  BY <1>3, <1>4, Found DEF RecordSound, Handling
<1>6. ~(copyKills = 0 /\ c \in temps')
  BY <1>1, <1>4, Found DEF ToLocal
<1>7. HalfFile(0) \in File /\ r.to \in Side
  BY Fits, NetCopyAssumption, Found
<1>8. /\ dirs' \in [Side -> [FileName -> File]]
      /\ \A side \in Side : side # r.to => dirs'[side] = dirs[side]
      /\ dirs'[r.to][r.file] = HalfFile(0)
      /\ \A g \in FileName : g # r.file => dirs'[r.to][g] = dirs[r.to][g]
  BY <1>1, <1>4, <1>7, Puts
<1>9. ~r.mixed /\ r.cut = {} => AddsUp(s, dirs[r.from], dirs'[r.to], protocol)
  <2> SUFFICES ASSUME ~r.mixed, r.cut = {} PROVE AddsUp(s, dirs[r.from], dirs'[r.to], protocol)
    OBVIOUS
  <2>1. AddsUp(r, dirs[r.from], dirs[r.to], protocol)
    BY <1>4, Found
  <2>2. dirs'[r.to][r.file].chunks = s.arrived
    BY <1>3, <1>4, <1>8 DEF HalfFile
  <2>3. \A f \in r.files : f # r.file => dirs'[r.to][f] = dirs[r.to][f]
    BY <1>4, <1>8
  <2>4. r.at \in Handling /\ (s.at = "close" => r.at = "close")
    BY <1>3, <1>4 DEF Handling
  <2> QED
    BY <1>2, <1>3, <1>4, <2>1, <2>2, <2>3, <2>4, WritesAdd
<1>10. Moves(c, s)
  BY <1>1, <1>2, <1>3, <1>4, <1>8 DEF Moves, NetCopyInv, CopyTypes
<1> QED
  BY <1>1, <1>3, <1>4, <1>5, <1>6, <1>9, <1>10, MoveKeeps

\* The server refuses the STOR or breaks it off.
LEMMA StorFailsStep ==
  ASSUME NetCopyInv, NEW c \in Copier, StorFails(c)
  PROVE  NetCopyInv'
<1> DEFINE r == copy[c]
           s == [r EXCEPT !.stor = "failed"]
<1>1. r.stor # "none" /\ SetCopy(c, s)
      /\ UNCHANGED <<protocol, dirs, temps, copies, copyKills>>
  BY DEF StorFails
<1>2. s \in CopyState
  <2>1. r \in CopyState
    BY TwoSides
  <2> QED
    BY <2>1 DEF CopyState
<1>3. s.stor = "failed" /\ s.at = r.at /\ s.from = r.from /\ s.to = r.to /\ s.mixed = r.mixed
      /\ s.cut = r.cut
      /\ s.todo = r.todo /\ s.files = r.files /\ s.file = r.file /\ s.bytes = r.bytes
      /\ s.total = r.total /\ s.sized = r.sized /\ s.arrived = r.arrived /\ s.read = r.read
  BY TwoSides DEF CopyState
<1> HIDE DEF s
<1>4. r.at \in {"stream", "close"} /\ r.to # "local" /\ protocol = "ftp" /\ r \in CopyState
  BY <1>1, Found DEF RecordSound
<1>5. RecordSound(s)
  BY <1>3, <1>4, Found DEF RecordSound, Handling
<1>6. ~(copyKills = 0 /\ c \in temps')
  BY <1>1, <1>4, Found DEF ToLocal
<1>7. ~r.mixed /\ r.cut = {} => AddsUp(s, dirs[r.from], dirs[r.to], protocol)
  <2> SUFFICES ASSUME ~r.mixed, r.cut = {} PROVE AddsUp(s, dirs[r.from], dirs[r.to], protocol)
    OBVIOUS
  <2>1. AddsUp(r, dirs[r.from], dirs[r.to], protocol)
    BY <1>4, Found
  <2>2. r.at \in Handling /\ (s.at = "close" => r.at = "close")
    BY <1>3, <1>4 DEF Handling
  <2> QED
    BY <1>2, <1>3, <1>4, <2>1, <2>2, WritesAdd
<1>8. Moves(c, s)
  BY <1>1, <1>2, <1>3, <1>4, Found DEF Moves, NetCopyInv, CopyTypes
<1> QED
  BY <1>1, <1>3, <1>4, <1>5, <1>6, <1>7, <1>8, MoveKeeps

\* The server stores a chunk: it never holds more than was handed over.
LEMMA ArriveStep ==
  ASSUME NetCopyInv, NEW c \in Copier, Arrive(c)
  PROVE  NetCopyInv'
<1> DEFINE r == copy[c]
           s == [r EXCEPT !.arrived = @ + 1]
           n == Longer(dirs[r.to][r.file].chunks, r.arrived + 1)
<1>1. r.stor = "open" /\ r.arrived < r.read /\ SetCopy(c, s)
      /\ UNCHANGED <<protocol, temps, copies, copyKills>> /\ Put(r.to, r.file,
        HalfFile(n))
  BY DEF Arrive
<1>2. r.at \in {"stream", "close"} /\ r.to # "local" /\ protocol = "ftp" /\ r.file \in FileName
      /\ r \in CopyState /\ r.files \in SUBSET FileName
      /\ r.arrived \in Nat /\ r.read \in Nat /\ r.read <= MaxChunks
  BY <1>1, Found, CopyFields DEF RecordSound, Handling
<1>3. r.arrived + 1 \in 0 .. MaxChunks
  BY <1>1, <1>2, NetCopyAssumption
<1>4. s \in CopyState
  BY <1>2, <1>3 DEF CopyState
<1>5. s.arrived = r.arrived + 1 /\ s.at = r.at /\ s.from = r.from /\ s.to = r.to
      /\ s.mixed = r.mixed /\ s.cut = r.cut
      /\ s.todo = r.todo /\ s.files = r.files /\ s.file = r.file /\ s.bytes = r.bytes
      /\ s.total = r.total /\ s.sized = r.sized /\ s.stor = r.stor /\ s.read = r.read
  BY <1>2 DEF CopyState
<1> HIDE DEF s
<1>6. RecordSound(s)
  BY <1>1, <1>2, <1>5, Found DEF RecordSound, Handling
<1>7. ~(copyKills = 0 /\ c \in temps')
  BY <1>1, <1>2, Found DEF ToLocal
<1>8. dirs[r.to][r.file].chunks \in Nat /\ dirs[r.to][r.file].chunks <= MaxChunks
  BY <1>2, Found, ChunksNat
<1>9. HalfFile(n) \in File /\ r.to \in Side
  <2>1. n \in Nat /\ n <= MaxChunks
    BY <1>2, <1>3, <1>8 DEF Longer
  <2> HIDE DEF n
  <2> QED
    BY <2>1, Fits, Found
<1>10. /\ dirs' \in [Side -> [FileName -> File]]
       /\ \A side \in Side : side # r.to => dirs'[side] = dirs[side]
       /\ dirs'[r.to][r.file] = HalfFile(n)
       /\ \A g \in FileName : g # r.file => dirs'[r.to][g] = dirs[r.to][g]
  <2> HIDE DEF n
  <2> QED
    BY <1>1, <1>2, <1>9, Puts
<1>11. ~r.mixed /\ r.cut = {} => AddsUp(s, dirs[r.from], dirs'[r.to], protocol)
  <2> SUFFICES ASSUME ~r.mixed, r.cut = {} PROVE AddsUp(s, dirs[r.from], dirs'[r.to], protocol)
    OBVIOUS
  <2>1. AddsUp(r, dirs[r.from], dirs[r.to], protocol)
    BY <1>2, Found
  <2>2. dirs[r.to][r.file].chunks = r.arrived
    BY <1>1, <1>2, <2>1 DEF AddsUp, Behind
  <2>3. dirs'[r.to][r.file].chunks = s.arrived
    BY <1>2, <1>5, <1>10, <2>2 DEF HalfFile, Longer
  <2>4. \A f \in r.files : f # r.file => dirs'[r.to][f] = dirs[r.to][f]
    BY <1>2, <1>10
  <2>5. r.at \in Handling /\ (s.at = "close" => r.at = "close")
    BY <1>2, <1>5 DEF Handling
  <2> QED
    BY <1>2, <1>4, <1>5, <2>1, <2>3, <2>4, <2>5, WritesAdd
<1> HIDE DEF n
<1>12. Moves(c, s)
  BY <1>1, <1>2, <1>4, <1>5, <1>10 DEF Moves, NetCopyInv, CopyTypes
<1> QED
  BY <1>1, <1>2, <1>5, <1>6, <1>7, <1>11, <1>12, MoveKeeps

\* A buffer is read and written.
LEMMA StreamStep ==
  ASSUME NetCopyInv, NEW c \in Copier, StreamChunk(c)
  PROVE  NetCopyInv'
<1> DEFINE r == copy[c]
           s == [r EXCEPT !.read = @ + 1, !.bytes = @ + 1]
           n == Longer(dirs[r.to][r.file].chunks, r.read + 1)
<1>1. r.at = "stream" /\ r.read < dirs[r.from][r.file].chunks /\ SetCopy(c, s)
      /\ (ByStor(c) => r.stor = "open") /\ UNCHANGED <<protocol, temps, copies,
        copyKills>>
  BY DEF StreamChunk
<1>2. r.file \in FileName /\ r \in CopyState /\ r.files \in SUBSET FileName
      /\ r.read \in Nat /\ r.bytes \in Nat /\ r.arrived \in Nat /\ r.arrived <= r.read
  BY <1>1, Found, CopyFields DEF RecordSound, Handling
<1>3. /\ dirs[r.to][r.file].chunks \in Nat /\ dirs[r.to][r.file].chunks <= MaxChunks
      /\ dirs[r.from][r.file].chunks \in Nat /\ dirs[r.from][r.file].chunks <= MaxChunks
  BY <1>2, Found, ChunksNat
<1>4. r.read + 1 \in 0 .. MaxChunks
  BY <1>1, <1>2, <1>3, NetCopyAssumption
<1>5. s \in CopyState
  <2>1. r.bytes + 1 \in Nat
    BY <1>2
  <2> QED
    BY <1>2, <1>4, <2>1 DEF CopyState
<1>6. s.read = r.read + 1 /\ s.at = r.at /\ s.from = r.from /\ s.to = r.to
      /\ s.mixed = r.mixed /\ s.cut = r.cut
      /\ s.file = r.file /\ s.stor = r.stor /\ s.arrived = r.arrived
  BY <1>2 DEF CopyState
<1> HIDE DEF s
<1>7. RecordSound(s)
  <2>1. r.stor # "asked"
    BY <1>1, Found DEF RecordSound, ByStor, ToLocal
  <2> QED
    BY <1>1, <1>2, <1>6, <2>1, Found DEF RecordSound, Handling
<1>8. copyKills = 0 /\ c \in temps' => s.to = "local"
  BY <1>1, <1>6, Found DEF ToLocal
<1>9. CASE ToLocal(c) \/ ByStor(c)
  <2>1. dirs' = dirs
    BY <1>9 DEF StreamChunk
  <2>2. ~r.mixed /\ r.cut = {} => AddsUp(s, dirs[r.from], dirs'[r.to], protocol)
    <3> SUFFICES ASSUME ~r.mixed, r.cut = {} PROVE AddsUp(s, dirs[r.from], dirs'[r.to], protocol)
      OBVIOUS
    <3>1. AddsUp(r, dirs[r.from], dirs[r.to], protocol)
      BY <1>1, Found
    <3>2. r.to # "local" => protocol = "ftp"
      BY <1>9 DEF ByStor, ToLocal
    <3> QED
      BY <1>1, <1>2, <2>1, <3>1, <3>2, Found, StreamAdds DEF s
  <2>3. Moves(c, s)
    BY <1>1, <1>5, <1>6, <2>1, Found DEF Moves, NetCopyInv, CopyTypes
  <2>4. LocalWhole'
    BY <1>1, <2>1 DEF NetCopyInv, LocalWhole, Present
  <2> QED
    BY <1>1, <1>6, <1>7, <1>8, <2>2, <2>3, <2>4, MoveKeeps
<1>10. CASE ~(ToLocal(c) \/ ByStor(c))
  <2>1. Put(r.to, r.file, HalfFile(n)) /\ r.to # "local" /\ protocol # "ftp"
    BY <1>10 DEF StreamChunk, ToLocal, ByStor
  <2>2. HalfFile(n) \in File /\ r.to \in Side
    <3>1. n \in Nat /\ n <= MaxChunks
      BY <1>2, <1>3, <1>4 DEF Longer
    <3> HIDE DEF n
    <3> QED
      BY <3>1, Fits, Found
  <2>3. /\ dirs' \in [Side -> [FileName -> File]]
        /\ \A side \in Side : side # r.to => dirs'[side] = dirs[side]
        /\ dirs'[r.to][r.file] = HalfFile(n)
        /\ \A g \in FileName : g # r.file => dirs'[r.to][g] = dirs[r.to][g]
    <3> HIDE DEF n
    <3> QED
      BY <1>2, <2>1, <2>2, Puts
  <2>4. ~r.mixed /\ r.cut = {} => AddsUp(s, dirs[r.from], dirs'[r.to], protocol)
    <3> SUFFICES ASSUME ~r.mixed, r.cut = {} PROVE AddsUp(s, dirs[r.from], dirs'[r.to], protocol)
      OBVIOUS
    <3>1. AddsUp(r, dirs[r.from], dirs[r.to], protocol)
      BY <1>1, Found
    <3>2. dirs[r.to][r.file].chunks = r.read
      BY <1>1, <2>1, <3>1 DEF AddsUp, Behind
    <3>3. dirs'[r.to][r.file].chunks = r.read + 1
      BY <1>2, <2>3, <3>2 DEF HalfFile, Longer
    <3>4. \A f \in r.files : f # r.file => dirs'[r.to][f] = dirs[r.to][f]
      BY <1>2, <2>3
    <3> HIDE DEF n
    <3> QED
      BY <1>1, <1>2, <2>1, <3>1, <3>3, <3>4, Found, StreamAdds DEF s
  <2> HIDE DEF n
  <2>5. Moves(c, s)
    BY <1>1, <1>5, <1>6, <2>3 DEF Moves, NetCopyInv, CopyTypes
  <2> QED
    BY <1>1, <1>6, <1>7, <1>8, <2>1, <2>4, <2>5, MoveKeeps
<1> QED
  BY <1>9, <1>10

\* The end of the source: unless an FTP server ended it early all has been read.
LEMMA EndsStep ==
  ASSUME NetCopyInv, NEW c \in Copier, SourceEnds(c)
  PROVE  NetCopyInv'
<1> DEFINE r == copy[c]
           short == r.read < dirs[r.from][r.file].chunks
           s == [r EXCEPT !.at = "close", !.cut = IF short THEN @ \cup {r.file} ELSE @]
<1>1. r.at = "stream" /\ SetCopy(c, s) /\ UNCHANGED <<protocol, dirs, temps, copies, copyKills>>
  BY DEF SourceEnds
<1>2. r \in CopyState /\ r.file \in FileName /\ r.read \in Nat
  BY <1>1, Found, CopyFields DEF RecordSound, Handling
<1>3. s \in CopyState
  <2>1. (IF short THEN r.cut \cup {r.file} ELSE r.cut) \in SUBSET FileName
    BY <1>2 DEF CopyState
  <2> HIDE DEF short
  <2> QED
    BY <1>2, <2>1 DEF CopyState
<1>4. s.at = "close" /\ s.from = r.from /\ s.to = r.to /\ s.mixed = r.mixed /\ s.stor = r.stor
      /\ s.cut = (IF short THEN r.cut \cup {r.file} ELSE r.cut) /\ s.todo = r.todo
      /\ s.files = r.files /\ s.file = r.file /\ s.bytes = r.bytes
      /\ s.total = r.total /\ s.sized = r.sized /\ s.arrived = r.arrived /\ s.read = r.read
  BY <1>2 DEF CopyState
<1> HIDE DEF s
<1>5. RecordSound(s)
  <2>1. short => protocol = "ftp"
    BY DEF SourceEnds
  <2> QED
    BY <1>1, <1>4, <2>1, Found DEF RecordSound, Handling
<1>6. copyKills = 0 /\ c \in temps' => s.to = "local"
  BY <1>1, <1>4, Found DEF ToLocal
<1>7. ~r.mixed /\ s.cut = {} => AddsUp(s, dirs[r.from], dirs[r.to], protocol)
  <2> SUFFICES ASSUME ~r.mixed, s.cut = {} PROVE AddsUp(s, dirs[r.from], dirs[r.to], protocol)
    OBVIOUS
  <2>1. r.cut = {} /\ ~short
    BY <1>4
  <2>2. AddsUp(r, dirs[r.from], dirs[r.to], protocol)
    BY <1>1, <2>1, Found
  <2>3. dirs[r.from][r.file].chunks \in Nat
    BY <1>2, Found, ChunksNat
  <2>4. r.read = dirs[r.from][r.file].chunks
    BY <1>1, <1>2, <2>1, <2>2, <2>3 DEF AddsUp, Listed, Handling
  <2>5. r.at \in Handling
    BY <1>1 DEF Handling
  <2>6. s.to # "local" =>
          IF protocol = "ftp" THEN s.stor = "open" => dirs[r.to][r.file].chunks = s.arrived
                              ELSE dirs[r.to][r.file].chunks = s.read
    BY <1>1, <1>4, <2>2 DEF AddsUp, Behind
  <2> HIDE DEF short
  <2> QED
    BY <1>2, <1>3, <1>4, <2>2, <2>4, <2>5, <2>6, WritesAdd
<1>8. Moves(c, s)
  <2> HIDE DEF short
  <2> QED
    BY <1>1, <1>3, <1>4, Found DEF Moves
<1>9. LocalWhole'
  BY <1>1 DEF NetCopyInv, LocalWhole, Present
<1> QED
  BY <1>1, <1>4, <1>5, <1>6, <1>7, <1>8, <1>9, MoveKeeps

\* A download is closed before it is renamed.
LEMMA CloseAdds ==
  ASSUME NEW r \in CopyState, NEW s \in CopyState, NEW source, NEW target, NEW server,
         r.at = "close", s.at = "rename", s.to = r.to, s.todo = r.todo, s.files = r.files,
         s.file = r.file, s.read = r.read, s.bytes = r.bytes,
         s.total = r.total /\ s.sized = r.sized,
         AddsUp(r, source, target, server)
  PROVE  AddsUp(s, source, target, server)
<1>1. s.sized => Counted(s, source)
  BY DEF AddsUp, Counted, Handling
<1>2. Listed(s, source)
  BY DEF AddsUp, Listed, Handling
<1>3. Behind(s, source, target, server)
  BY DEF AddsUp, Behind, Handling
<1> QED
  BY <1>1, <1>2, <1>3 DEF AddsUp

\* Close: what has arrived is all that was read, and the file is whole.
LEMMA CloseStep ==
  ASSUME NetCopyInv, NEW c \in Copier, CloseWriter(c)
  PROVE  NetCopyInv'
<1> DEFINE r == copy[c]
           s == [r EXCEPT !.at = IF ToLocal(c) THEN "rename" ELSE "next", !.stor = "none"]
           n == Longer(dirs[r.to][r.file].chunks, r.read)
<1>1. r.at = "close" /\ SetCopy(c, s) /\ UNCHANGED <<protocol, temps, copies, copyKills>>
      /\ (ByStor(c) => r.stor = "open" /\ r.arrived = r.read)
  BY DEF CloseWriter
<1>2. r \in CopyState /\ r.file \in FileName /\ r.files \in SUBSET FileName
      /\ r.read \in Nat /\ r.read <= MaxChunks
  BY <1>1, Found, CopyFields DEF RecordSound, Handling
<1>3. s \in CopyState
  BY <1>2 DEF CopyState
<1>4. s.at = (IF ToLocal(c) THEN "rename" ELSE "next") /\ s.from = r.from /\ s.to = r.to
      /\ s.mixed = r.mixed /\ s.cut = r.cut /\ s.stor = "none" /\ s.todo = r.todo
      /\ s.files = r.files
      /\ s.file = r.file /\ s.bytes = r.bytes /\ s.total = r.total /\ s.sized = r.sized
      /\ s.arrived = r.arrived
      /\ s.read = r.read
  BY <1>2 DEF CopyState
<1> HIDE DEF s
<1>5. RecordSound(s)
  BY <1>1, <1>2, <1>4, Found DEF RecordSound, Handling, ToLocal
<1>6. copyKills = 0 /\ c \in temps' => s.at = "rename" /\ s.to = "local"
  BY <1>1, <1>4, Found DEF ToLocal
<1>7. CASE ToLocal(c)
  <2>1. dirs' = dirs
    BY <1>7 DEF CloseWriter
  <2>2. ~r.mixed /\ r.cut = {} => AddsUp(s, dirs[r.from], dirs'[r.to], protocol)
    <3> SUFFICES ASSUME ~r.mixed, r.cut = {} PROVE AddsUp(s, dirs[r.from], dirs'[r.to], protocol)
      OBVIOUS
    <3>1. AddsUp(r, dirs[r.from], dirs[r.to], protocol)
      BY <1>1, Found
    <3> QED
      BY <1>1, <1>2, <1>3, <1>4, <1>7, <2>1, <3>1, CloseAdds
  <2>3. Moves(c, s)
    BY <1>1, <1>3, <1>4, <2>1, Found DEF Moves, NetCopyInv, CopyTypes
  <2>4. LocalWhole'
    BY <1>1, <2>1 DEF NetCopyInv, LocalWhole, Present
  <2> QED
    BY <1>1, <1>4, <1>5, <1>6, <2>2, <2>3, <2>4, MoveKeeps
<1>8. CASE ~ToLocal(c)
  <2>1. Put(r.to, r.file, WholeFile(n)) /\ r.to # "local" /\ s.at = "next"
    BY <1>4, <1>8 DEF CloseWriter, ToLocal
  <2>2. dirs[r.to][r.file].chunks \in Nat /\ dirs[r.to][r.file].chunks <= MaxChunks
    BY <1>2, Found, ChunksNat
  <2>3. WholeFile(n) \in File /\ r.to \in Side
    <3>1. n \in Nat /\ n <= MaxChunks
      BY <1>2, <2>2 DEF Longer
    <3> HIDE DEF n
    <3> QED
      BY <3>1, Fits, Found
  <2>4. /\ dirs' \in [Side -> [FileName -> File]]
        /\ \A side \in Side : side # r.to => dirs'[side] = dirs[side]
        /\ dirs'[r.to][r.file] = WholeFile(n)
        /\ \A g \in FileName : g # r.file => dirs'[r.to][g] = dirs[r.to][g]
    <3> HIDE DEF n
    <3> QED
      BY <1>2, <2>1, <2>3, Puts
  <2>5. ~r.mixed /\ r.cut = {} => AddsUp(s, dirs[r.from], dirs'[r.to], protocol)
    <3> SUFFICES ASSUME ~r.mixed, r.cut = {} PROVE AddsUp(s, dirs[r.from], dirs'[r.to], protocol)
      OBVIOUS
    <3>1. AddsUp(r, dirs[r.from], dirs[r.to], protocol)
      BY <1>1, Found
    <3>2. dirs[r.to][r.file].chunks = r.read
      BY <1>1, <1>8, <2>1, <3>1 DEF AddsUp, Behind, ByStor
    <3>3. dirs'[r.to][r.file] = WholeFile(r.read)
      BY <1>2, <2>4, <3>2 DEF Longer
    <3>4. \A f \in r.files : f # r.file => dirs'[r.to][f] = dirs[r.to][f]
      BY <1>2, <2>4
    <3>5. r.at \in {"close", "rename"} /\ dirs[r.from] \in [FileName -> File]
      BY <1>1, Found
    <3> HIDE DEF n
    <3> QED
      BY <1>2, <1>3, <1>4, <2>1, <3>1, <3>3, <3>4, <3>5, FileAdds
  <2> HIDE DEF n
  <2>6. Moves(c, s)
    BY <1>1, <1>3, <1>4, <2>1, <2>4 DEF Moves, NetCopyInv, CopyTypes
  <2> QED
    BY <1>1, <1>4, <1>5, <1>6, <2>1, <2>5, <2>6, MoveKeeps
<1> QED
  BY <1>7, <1>8

\* The rename puts what was read in the place of what was there.
LEMMA RenameDownloadStep ==
  ASSUME NetCopyInv, NEW c \in Copier, RenameDownload(c)
  PROVE  NetCopyInv'
<1> DEFINE r == copy[c]
           s == [r EXCEPT !.at = "next"]
           file == IF r.file \in r.cut THEN EndedFile(r.read) ELSE WholeFile(r.read)
<1>1. r.at = "rename" /\ SetCopy(c, s) /\ UNCHANGED <<protocol, copies, copyKills>>
      /\ temps' = temps \ {c} /\ Put("local", r.file, file)
  BY DEF RenameDownload
<1>2. r \in CopyState /\ r.file \in FileName /\ r.files \in SUBSET FileName
      /\ r.read \in Nat /\ r.read <= MaxChunks /\ r.to = "local" /\ r.stor = "none"
  BY <1>1, Found, CopyFields DEF RecordSound, Handling
<1>3. s \in CopyState
  BY <1>2 DEF CopyState
<1>4. s.at = "next" /\ s.from = r.from /\ s.to = r.to /\ s.mixed = r.mixed /\ s.cut = r.cut
      /\ s.stor = r.stor
      /\ s.todo = r.todo /\ s.files = r.files /\ s.bytes = r.bytes
      /\ s.total = r.total /\ s.sized = r.sized /\ s.arrived = r.arrived /\ s.read = r.read
  BY <1>2 DEF CopyState
<1> HIDE DEF s
<1>5. RecordSound(s)
  BY <1>1, <1>2, <1>4, Found DEF RecordSound, Handling
<1>6. file \in File /\ "local" \in Side
  BY <1>2, Fits DEF Side
<1>11. file.is = "whole" \/ (file.is = "ended" /\ protocol = "ftp")
  BY <1>1, <1>2, Found DEF WholeFile, EndedFile, RecordSound
<1>12. r.cut = {} => file = WholeFile(r.read)
  OBVIOUS
<1>13. file # NoEntry
  BY DEF WholeFile, EndedFile, NoEntry
<1> HIDE DEF file
<1>7. /\ dirs' \in [Side -> [FileName -> File]]
      /\ \A side \in Side : side # r.to => dirs'[side] = dirs[side]
      /\ dirs'[r.to][r.file] = file
      /\ \A g \in FileName : g # r.file => dirs'[r.to][g] = dirs[r.to][g]
  BY <1>1, <1>2, <1>6, Puts
<1>8. ~r.mixed /\ r.cut = {} => AddsUp(s, dirs[r.from], dirs'[r.to], protocol)
  <2> SUFFICES ASSUME ~r.mixed, r.cut = {} PROVE AddsUp(s, dirs[r.from], dirs'[r.to], protocol)
    OBVIOUS
  <2>1. AddsUp(r, dirs[r.from], dirs[r.to], protocol)
    BY <1>1, Found
  <2>2. \A f \in r.files : f # r.file => dirs'[r.to][f] = dirs[r.to][f]
    BY <1>2, <1>7
  <2>3. r.at \in {"close", "rename"} /\ dirs[r.from] \in [FileName -> File]
    BY <1>1, Found
  <2> QED
    BY <1>2, <1>3, <1>4, <1>7, <1>12, <2>1, <2>2, <2>3, FileAdds
<1>9. Moves(c, s)
  BY <1>1, <1>3, <1>4, <1>7 DEF Moves, NetCopyInv, CopyTypes
<1>10. LocalWhole'
  <2> SUFFICES ASSUME NEW g \in FileName, dirs'["local"][g] # NoEntry
               PROVE  dirs'["local"][g].is = "whole"
                      \/ (protocol = "ftp" /\ dirs'["local"][g].is = "ended")
    BY <1>1 DEF LocalWhole, Present
  <2>1. CASE g = r.file
    BY <1>2, <1>7, <1>11, <2>1
  <2>2. CASE g # r.file
    BY <1>1, <1>2, <1>7, <2>2 DEF NetCopyInv, LocalWhole, Present
  <2> QED
    BY <2>1, <2>2
<1> QED
  BY <1>1, <1>4, <1>5, <1>8, <1>9, <1>10, MoveKeeps

\* A copy that has failed owes nothing, and its temporary file is gone.
LEMMA FailsStep ==
  ASSUME NetCopyInv, NEW c \in Copier, CopyFails(c)
  PROVE  NetCopyInv'
<1> DEFINE r == copy[c]
           s == [r EXCEPT !.at = "failed", !.stor = "none"]
<1>1. r.at # "idle" /\ SetCopy(c, s) /\ temps' = temps \ {c}
      /\ UNCHANGED <<protocol, dirs, copies, copyKills>>
  BY DEF CopyFails
<1>2. s \in CopyState
  <2>1. r \in CopyState
    BY Found
  <2> QED
    BY <2>1 DEF CopyState
<1>3. s.at = "failed" /\ s.from = r.from /\ s.to = r.to /\ s.mixed = r.mixed /\ s.cut = r.cut
      /\ s.stor = "none"
      /\ s.arrived = r.arrived /\ s.read = r.read
  BY TwoSides DEF CopyState
<1> HIDE DEF s
<1>4. RecordSound(s)
  BY <1>3, Found DEF RecordSound, Handling
<1>5. AddsUp(s, dirs[r.from], dirs[r.to], protocol)
  BY <1>3 DEF AddsUp, Counted, Listed, Behind, Handling
<1>6. Moves(c, s)
  BY <1>1, <1>2, <1>3, Found DEF Moves, NetCopyInv, CopyTypes
<1>7. LocalWhole'
  BY <1>1 DEF NetCopyInv, LocalWhole, Present
<1> QED
  BY <1>1, <1>3, <1>4, <1>5, <1>6, <1>7, MoveKeeps

\* Nothing is due of a copy that rests.
LEMMA Rests ==
  /\ Resting \in CopyState /\ <<Resting.from, Resting.to>> \in CopyKinds
  /\ Resting.at = "idle" /\ Resting.stor = "none" /\ Resting.arrived = 0 /\ Resting.read = 0
  /\ Resting.cut = {}
BY NetCopyAssumption DEF Resting, CopyState, Side, CopyKinds

\* A copy that rests is sound and owes nothing.
LEMMA RestSound ==
  ASSUME NEW c \in Copier, copy'[c] = Resting
  PROVE  CopySound(c)' /\ AccountOf(c)'
BY Rests DEF CopySound, AccountOf, Handling

\* The answer of a copy that is over.
LEMMA ReturnsStep ==
  ASSUME NetCopyInv, NEW c \in Copier, CopyReturns(c)
  PROVE  NetCopyInv'
<1>1. copy[c].at \in {"done", "failed"} /\ copy' = [copy EXCEPT ![c] = Resting]
      /\ UNCHANGED <<protocol, dirs, temps, copies, copyKills>>
  BY DEF CopyReturns, SetCopy
<1>2. copy \in [Copier -> CopyState]
  BY DEF NetCopyInv, CopyTypes
<1>3. copy'[c] = Resting /\ \A d \in Copier : d # c => copy'[d] = copy[d]
  BY <1>1, <1>2
<1>4. CopyTypes'
  BY <1>1, <1>2, Rests DEF NetCopyInv, CopyTypes
<1>5. CopiesSound'
  <2> SUFFICES ASSUME NEW d \in Copier PROVE CopySound(d)'
    BY DEF CopiesSound
  <2>1. CASE d = c
    BY <1>3, <2>1, RestSound
  <2>2. CASE d # c
    BY <1>1, <1>3, <2>2 DEF NetCopyInv, CopiesSound, CopySound, ByStor, ToLocal
  <2> QED
    BY <2>1, <2>2
<1>6. MeetingsMixed'
  <2> SUFFICES ASSUME NEW x \in Copier, NEW y \in Copier, x # y, copy'[x].at # "idle",
                      Meets(y, copy[x].from, copy[x].to)', x # c
               PROVE  copy'[x].mixed
    BY <1>3, Rests DEF MeetingsMixed, Meets
  <2>1. y # c
    BY <1>3, Rests DEF Meets
  <2> QED
    BY <1>3, <2>1 DEF NetCopyInv, MeetingsMixed, Meets
<1>7. TempsOwned'
  <2> SUFFICES ASSUME copyKills = 0, NEW d \in temps
               PROVE  copy'[d].at \in {"stream", "close", "rename"} /\ copy'[d].to = "local"
    BY <1>1 DEF TempsOwned, ToLocal
  <2>1. copy[d].at \in {"stream", "close", "rename"} /\ copy[d].to = "local" /\ d \in Copier
    BY DEF NetCopyInv, TempsOwned, ToLocal, CopyTypes
  <2> QED
    BY <1>1, <1>3, <2>1
<1>8. LocalWhole'
  BY <1>1 DEF NetCopyInv, LocalWhole, Present
<1>9. ASSUME NEW d \in Copier PROVE AccountOf(d)'
  <2>1. CASE d = c
    BY <1>3, <2>1, RestSound
  <2>2. CASE d # c
    BY <1>1, <1>3, <2>2 DEF NetCopyInv, AccountOf
  <2> QED
    BY <2>1, <2>2
<1> QED
  BY <1>4, <1>5, <1>6, <1>7, <1>8, <1>9 DEF NetCopyInv

\* A kill leaves the directories and the temporary files as they are.
LEMMA CopyKilledStep ==
  ASSUME NetCopyInv, CopyKilled
  PROVE  NetCopyInv'
<1>1. copyKills < MaxCopyKills /\ copyKills' = copyKills + 1
      /\ copy' = [c \in Copier |-> Resting] /\ UNCHANGED <<protocol, dirs, temps, copies>>
  BY DEF CopyKilled
<1>2. copyKills \in Nat /\ copyKills' \in 0 .. MaxCopyKills /\ copyKills' # 0
  BY <1>1, NetCopyAssumption DEF NetCopyInv, CopyTypes
<1>3. CopyTypes'
  BY <1>1, <1>2, Rests DEF NetCopyInv, CopyTypes
<1>4. \A c \in Copier : copy'[c] = Resting
  BY <1>1
<1>5. CopiesSound' /\ \A c \in Copier : AccountOf(c)'
  BY <1>4, RestSound DEF CopiesSound
<1>6. MeetingsMixed'
  BY <1>4, Rests DEF MeetingsMixed
<1>7. TempsOwned'
  BY <1>2 DEF TempsOwned
<1>8. LocalWhole'
  BY <1>1 DEF NetCopyInv, LocalWhole, Present
<1> QED
  BY <1>3, <1>5, <1>6, <1>7, <1>8 DEF NetCopyInv

\* A copy that begins tells those it meets, and is told.
LEMMA BeginStep ==
  ASSUME NetCopyInv, NEW c \in Copier, NEW from, NEW to, <<from, to>> \in CopyKinds,
         BeginCopy(c, from, to)
  PROVE  NetCopyInv'
<1> DEFINE others == {d \in Copier \ {c} : Meets(d, from, to)}
           all == Present(from)
<1>0. PICK measured \in IF from = "local" THEN SUBSET Present(from) ELSE {{}, Present(from)} :
        copy' = [d \in Copier |->
          IF d = c
            THEN [Resting EXCEPT !.at = "list", !.from = from, !.to = to,
                    !.total = Sizes(measured, dirs[from]), !.sized = (measured = Present(from)),
                    !.mixed = others # {}]
            ELSE IF d \in others THEN [copy[d] EXCEPT !.mixed = TRUE] ELSE copy[d]]
  BY DEF BeginCopy
<1> DEFINE sum == Sizes(measured, dirs[from])
           s == [Resting EXCEPT !.at = "list", !.from = from, !.to = to, !.total = sum,
                                !.sized = (measured = all), !.mixed = others # {}]
<1>1. copy[c].at = "idle" /\ copies < MaxCopyCalls /\ copies' = copies + 1
      /\ UNCHANGED <<protocol, dirs, temps, copyKills>>
      /\ copy' = [d \in Copier |->
                    IF d = c THEN s
                    ELSE IF d \in others THEN [copy[d] EXCEPT !.mixed = TRUE] ELSE copy[d]]
  BY <1>0 DEF BeginCopy
<1>2. copy \in [Copier -> CopyState] /\ dirs \in [Side -> [FileName -> File]]
  BY DEF NetCopyInv, CopyTypes
<1>3. from \in Side /\ to \in Side
  BY DEF CopyKinds, Side
<1>4. sum \in Nat /\ (measured = all => sum = Sizes(Kept(dirs[from]), dirs[from]))
  <2>1. /\ all = Kept(dirs[from]) /\ Kept(dirs[from]) \in SUBSET FileName
        /\ measured \in SUBSET FileName
    BY DEF Present, Kept
  <2>2. dirs[from] \in [FileName -> File]
    BY <1>2, <1>3
  <2> QED
    BY <2>1, <2>2, SizesSum
<1>5. s \in CopyState
  <2> HIDE DEF sum, others
  <2>1. (others # {}) \in BOOLEAN /\ (measured = all) \in BOOLEAN
    OBVIOUS
  <2> QED
    BY <1>3, <1>4, <2>1, Rests DEF CopyState
<1>6. s.at = "list" /\ s.from = from /\ s.to = to /\ s.total = sum
      /\ s.sized = (measured = all) /\ s.mixed = (others # {})
      /\ s.stor = "none" /\ s.arrived = 0 /\ s.read = 0 /\ s.bytes = 0
      /\ s.cut = {}
  BY DEF Resting
<1>7. copy'[c] = s
  BY <1>1
<1>8. ASSUME NEW d \in Copier, d # c
      PROVE  /\ copy'[d] \in CopyState /\ copy'[d] = [copy[d] EXCEPT !.mixed = copy'[d].mixed]
             /\ copy'[d].at = copy[d].at /\ copy'[d].from = copy[d].from /\ copy'[d].to = copy[d].to
             /\ copy'[d].cut = copy[d].cut /\ copy'[d].stor = copy[d].stor
             /\ copy'[d].file = copy[d].file
             /\ copy'[d].arrived = copy[d].arrived /\ copy'[d].read = copy[d].read
             /\ (copy[d].mixed => copy'[d].mixed) /\ (d \in others => copy'[d].mixed)
             /\ (~copy'[d].mixed => copy'[d] = copy[d])
  <2>1. copy[d] \in CopyState
    BY <1>2
  <2>2. CASE d \in others
    <3>1. copy'[d] = [copy[d] EXCEPT !.mixed = TRUE]
      BY <1>1, <1>8, <2>2
    <3> QED
      BY <2>1, <3>1 DEF CopyState
  <2>3. CASE d \notin others
    <3>1. copy'[d] = copy[d]
      BY <1>1, <1>8, <2>3
    <3> QED
      BY <2>1, <2>3, <3>1 DEF CopyState
  <2> QED
    BY <2>2, <2>3
<1> HIDE DEF s, sum
<1>9. CopyTypes'
  <2>1. copy' \in [Copier -> CopyState]
    <3>1. \A d \in Copier : copy'[d] \in CopyState
      BY <1>5, <1>7, <1>8
    <3>2. copy' = [d \in Copier |-> copy'[d]]
      BY <1>1
    <3> QED
      BY <3>1, <3>2
  <2>2. copies' \in 0 .. MaxCopyCalls
    BY <1>1, NetCopyAssumption DEF NetCopyInv, CopyTypes
  <2> QED
    BY <1>1, <2>1, <2>2 DEF NetCopyInv, CopyTypes
<1>10. CopiesSound'
  <2> SUFFICES ASSUME NEW d \in Copier PROVE CopySound(d)'
    BY DEF CopiesSound
  <2>1. CASE d = c
    BY <1>6, <1>7, <2>1 DEF CopySound, Handling
  <2>2. CASE d # c
    <3>1. CopySound(d)
      BY DEF NetCopyInv, CopiesSound
    <3> QED
      BY <1>1, <1>8, <2>2, <3>1 DEF CopySound, ByStor, ToLocal
  <2> QED
    BY <2>1, <2>2
<1>11. MeetingsMixed'
  <2> SUFFICES ASSUME NEW x \in Copier, NEW y \in Copier, x # y, copy'[x].at # "idle",
                      Meets(y, copy[x].from, copy[x].to)'
               PROVE  copy'[x].mixed
    BY DEF MeetingsMixed
  <2>1. copy'[y].at # "idle" /\ (copy'[y].to \in {copy'[x].from, copy'[x].to}
                                  \/ copy'[y].from = copy'[x].to)
    BY DEF Meets
  <2>2. CASE x = c
    <3>1. Meets(y, from, to)
      BY <1>6, <1>7, <1>8, <2>1, <2>2 DEF Meets
    <3> QED
      BY <1>6, <1>7, <2>2, <3>1
  <2>3. CASE y = c
    <3>1. Meets(x, from, to)
      BY <1>6, <1>7, <1>8, <2>1, <2>3 DEF Meets
    <3> QED
      BY <1>8, <2>3, <3>1
  <2>4. CASE x # c /\ y # c
    <3>1. copy[x].at # "idle" /\ Meets(y, copy[x].from, copy[x].to)
      BY <1>8, <2>1, <2>4 DEF Meets
    <3> QED
      BY <1>8, <2>4, <3>1 DEF NetCopyInv, MeetingsMixed
  <2> QED
    BY <2>2, <2>3, <2>4
<1>12. TempsOwned'
  <2> SUFFICES ASSUME copyKills = 0, NEW d \in temps
               PROVE  copy'[d].at \in {"stream", "close", "rename"} /\ copy'[d].to = "local"
    BY <1>1 DEF TempsOwned, ToLocal
  <2>1. copy[d].at \in {"stream", "close", "rename"} /\ copy[d].to = "local" /\ d \in Copier
    BY DEF NetCopyInv, TempsOwned, ToLocal, CopyTypes
  <2>2. d # c
    BY <1>1, <2>1
  <2> QED
    BY <1>8, <2>1, <2>2
<1>13. LocalWhole'
  BY <1>1 DEF NetCopyInv, LocalWhole, Present
<1>14. ASSUME NEW d \in Copier PROVE AccountOf(d)'
  <2>1. CASE d = c
    <3>1. AddsUp(s, dirs[from], dirs[to], protocol)
      BY <1>4, <1>6 DEF AddsUp, Counted, Listed, Behind, Handling
    <3> QED
      BY <1>1, <1>6, <1>7, <2>1, <3>1 DEF AccountOf
  <2>2. CASE d # c
    <3> SUFFICES ASSUME copy'[d].at # "idle", ~copy'[d].mixed, copy'[d].cut = {}
                 PROVE  AddsUp(copy'[d], dirs[copy'[d].from], dirs[copy'[d].to], protocol)
      BY <1>1 DEF AccountOf
    <3>1. copy'[d] = copy[d]
      BY <1>8, <2>2
    <3> QED
      BY <3>1 DEF NetCopyInv, AccountOf
  <2> QED
    BY <2>1, <2>2
<1> QED
  BY <1>9, <1>10, <1>11, <1>12, <1>13, <1>14 DEF NetCopyInv

\* The first directories hold whole files and no copy has begun.
LEMMA CopyInit ==
  ASSUME NetCopyInit
  PROVE  NetCopyInv
<1>1. protocol \in {"sftp", "ftp"} /\ temps = {} /\ copies = 0 /\ copyKills = 0
      /\ copy = [c \in Copier |-> Resting]
  BY DEF NetCopyInit
<1>2. PICK old \in FileName :
        dirs = [s \in Side |-> [f \in FileName |->
          CASE s = "remote" -> WholeFile(IF f = old THEN MaxChunks ELSE 0)
            [] s = "local" -> IF f = old THEN WholeFile(1) ELSE NoEntry
            [] s = "second" -> IF f = old THEN NoEntry ELSE WholeFile(1)]]
  BY DEF NetCopyInit
<1> DEFINE First(s, f) ==
      CASE s = "remote" -> WholeFile(IF f = old THEN MaxChunks ELSE 0)
        [] s = "local" -> IF f = old THEN WholeFile(1) ELSE NoEntry
        [] s = "second" -> IF f = old THEN NoEntry ELSE WholeFile(1)
<1>3. dirs \in [Side -> [FileName -> File]]
  <2>1. WholeFile(0) \in File /\ WholeFile(1) \in File /\ WholeFile(MaxChunks) \in File
    BY NetCopyAssumption, Fits
  <2>2. NoEntry \in File
    BY NetCopyAssumption DEF NoEntry, File
  <2>3. ASSUME NEW s \in Side, NEW f \in FileName PROVE First(s, f) \in File
    BY <2>1, <2>2 DEF Side
  <2>4. dirs = [s \in Side |-> [f \in FileName |-> First(s, f)]]
    BY <1>2
  <2> HIDE DEF First
  <2> QED
    BY <2>3, <2>4
<1>4. CopyTypes
  <2>1. copy \in [Copier -> CopyState]
    BY <1>1, Rests
  <2>2. copies \in 0 .. MaxCopyCalls /\ copyKills \in 0 .. MaxCopyKills
    BY <1>1, NetCopyAssumption
  <2> QED
    BY <1>1, <1>3, <2>1, <2>2 DEF CopyTypes
<1>5. \A c \in Copier : copy[c] = Resting
  BY <1>1
<1>6. CopiesSound /\ MeetingsMixed /\ TempsOwned
  BY <1>1, <1>5, Rests DEF CopiesSound, CopySound, MeetingsMixed, TempsOwned, Handling
<1>7. LocalWhole
  BY <1>2 DEF LocalWhole, Present, Side, WholeFile
<1>8. \A c \in Copier : AccountOf(c)
  BY <1>5, Rests DEF AccountOf
<1> QED
  BY <1>4, <1>6, <1>7, <1>8 DEF NetCopyInv

\* Every step of every copy keeps the invariant.
LEMMA CopyStep ==
  ASSUME NetCopyInv, [NetCopyNext]_copyVars
  PROVE  NetCopyInv'
<1>1. CASE CopyKilled
  BY <1>1, CopyKilledStep
<1>2. ASSUME NEW c \in Copier, NEW k \in CopyKinds, BeginCopy(c, k[1], k[2])
      PROVE  NetCopyInv'
  <2>1. k = <<k[1], k[2]>>
    BY DEF CopyKinds
  <2> QED
    BY <1>2, <2>1, BeginStep
<1>3. ASSUME NEW c \in Copier,
             \/ ListSource(c) \/ OpenRead(c) \/ OpenWrite(c) \/ StorOpens(c) \/ StorFails(c)
             \/ Arrive(c) \/ StreamChunk(c) \/ SourceEnds(c) \/ CloseWriter(c)
             \/ RenameDownload(c) \/ CopyFails(c) \/ CopyReturns(c)
      PROVE  NetCopyInv'
  BY <1>3, ListStep, OpenReadStep, OpenWriteStep, StorOpensStep, StorFailsStep, ArriveStep,
     StreamStep, EndsStep, CloseStep, RenameDownloadStep, FailsStep, ReturnsStep
<1>4. CASE UNCHANGED copyVars
  <2>1. UNCHANGED <<protocol, dirs, temps, copy, copies, copyKills>>
    BY <1>4 DEF copyVars
  <2>2. CopyTypes' /\ TempsOwned' /\ LocalWhole'
    BY <2>1 DEF NetCopyInv, CopyTypes, TempsOwned, ToLocal, LocalWhole, Present
  <2>3. CopiesSound' /\ MeetingsMixed'
    BY <2>1 DEF NetCopyInv, CopiesSound, CopySound, ByStor, ToLocal, MeetingsMixed, Meets
  <2>4. \A c \in Copier : AccountOf(c)'
    BY <2>1 DEF NetCopyInv, AccountOf
  <2> QED
    BY <2>2, <2>3, <2>4 DEF NetCopyInv
<1> QED
  BY <1>1, <1>2, <1>3, <1>4 DEF NetCopyNext

\* A copy that is done has nothing left to add.
LEMMA CopyDone ==
  ASSUME NetCopyInv
  PROVE  NetCopySafe
<1>1. NetCopyTypeOK
  <2>1. ASSUME NEW c \in Copier
        PROVE  /\ copy[c].at \in {"idle", "list", "next", "create", "stream", "close", "rename",
                                  "done", "failed"}
               /\ copy[c].stor \in {"none", "asked", "open", "failed"}
               /\ copy[c].arrived <= copy[c].read /\ copy[c].read <= MaxChunks
    <3>1. copy[c] \in CopyState /\ RecordSound(copy[c])
      BY Found
    <3> QED
      BY <3>1, CopyFields DEF CopyState, RecordSound
  <2> QED
    BY <2>1 DEF NetCopyInv, CopyTypes, NetCopyTypeOK
<1>2. CopiedAll
  <2> SUFFICES ASSUME NEW c \in Copier, copy[c].at = "done", ~copy[c].mixed, copy[c].cut = {}
               PROVE  /\ \A f \in copy[c].files :
                           dirs[copy[c].to][f] = WholeFile(dirs[copy[c].from][f].chunks)
                      /\ copy[c].sized => copy[c].bytes = copy[c].total
    BY DEF CopiedAll
  <2> DEFINE r == copy[c]
             source == dirs[r.from]
  <2>1. AddsUp(r, source, dirs[r.to], protocol) /\ source \in [FileName -> File]
    BY Found
  <2>2. r.todo = {} /\ (r.sized => r.bytes + Sizes(r.todo, source) = r.total)
    BY <2>1 DEF AddsUp, Counted, Listed
  <2>3. Sizes({}, source) = 0 /\ r.bytes \in Nat
    BY <2>1, SizesSum, Found, CopyFields
  <2>4. \A f \in r.files : dirs[r.to][f] = WholeFile(source[f].chunks)
    BY <2>1, <2>2 DEF AddsUp, Behind, Handling
  <2> QED
    BY <2>2, <2>3, <2>4
<1> QED
  BY <1>1, <1>2 DEF NetCopyInv, NetCopySafe, TempsOwned, TempsRemoved

\* No name on this computer stands for a download in progress or a failed one,
\* but an FTP server that ends a download early leaves what it sent; no temporary
\* file is left by a copy that failed; and a copy that reports success, was alone
\* and was not cut short has copied every file it listed and, when their sizes
\* could be read, counted what it announced (copyNetworkToLocal and its kin).
THEOREM CopiesFinishWhole == NetCopySpec => []NetCopySafe
<1>1. NetCopyInit => NetCopyInv
  BY CopyInit
<1>2. NetCopyInv /\ [NetCopyNext]_copyVars => NetCopyInv'
  BY CopyStep
<1>3. NetCopyInv => NetCopySafe
  BY CopyDone
<1> QED
  BY <1>1, <1>2, <1>3, PTL DEF NetCopySpec
=============================================================================
