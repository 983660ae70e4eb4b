----------------------------- MODULE PeerProofs -----------------------------
(* Theorems about direct peer sessions (Ice), for every number of          *)
(* sessions, environments, attempts and registration requests, about one   *)
(* of their peers (IcePeer), for every number of candidates and messages,  *)
(* and about the datagrams of a bridge (Datagrams), for all sizes.         *)
EXTENDS Ice, IcePeer, Datagrams, FiniteSetTheorems, SequenceTheorems,
        WellFoundedInduction, TLAPS

-----------------------------------------------------------------------------
(* Peer sessions *)

\* Registration requests that have not taken the context, or not begun a new
\* generation.
Forgetting == {t \in IceTab : stopper[t].pc = "forget"}
Clearing == {t \in IceTab : stopper[t].pc \in {"forget", "clear"}}

\* Generations and contexts are counted by the requests that made them.
Counted ==
  /\ IsFiniteSet(Forgetting) /\ IsFiniteSet(Clearing)
  /\ iceGen + Cardinality(Clearing) <= stops
  /\ contexts + Cardinality(Forgetting) <= stops + (IF iceContext = 0 THEN 0 ELSE 1)

\* Contexts are numbered as they are made and generations as they begin.
Numbered ==
  /\ iceContext <= contexts /\ cancelled \subseteq 1 .. contexts
  /\ \A t \in IceTab : stopper[t].held \in 0 .. contexts
  /\ iceSync.context \in 0 .. contexts
  /\ iceSync.pc = "start" => iceSync.context # 0
  /\ \A a \in 1 .. attempts :
       attempt[a] # Over => attempt[a].context \in 1 .. contexts /\ attempt[a].gen <= iceGen

Held(c) == \E t \in IceTab : stopper[t].pc \in {"clear", "cancel"} /\ stopper[t].held = c

\* A context that somebody uses is cancelled, is the server's, or is in the
\* hands of a request that is going to cancel it.
ContextsOwned ==
  /\ \A a \in 1 .. attempts :
       attempt[a] # Over =>
         \/ attempt[a].context \in cancelled
         \/ attempt[a].context = iceContext
         \/ Held(attempt[a].context)
  /\ iceSync.pc = "start" =>
       iceSync.context \in cancelled \/ iceSync.context = iceContext \/ Held(iceSync.context)

\* Unless a request is about to take it, what runs under the server's context
\* belongs to the registration.
ContextCurrent ==
  (\A t \in IceTab : stopper[t].pc # "forget") =>
    /\ \A a \in 1 .. attempts :
         attempt[a] # Over /\ attempt[a].context = iceContext => ~Stale(a)
    /\ iceSync.pc = "start" /\ iceSync.context = iceContext => Served(iceSync.env)

\* The inductive invariant of the peer sessions.
IceInv ==
  /\ IceTypeOK /\ Counted /\ Numbered
  /\ ContextsOwned /\ ContextCurrent
  /\ OneAttemptPerGeneration /\ EntryKept
  /\ OnePeerPerSession

-----------------------------------------------------------------------------
(* Attempts *)

\* An attempt is over or has the fields of one.
LEMMA AttemptFields ==
  ASSUME IceTypeOK, NEW a \in 1 .. attempts
  PROVE  \/ attempt[a] = Over
         \/ /\ attempt[a] \in AttemptType /\ attempt[a] # Over
            /\ attempt[a].pc \in {"gather", "post", "return", "done"}
            /\ attempt[a].peer \in {"closed", "open", "connected"}
            /\ attempt[a].session \in Session /\ attempt[a].env \in IceEnv
            /\ attempt[a].context \in Context /\ attempt[a].gen \in 0 .. MaxStops
<1>1. attempt[a] \in AttemptType \cup {Over}
  BY DEF IceTypeOK
<1>2. ASSUME NEW r \in AttemptType PROVE r.context # 0
  BY IceAssumption DEF AttemptType, Context
<1>3. Over.context = 0
  BY DEF Over
<1>4. CASE attempt[a] \in AttemptType
  <2>1. attempt[a] # Over
    BY <1>2, <1>3, <1>4
  <2> QED
    BY <1>4, <2>1 DEF AttemptType
<1> QED
  BY <1>1, <1>4

\* What a step leaves of an attempt: nothing, or the session, environment,
\* context and generation that it was started with, and it does not start again.
Follows(b) ==
  attempt'[b] # Over =>
    /\ attempt[b] # Over
    /\ attempt'[b].session = attempt[b].session /\ attempt'[b].env = attempt[b].env
    /\ attempt'[b].context = attempt[b].context /\ attempt'[b].gen = attempt[b].gen
    /\ attempt[b].pc = "done" => attempt'[b].pc = "done"

\* One attempt moves on.
LEMMA SetMoves ==
  ASSUME IceTypeOK, NEW a \in 1 .. attempts, attempt[a] # Over,
         NEW pc \in {"gather", "post", "return", "done"}, NEW peer \in {"closed", "open", "connected"},
         attempt[a].pc = "done" => pc = "done",
         Set(a, pc, peer)
  PROVE  /\ attempt' \in [1 .. attempts -> AttemptType \cup {Over}]
         /\ \A b \in 1 .. attempts : Follows(b)
         /\ \A b \in 1 .. attempts : b # a => attempt'[b] = attempt[b]
         /\ attempt'[a] = Over \/ (attempt'[a].pc = pc /\ attempt'[a].peer = peer)
<1> DEFINE r == attempt[a]
           new == [r EXCEPT !.pc = pc, !.peer = peer]
<1>1. r \in AttemptType
  BY AttemptFields
<1>2. /\ new \in AttemptType
      /\ new.pc = pc /\ new.peer = peer /\ new.session = r.session /\ new.env = r.env
      /\ new.context = r.context /\ new.gen = r.gen
  BY <1>1 DEF AttemptType
<1>3. attempt \in [1 .. attempts -> AttemptType \cup {Over}]
  BY DEF IceTypeOK
<1>4. attempt' = [attempt EXCEPT ![a] = IF pc = "done" /\ peer = "closed" THEN Over ELSE new]
  BY <1>3 DEF Set
<1> HIDE DEF new
<1>5. /\ attempt' \in [1 .. attempts -> AttemptType \cup {Over}]
      /\ attempt'[a] = Over \/ attempt'[a] = new
      /\ \A b \in 1 .. attempts : b # a => attempt'[b] = attempt[b]
  BY <1>2, <1>3, <1>4
<1>6. Follows(a)
  BY <1>2, <1>5 DEF Follows
<1>7. \A b \in 1 .. attempts : Follows(b)
  BY <1>5, <1>6 DEF Follows
<1> QED
  BY <1>2, <1>5, <1>7

\* What does not depend on how far an attempt is.
LEMMA AttemptsMove ==
  ASSUME IceInv, Quiet, \A b \in 1 .. attempts : Follows(b)
  PROVE  Counted' /\ Numbered' /\ ContextsOwned' /\ ContextCurrent' /\ OneAttemptPerGeneration'
<1>1. /\ UNCHANGED <<iceCfg, former, iceContext, contexts, cancelled, iceGen>>
      /\ UNCHANGED <<stopper, stops, iceSync, attempts>>
  BY DEF Quiet, serverVars
<1>2. Counted'
  BY <1>1 DEF IceInv, Counted, Forgetting, Clearing
<1>3. Numbered'
  BY <1>1 DEF IceInv, Numbered, Follows
<1>4. ContextsOwned'
  BY <1>1 DEF IceInv, ContextsOwned, Held, Follows
<1>5. ContextCurrent'
  BY <1>1 DEF IceInv, ContextCurrent, Stale, Served, Follows
<1>6. OneAttemptPerGeneration'
  <2>1. ASSUME NEW b \in 1 .. attempts, attempt'[b] = Over
        PROVE  attempt'[b].pc = "done"
    BY <2>1 DEF Over
  <2> QED
    BY <1>1, <2>1 DEF IceInv, OneAttemptPerGeneration, Follows
<1> QED
  BY <1>2, <1>3, <1>4, <1>5, <1>6

\* An attempt that goes on and leaves the table of active sessions.
LEMMA EntriesStay ==
  ASSUME IceInv, Quiet, UNCHANGED active, \A b \in 1 .. attempts : Follows(b)
  PROVE  EntryKept'
<1>1. UNCHANGED <<iceGen, attempts>>
  BY DEF Quiet, serverVars
<1>2. ASSUME NEW b \in 1 .. attempts, attempt'[b] = Over
      PROVE  attempt'[b].pc = "done"
  BY <1>2 DEF Over
<1> QED
  BY <1>1, <1>2 DEF IceInv, EntryKept, Follows

\* The peer of the attempt is closed, or Dyner holds its answer.
LEMMA PeersStay ==
  ASSUME IceInv, Quiet, UNCHANGED answer, \A b \in 1 .. attempts : Follows(b),
         NEW a \in 1 .. attempts,
         \A b \in 1 .. attempts : b # a => attempt'[b] = attempt[b],
         \/ attempt'[a] = Over
         \/ attempt'[a].peer = "closed"
         \/ attempt'[a].pc \notin {"return", "done"}
         \/ Answered(a)
  PROVE  OnePeerPerSession'
<1>1. UNCHANGED attempts
  BY DEF Quiet
<1>2. Over.peer = "closed"
  BY DEF Over
<1>3. ASSUME NEW b \in 1 .. attempts, Answered(b)'
      PROVE  answer'[attempt'[b].session] = b
  <2>1. attempt'[b].pc \in {"return", "done"} /\ attempt'[b].peer # "closed" /\ attempt'[b] # Over
    BY <1>2, <1>3 DEF Answered
  <2>2. Answered(b)
    BY <2>1 DEF Answered
  <2> QED
    BY <2>1, <2>2 DEF IceInv, OnePeerPerSession, Follows
<1> QED
  BY <1>1, <1>3 DEF OnePeerPerSession

\* The types, when the attempts are the same number and have theirs.
LEMMA AttemptsTyped ==
  ASSUME IceTypeOK, Quiet,
         attempt' \in [1 .. attempts -> AttemptType \cup {Over}],
         active' \in [Session -> (0 .. MaxStops) \cup {NotActive}],
         answer' \in [Session -> Attempt \cup {0}]
  PROVE  IceTypeOK'
  BY DEF IceTypeOK, Quiet, serverVars

\* An attempt whose peer does not gain an answer goes on.
LEMMA AttemptMoves ==
  ASSUME IceInv, Quiet, UNCHANGED <<active, answer>>,
         NEW a \in 1 .. attempts, attempt[a] # Over,
         NEW pc \in {"gather", "post", "return", "done"}, NEW peer \in {"closed", "open", "connected"},
         attempt[a].pc = "done" => pc = "done",
         Set(a, pc, peer),
         peer = "closed" \/ pc \notin {"return", "done"} \/ Answered(a)
  PROVE  IceInv'
<1>1. /\ attempt' \in [1 .. attempts -> AttemptType \cup {Over}]
      /\ \A b \in 1 .. attempts : Follows(b)
      /\ \A b \in 1 .. attempts : b # a => attempt'[b] = attempt[b]
      /\ attempt'[a] = Over \/ (attempt'[a].pc = pc /\ attempt'[a].peer = peer)
  BY SetMoves DEF IceInv
<1>2. IceTypeOK'
  BY <1>1, AttemptsTyped DEF IceInv, IceTypeOK
<1>3. Counted' /\ Numbered' /\ ContextsOwned' /\ ContextCurrent' /\ OneAttemptPerGeneration'
  BY <1>1, AttemptsMove
<1>4. EntryKept'
  BY <1>1, EntriesStay
<1>5. OnePeerPerSession'
  BY <1>1, PeersStay
<1> QED
  BY <1>2, <1>3, <1>4, <1>5 DEF IceInv

\* Dyner takes the answer, and the reply arrives or is lost.
LEMMA AnswerTaken ==
  ASSUME IceInv, Quiet, UNCHANGED active,
         NEW a \in 1 .. attempts, attempt[a].pc = "post", NEW peer \in {"closed", "open"},
         answer[attempt[a].session] = 0, answer' = [answer EXCEPT ![attempt[a].session] = a],
         Set(a, "return", peer)
  PROVE  IceInv'
<1>1. attempt[a] # Over
  BY DEF Over
<1>2. /\ attempt' \in [1 .. attempts -> AttemptType \cup {Over}]
      /\ \A b \in 1 .. attempts : Follows(b)
      /\ \A b \in 1 .. attempts : b # a => attempt'[b] = attempt[b]
  BY <1>1, SetMoves DEF IceInv
<1>3. /\ answer \in [Session -> Attempt \cup {0}] /\ attempts \in 0 .. MaxAttempts
      /\ attempt[a].session \in Session
  BY <1>1, AttemptFields DEF IceInv, IceTypeOK
<1>4. answer' \in [Session -> Attempt \cup {0}] /\ answer'[attempt[a].session] = a
  BY <1>3, IceAssumption DEF Attempt
<1>5. IceTypeOK'
  BY <1>2, <1>4, AttemptsTyped DEF IceInv, IceTypeOK
<1>6. Counted' /\ Numbered' /\ ContextsOwned' /\ ContextCurrent' /\ OneAttemptPerGeneration'
  BY <1>2, AttemptsMove
<1>7. EntryKept'
  BY <1>2, EntriesStay
<1>8. OnePeerPerSession'
  <2>1. UNCHANGED attempts
    BY DEF Quiet
  <2>2. ASSUME NEW b \in 1 .. attempts, Answered(b)'
        PROVE  answer'[attempt'[b].session] = b
    <3>1. attempt'[b] # Over
      BY <2>2 DEF Answered, Over
    <3>2. CASE b = a
      BY <1>2, <1>4, <3>1, <3>2 DEF Follows
    <3>3. CASE b # a
      <4>1. Answered(b) /\ attempt'[b] = attempt[b]
        BY <1>2, <2>2, <3>3 DEF Answered
      <4>2. answer[attempt[b].session] = b
        BY <4>1 DEF IceInv, OnePeerPerSession
      <4>3. attempt[b].session # attempt[a].session
        BY <4>2
      <4> QED
        BY <1>3, <4>1, <4>2, <4>3
    <3> QED
      BY <3>2, <3>3
  <2> QED
    BY <2>1, <2>2 DEF OnePeerPerSession
<1> QED
  BY <1>5, <1>6, <1>7, <1>8 DEF IceInv

\* The deferred function finds its own entry, or none to remove.
LEMMA ReturnKeepsInv ==
  ASSUME IceInv, NEW a \in 1 .. attempts, AttemptReturns(a)
  PROVE  IceInv'
<1> DEFINE s == attempt[a].session
<1>1. /\ attempt[a].pc = "return" /\ Set(a, "done", attempt[a].peer)
      /\ active' = [active EXCEPT ![s] = IF @ = attempt[a].gen THEN NotActive ELSE @]
      /\ Quiet /\ UNCHANGED answer
  BY DEF AttemptReturns
<1>2. /\ attempt[a] # Over /\ attempt[a].peer \in {"closed", "open", "connected"}
      /\ s \in Session
  BY <1>1, AttemptFields DEF IceInv, Over
<1>3. /\ attempt' \in [1 .. attempts -> AttemptType \cup {Over}]
      /\ \A b \in 1 .. attempts : Follows(b)
      /\ \A b \in 1 .. attempts : b # a => attempt'[b] = attempt[b]
      /\ \/ attempt'[a] = Over
         \/ attempt'[a].pc = "done" /\ attempt'[a].peer = attempt[a].peer
  BY <1>1, <1>2, SetMoves DEF IceInv
<1>4. active \in [Session -> (0 .. MaxStops) \cup {NotActive}]
  BY DEF IceInv, IceTypeOK
<1>5. /\ active' \in [Session -> (0 .. MaxStops) \cup {NotActive}]
      /\ \A x \in Session : x # s => active'[x] = active[x]
      /\ active[s] # attempt[a].gen => active'[s] = active[s]
  BY <1>1, <1>2, <1>4
<1>6. IceTypeOK'
  BY <1>1, <1>3, <1>5, AttemptsTyped DEF IceInv, IceTypeOK
<1>7. Counted' /\ Numbered' /\ ContextsOwned' /\ ContextCurrent' /\ OneAttemptPerGeneration'
  BY <1>1, <1>3, AttemptsMove
<1>8. EntryKept'
  <2>1. UNCHANGED <<iceGen, attempts>>
    BY <1>1 DEF Quiet, serverVars
  <2>2. ASSUME NEW b \in 1 .. attempts, attempt'[b].pc # "done", attempt'[b].gen = iceGen
        PROVE  active'[attempt'[b].session] = iceGen
    <3>1. b # a
      BY <1>3, <2>2 DEF Over
    <3>2. attempt'[b] = attempt[b] /\ active[attempt[b].session] = iceGen
      BY <1>3, <2>2, <3>1 DEF IceInv, EntryKept
    <3>3. attempt[b].session \in Session
      BY <2>2, <3>2, AttemptFields DEF IceInv, Over
    <3>4. CASE attempt[b].session = s /\ attempt[a].gen = iceGen
      BY <1>1, <2>2, <3>1, <3>2, <3>4 DEF IceInv, OneAttemptPerGeneration
    <3>5. CASE attempt[b].session # s \/ attempt[a].gen # iceGen
      BY <1>5, <3>2, <3>3, <3>5
    <3> QED
      BY <3>4, <3>5
  <2> QED
    BY <2>1, <2>2 DEF EntryKept
<1>9. OnePeerPerSession'
  <2>1. \/ attempt'[a] = Over \/ attempt'[a].peer = "closed" \/ Answered(a)
    BY <1>1, <1>3 DEF Answered
  <2> QED
    BY <1>1, <1>3, <2>1, PeersStay
<1> QED
  BY <1>6, <1>7, <1>8, <1>9 DEF IceInv

-----------------------------------------------------------------------------
(* Registration requests *)

\* One request moves on.
LEMMA StopperMoves ==
  ASSUME IceTypeOK, NEW t \in IceTab, NEW r \in StopType, stopper' = [stopper EXCEPT ![t] = r]
  PROVE  /\ stopper' \in [IceTab -> StopType]
         /\ stopper'[t] = r
         /\ \A u \in IceTab : u # t => stopper'[u] = stopper[u]
  BY DEF IceTypeOK

\* A request and its next step.
LEMMA StopperPc ==
  ASSUME IceTypeOK, NEW t \in IceTab, NEW pc \in {"forget", "cancel"},
         stopper' = [stopper EXCEPT ![t].pc = pc]
  PROVE  /\ stopper' \in [IceTab -> StopType]
         /\ stopper'[t].pc = pc /\ stopper'[t].held = stopper[t].held
         /\ \A u \in IceTab : u # t => stopper'[u] = stopper[u]
<1>1. stopper \in [IceTab -> StopType]
  BY DEF IceTypeOK
<1>2. [stopper[t] EXCEPT !.pc = pc] \in StopType
  BY <1>1 DEF StopType
<1> QED
  BY <1>1, <1>2 DEF StopType

\* What the attempts keep among themselves.
LEMMA AttemptsStay ==
  ASSUME IceInv, UNCHANGED <<attempt, attempts, answer>>
  PROVE  /\ OneAttemptPerGeneration' /\ OnePeerPerSession'
         /\ UNCHANGED <<iceGen, active>> => EntryKept'
  BY DEF IceInv, OneAttemptPerGeneration, OnePeerPerSession, EntryKept, Answered

\* A step of a request that is past the context.
LEMMA RequestsLeft ==
  ASSUME IceInv, NEW t \in IceTab, stopper[t].pc # "forget",
         \A u \in IceTab : u # t => stopper'[u] = stopper[u],
         UNCHANGED <<iceCfg, former, iceContext, iceSync, attempt, attempts>>
  PROVE  ContextCurrent'
<1>1. (\A u \in IceTab : stopper'[u].pc # "forget") => \A u \in IceTab : stopper[u].pc # "forget"
  BY Zenon
<1>2. ContextCurrent
  BY DEF IceInv
<1> QED
  BY <1>1, <1>2 DEF ContextCurrent, Stale, Served

\* A replaced environment still serves, and so does its successor.
LEMMA ReplaceKeepsInv ==
  ASSUME IceInv, NEW e \in IceEnv, ReplaceEnvironment(e)
  PROVE  IceInv'
<1>1. /\ iceCfg' = [iceCfg EXCEPT !.env = e]
      /\ former' = former \cup IF iceCfg.relay THEN {iceCfg.env} ELSE {}
      /\ UNCHANGED <<iceContext, contexts, cancelled, iceGen, active>>
      /\ UNCHANGED <<stopper, stops, iceSync, attempt, attempts, answer>>
  BY DEF ReplaceEnvironment
<1>2. iceCfg \in [relay : BOOLEAN, env : IceEnv] /\ former \subseteq IceEnv
  BY DEF IceInv, IceTypeOK
<1>3. iceCfg'.env = e /\ iceCfg'.relay = iceCfg.relay /\ iceCfg' \in [relay : BOOLEAN, env : IceEnv]
  BY <1>1, <1>2
<1>4. IceTypeOK' /\ Counted' /\ Numbered'
  BY <1>1, <1>2, <1>3 DEF IceInv, IceTypeOK, Counted, Forgetting, Clearing, Numbered
<1>5. ContextsOwned'
  BY <1>1 DEF IceInv, ContextsOwned, Held
<1>6. ASSUME NEW x, Served(x) PROVE Served(x)'
  BY <1>1, <1>3, <1>6 DEF Served
<1>7. ContextCurrent'
  BY <1>1, <1>6 DEF IceInv, ContextCurrent, Stale
<1> QED
  BY <1>1, <1>4, <1>5, <1>7, AttemptsStay DEF IceInv

\* The new configuration is in the way of the attempts until the request has
\* taken their context.
LEMMA ChangeKeepsInv ==
  ASSUME IceInv, NEW t \in IceTab, ChangeRegistration(t)
  PROVE  IceInv'
<1>1. /\ stopper[t].pc = "idle" /\ stops < MaxStops /\ stops' = stops + 1
      /\ iceCfg' \in [relay : BOOLEAN, env : IceEnv] /\ former' = {}
      /\ stopper' = [stopper EXCEPT ![t].pc = "forget"]
      /\ UNCHANGED <<iceContext, contexts, cancelled, iceGen>>
      /\ UNCHANGED <<active, iceSync, attempt, attempts, answer>>
  BY DEF ChangeRegistration
<1>2. /\ stopper' \in [IceTab -> StopType]
      /\ stopper'[t].pc = "forget" /\ stopper'[t].held = stopper[t].held
      /\ \A u \in IceTab : u # t => stopper'[u] = stopper[u]
  BY <1>1, StopperPc DEF IceInv
<1>3. IceTypeOK'
  BY <1>1, <1>2, IceAssumption DEF IceInv, IceTypeOK
<1>4. Counted'
  <2>1. Forgetting' = Forgetting \cup {t} /\ Clearing' = Clearing \cup {t}
    BY <1>1, <1>2 DEF Forgetting, Clearing
  <2>2. /\ t \notin Forgetting /\ t \notin Clearing
        /\ IsFiniteSet(Forgetting) /\ IsFiniteSet(Clearing)
    BY <1>1 DEF Forgetting, Clearing, IceInv, Counted
  <2>3. /\ IsFiniteSet(Forgetting') /\ IsFiniteSet(Clearing')
        /\ Cardinality(Forgetting') = Cardinality(Forgetting) + 1
        /\ Cardinality(Clearing') = Cardinality(Clearing) + 1
        /\ Cardinality(Forgetting) \in Nat /\ Cardinality(Clearing) \in Nat
    BY <2>1, <2>2, FS_AddElement, FS_CardinalityType
  <2>4. iceGen \in Nat /\ contexts \in Nat /\ stops \in Nat
    BY IceAssumption DEF IceInv, IceTypeOK
  <2> QED
    BY <1>1, <2>3, <2>4 DEF IceInv, Counted
<1>5. Numbered'
  BY <1>1, <1>2 DEF IceInv, Numbered
<1>6. ContextsOwned'
  <2>1. ASSUME NEW c, Held(c) PROVE Held(c)'
    BY <1>1, <1>2, <2>1 DEF Held
  <2> QED
    BY <1>1, <2>1 DEF IceInv, ContextsOwned
<1>7. ContextCurrent'
  BY <1>2 DEF ContextCurrent
<1> QED
  BY <1>1, <1>3, <1>4, <1>5, <1>6, <1>7, AttemptsStay DEF IceInv

\* The request takes the context from the server.
LEMMA ForgetKeepsInv ==
  ASSUME IceInv, NEW t \in IceTab, StopForget(t)
  PROVE  IceInv'
<1> DEFINE r == [pc |-> "clear", held |-> iceContext]
<1>1. /\ stopper[t].pc = "forget" /\ stopper' = [stopper EXCEPT ![t] = r] /\ iceContext' = 0
      /\ UNCHANGED <<iceCfg, former, contexts, cancelled, iceGen, active, stops>>
      /\ UNCHANGED <<iceSync, attempt, attempts, answer>>
  BY DEF StopForget
<1>2. r \in StopType /\ r.pc = "clear" /\ r.held = iceContext
  BY DEF IceInv, IceTypeOK, StopType
<1> HIDE DEF r
<1>3. /\ stopper' \in [IceTab -> StopType] /\ stopper'[t] = r
      /\ \A u \in IceTab : u # t => stopper'[u] = stopper[u]
  BY <1>1, <1>2, StopperMoves DEF IceInv
<1>4. /\ iceContext \in Nat /\ iceGen \in Nat /\ contexts \in Nat /\ stops \in Nat
  BY IceAssumption DEF IceInv, IceTypeOK, Context
<1>5. IceTypeOK'
  BY <1>1, <1>3 DEF IceInv, IceTypeOK
<1>6. Counted'
  <2>1. Forgetting' = Forgetting \ {t} /\ Clearing' = Clearing
    BY <1>1, <1>2, <1>3 DEF Forgetting, Clearing
  <2>2. t \in Forgetting /\ IsFiniteSet(Forgetting) /\ IsFiniteSet(Clearing)
    BY <1>1 DEF Forgetting, IceInv, Counted
  <2>3. /\ IsFiniteSet(Forgetting')
        /\ Cardinality(Forgetting') = Cardinality(Forgetting) - 1
        /\ Cardinality(Forgetting) \in Nat
    BY <2>1, <2>2, FS_RemoveElement, FS_CardinalityType
  <2> QED
    BY <1>1, <1>4, <2>1, <2>2, <2>3 DEF IceInv, Counted
<1>7. Numbered'
  BY <1>1, <1>2, <1>3, <1>4 DEF IceInv, Numbered
<1>8. ASSUME NEW c, c = iceContext \/ Held(c) PROVE Held(c)'
  BY <1>1, <1>2, <1>3, <1>8 DEF Held
<1>9. ContextsOwned'
  BY <1>1, <1>8 DEF IceInv, ContextsOwned
<1>10. ContextCurrent'
  <2>1. \A a \in 1 .. attempts : attempt[a] # Over => attempt[a].context # 0
    BY <1>4 DEF IceInv, Numbered
  <2> QED
    BY <1>1, <2>1 DEF IceInv, Numbered, ContextCurrent
<1> QED
  BY <1>1, <1>5, <1>6, <1>7, <1>9, <1>10, AttemptsStay DEF IceInv

\* A generation begins, which no attempt belongs to.
LEMMA ClearKeepsInv ==
  ASSUME IceInv, NEW t \in IceTab, StopClear(t)
  PROVE  IceInv'
<1>1. /\ stopper[t].pc = "clear" /\ stopper' = [stopper EXCEPT ![t].pc = "cancel"]
      /\ iceGen' = iceGen + 1 /\ active' = [s \in Session |-> NotActive]
      /\ UNCHANGED <<iceCfg, former, iceContext, contexts, cancelled, stops>>
      /\ UNCHANGED <<iceSync, attempt, attempts, answer>>
  BY DEF StopClear
<1>2. /\ stopper' \in [IceTab -> StopType]
      /\ stopper'[t].pc = "cancel" /\ stopper'[t].held = stopper[t].held
      /\ \A u \in IceTab : u # t => stopper'[u] = stopper[u]
  BY <1>1, StopperPc DEF IceInv
<1>3. iceGen \in Nat /\ contexts \in Nat /\ stops \in 0 .. MaxStops
  BY IceAssumption DEF IceInv, IceTypeOK
<1>4. Forgetting' = Forgetting /\ Clearing' = Clearing \ {t}
  BY <1>1, <1>2 DEF Forgetting, Clearing
<1>5. /\ IsFiniteSet(Clearing') /\ Cardinality(Clearing') \in Nat /\ Cardinality(Clearing) \in Nat
      /\ Cardinality(Clearing') = Cardinality(Clearing) - 1
  <2>1. t \in Clearing /\ IsFiniteSet(Clearing)
    BY <1>1 DEF Clearing, IceInv, Counted
  <2> QED
    BY <1>4, <2>1, FS_RemoveElement, FS_CardinalityType
<1>6. Counted' /\ iceGen + 1 <= stops
  BY <1>1, <1>3, <1>4, <1>5 DEF IceInv, Counted
<1>7. IceTypeOK'
  BY <1>1, <1>2, <1>3, <1>6, IceAssumption DEF IceInv, IceTypeOK
<1>8. Numbered' /\ \A a \in 1 .. attempts : attempt[a] # Over => attempt[a].gen # iceGen'
  <2>1. \A a \in 1 .. attempts : attempt[a] # Over => attempt[a].gen \in Nat
    BY AttemptFields, IceAssumption DEF IceInv
  <2>2. \A u \in IceTab : stopper'[u].held = stopper[u].held
    BY <1>2
  <2> QED
    BY <1>1, <1>3, <2>1, <2>2 DEF IceInv, Numbered
<1>9. ContextsOwned'
  <2>1. ASSUME NEW c, Held(c) PROVE Held(c)'
    BY <1>1, <1>2, <2>1 DEF Held
  <2> QED
    BY <1>1, <2>1 DEF IceInv, ContextsOwned
<1>10. ContextCurrent'
  BY <1>1, <1>2, RequestsLeft
<1>11. EntryKept'
  BY <1>1, <1>8 DEF EntryKept, Over
<1> QED
  BY <1>1, <1>6, <1>7, <1>8, <1>9, <1>10, <1>11, AttemptsStay DEF IceInv

\* The context that the request took is done.
LEMMA CancelKeepsInv ==
  ASSUME IceInv, NEW t \in IceTab, StopCancel(t)
  PROVE  IceInv'
<1> DEFINE r == [pc |-> "idle", held |-> 0]
<1>1. /\ stopper[t].pc = "cancel" /\ stopper' = [stopper EXCEPT ![t] = r]
      /\ cancelled' = cancelled \cup ({stopper[t].held} \ {0})
      /\ UNCHANGED <<iceCfg, former, iceContext, contexts, iceGen, active, stops>>
      /\ UNCHANGED <<iceSync, attempt, attempts, answer>>
  BY DEF StopCancel
<1>2. r \in StopType /\ r.pc = "idle" /\ r.held = 0
  BY DEF StopType
<1> HIDE DEF r
<1>3. /\ stopper' \in [IceTab -> StopType] /\ stopper'[t] = r
      /\ \A u \in IceTab : u # t => stopper'[u] = stopper[u]
  BY <1>1, <1>2, StopperMoves DEF IceInv
<1>4. contexts \in 0 .. MaxStops + 1 /\ MaxStops \in Nat /\ stopper[t].held \in 0 .. contexts
  BY IceAssumption DEF IceInv, IceTypeOK, Numbered
<1>5. cancelled' \subseteq 1 .. contexts /\ cancelled' \subseteq Context
  <2>1. cancelled \subseteq 1 .. contexts
    BY DEF IceInv, Numbered
  <2>2. {stopper[t].held} \ {0} \subseteq 1 .. contexts
    BY <1>4
  <2>3. cancelled' = cancelled \cup ({stopper[t].held} \ {0})
    BY <1>1
  <2>4. cancelled' \subseteq 1 .. contexts
    BY <2>1, <2>2, <2>3
  <2> QED
    BY <1>4, <2>4 DEF Context
<1>6. IceTypeOK'
  BY <1>1, <1>3, <1>5 DEF IceInv, IceTypeOK
<1>7. Counted'
  <2>1. Forgetting' = Forgetting /\ Clearing' = Clearing
    BY <1>1, <1>2, <1>3 DEF Forgetting, Clearing
  <2> QED
    BY <1>1, <2>1 DEF IceInv, Counted
<1>8. Numbered'
  BY <1>1, <1>2, <1>3, <1>4, <1>5 DEF IceInv, Numbered
<1>9. ContextsOwned'
  <2>1. ASSUME NEW c, c # 0, c \in cancelled \/ Held(c)
        PROVE  c \in cancelled' \/ Held(c)'
    BY <1>1, <1>3, <2>1 DEF Held
  <2>2. /\ \A a \in 1 .. attempts : attempt[a] # Over => attempt[a].context # 0
        /\ iceSync.pc = "start" => iceSync.context # 0
    BY <1>4 DEF IceInv, Numbered
  <2> QED
    BY <1>1, <2>1, <2>2 DEF IceInv, ContextsOwned
<1>10. ContextCurrent'
  BY <1>1, <1>3, RequestsLeft
<1> QED
  BY <1>1, <1>6, <1>7, <1>8, <1>9, <1>10, AttemptsStay DEF IceInv

-----------------------------------------------------------------------------
(* The sync loop *)

\* The states of the sync loop.
LEMMA SyncFields ==
  ASSUME IceTypeOK, iceSync.pc # "idle"
  PROVE  /\ iceSync \in [pc : {"asked", "start"}, env : IceEnv, todo : SUBSET Session,
                         context : Context \cup {0}]
         /\ iceSync.pc \in {"asked", "start"} /\ iceSync.env \in IceEnv
         /\ iceSync.todo \subseteq Session /\ iceSync.context \in Context \cup {0}
  BY DEF IceTypeOK, SyncType, SyncIdle

\* The loop asks, or ends.
LEMMA SyncRests ==
  ASSUME IceInv, iceSync' \in SyncType, iceSync'.pc # "start", iceSync'.context = 0,
         UNCHANGED <<iceCfg, former, iceContext, contexts, cancelled, iceGen, active>>,
         UNCHANGED <<stopper, stops, attempt, attempts, answer>>
  PROVE  IceInv'
<1>1. IceTypeOK'
  BY DEF IceInv, IceTypeOK
<1>2. Counted'
  BY DEF IceInv, Counted, Forgetting, Clearing
<1>3. Numbered'
  <2>1. contexts \in Nat
    BY IceAssumption DEF IceInv, IceTypeOK
  <2> QED
    BY <2>1 DEF IceInv, Numbered
<1>4. ContextsOwned'
  BY DEF IceInv, ContextsOwned, Held
<1>5. ContextCurrent'
  BY DEF IceInv, ContextCurrent, Stale, Served
<1> QED
  BY <1>1, <1>2, <1>3, <1>4, <1>5, AttemptsStay DEF IceInv

\* The sync loop asks.
LEMMA AskKeepsInv ==
  ASSUME IceInv, SyncAsk
  PROVE  IceInv'
<1>1. iceSync' \in SyncType /\ iceSync'.pc # "start" /\ iceSync'.context = 0
  BY DEF SyncAsk, IceInv, IceTypeOK, SyncType
<1> QED
  BY <1>1, SyncRests DEF SyncAsk, serverVars

\* The sync loop is done with an answer.
LEMMA DoneKeepsInv ==
  ASSUME IceInv, SyncDone
  PROVE  IceInv'
<1>1. iceSync' \in SyncType /\ iceSync'.pc # "start" /\ iceSync'.context = 0
  BY DEF SyncDone, SyncType, SyncIdle
<1> QED
  BY <1>1, SyncRests DEF SyncDone, serverVars

\* The loop takes the server's context, or makes one that no attempt has.
LEMMA StartPendingKeepsInv ==
  ASSUME IceInv, StartPending
  PROVE  IceInv'
<1> DEFINE c == IF iceContext = 0 THEN contexts + 1 ELSE iceContext
           n == [iceSync EXCEPT !.pc = "start", !.context = c]
<1>1. CASE ~Unchanged
  <2>1. iceSync' \in SyncType /\ iceSync'.pc # "start" /\ iceSync'.context = 0
    BY <1>1 DEF StartPending, SyncType, SyncIdle
  <2> QED
    BY <1>1, <2>1, SyncRests DEF StartPending
<1>2. CASE Unchanged
  <2>1. /\ iceContext' = c /\ contexts' = IF iceContext = 0 THEN c ELSE contexts
        /\ iceSync.pc = "asked" /\ iceSync' = n
        /\ UNCHANGED <<iceCfg, former, cancelled, iceGen, active, stopper, stops>>
        /\ UNCHANGED <<attempt, attempts, answer>>
    BY <1>2 DEF StartPending
  <2>2. /\ iceGen \in Nat /\ contexts \in Nat /\ stops \in 0 .. MaxStops /\ MaxStops \in Nat
        /\ iceContext \in Nat /\ iceContext <= contexts
    BY IceAssumption DEF IceInv, IceTypeOK, Numbered, Context
  <2>3. /\ IsFiniteSet(Forgetting) /\ Cardinality(Forgetting) \in Nat
        /\ contexts + Cardinality(Forgetting) <= stops + (IF iceContext = 0 THEN 0 ELSE 1)
    BY FS_CardinalityType DEF IceInv, Counted
  <2>4. /\ c \in 1 .. contexts' /\ contexts' \in 0 .. MaxStops + 1 /\ contexts <= contexts'
        /\ iceContext' # 0
        /\ contexts' + Cardinality(Forgetting) <= stops + 1
    BY <2>1, <2>2, <2>3
  <2>5. c \in Context
    BY <2>2, <2>4 DEF Context
  <2> HIDE DEF c
  <2>6. /\ n \in SyncType /\ n.pc = "start" /\ n.context = c /\ n.env = iceSync.env
    BY <2>1, <2>5, SyncFields DEF IceInv, SyncType
  <2> HIDE DEF n
  <2>7. IceTypeOK'
    <3>1. iceContext' \in Context \cup {0} /\ iceSync' \in SyncType
      BY <2>1, <2>5, <2>6
    <3> QED
      BY <2>1, <2>4, <3>1 DEF IceInv, IceTypeOK
  <2>8. Counted'
    <3>1. Forgetting' = Forgetting /\ Clearing' = Clearing
      BY <2>1 DEF Forgetting, Clearing
    <3>2. contexts' + Cardinality(Forgetting') <= stops' + (IF iceContext' = 0 THEN 0 ELSE 1)
      BY <2>1, <2>4, <3>1
    <3> QED
      BY <2>1, <3>1, <3>2 DEF IceInv, Counted
  <2>9. Numbered'
    <3>1. 1 .. contexts \subseteq 1 .. contexts' /\ 0 .. contexts \subseteq 0 .. contexts'
      BY <2>2, <2>4
    <3>2. c \in 0 .. contexts' /\ c # 0 /\ c <= contexts'
      BY <2>4
    <3> QED
      BY <2>1, <2>6, <3>1, <3>2 DEF IceInv, Numbered
  <2>10. ASSUME NEW a \in 1 .. attempts, attempt[a] # Over
         PROVE  attempt[a].context # 0 /\ attempt[a].context # contexts + 1
    BY <2>2, <2>10 DEF IceInv, Numbered
  <2>11. c = iceContext \/ (iceContext = 0 /\ c = contexts + 1)
    BY DEF c
  <2>12. ContextsOwned'
    <3>1. ASSUME NEW d, d # 0, d \in cancelled \/ d = iceContext \/ Held(d)
          PROVE  d \in cancelled' \/ d = iceContext' \/ Held(d)'
      BY <2>1, <2>11, <3>1 DEF Held
    <3> QED
      BY <2>1, <2>6, <2>10, <3>1 DEF IceInv, ContextsOwned
  <2>13. ContextCurrent'
    <3>1. Served(iceSync.env)'
      BY <1>2, <2>1, <2>6 DEF Unchanged, Served
    <3>2. ASSUME NEW a \in 1 .. attempts, attempt[a] # Over, attempt[a].context = iceContext'
          PROVE  attempt[a].context = iceContext
      BY <2>1, <2>10, <2>11, <3>2
    <3> QED
      BY <2>1, <3>1, <3>2 DEF IceInv, ContextCurrent, Stale, Served
  <2> QED
    BY <2>1, <2>7, <2>8, <2>9, <2>12, <2>13, AttemptsStay DEF IceInv
<1> QED
  BY <1>1, <1>2

\* An attempt starts for a session that has no entry, so that no other one of
\* this generation answers it.
LEMMA StartSessionKeepsInv ==
  ASSUME IceInv, NEW s \in Session, StartSession(s)
  PROVE  IceInv'
<1> DEFINE n == [iceSync EXCEPT !.todo = @ \ {s}]
           b == attempts + 1
           new == [pc |-> "gather", session |-> s, env |-> iceSync.env,
                   context |-> iceSync.context, gen |-> iceGen, peer |-> "open"]
<1>1. /\ iceSync.pc = "start" /\ iceSync' = n
      /\ UNCHANGED <<iceCfg, former, iceContext, contexts, cancelled, iceGen>>
      /\ UNCHANGED <<stopper, stops, answer>>
  BY DEF StartSession, serverVars
<1>2. /\ n \in SyncType /\ n.pc = "start" /\ n.context = iceSync.context /\ n.env = iceSync.env
  BY <1>1, SyncFields DEF IceInv, SyncType
<1> HIDE DEF n
<1>3. Counted'
  BY <1>1 DEF IceInv, Counted, Forgetting, Clearing
<1>4. CASE active[s] # NotActive
  <2>1. UNCHANGED <<active, attempt, attempts>>
    BY <1>4 DEF StartSession
  <2>2. IceTypeOK'
    BY <1>1, <1>2, <2>1 DEF IceInv, IceTypeOK
  <2>3. Numbered'
    BY <1>1, <1>2, <2>1 DEF IceInv, Numbered
  <2>4. ContextsOwned'
    BY <1>1, <1>2, <2>1 DEF IceInv, ContextsOwned, Held
  <2>5. ContextCurrent'
    BY <1>1, <1>2, <2>1 DEF IceInv, ContextCurrent, Stale, Served
  <2> QED
    BY <1>1, <1>3, <2>1, <2>2, <2>3, <2>4, <2>5, AttemptsStay DEF IceInv
<1>5. CASE active[s] = NotActive
  <2>1. /\ attempts < MaxAttempts /\ attempts' = b
        /\ active' = [active EXCEPT ![s] = iceGen]
        /\ attempt' = [a \in 1 .. b |-> IF a <= attempts THEN attempt[a] ELSE new]
    BY <1>5 DEF StartSession
  <2>2. /\ attempts \in 0 .. MaxAttempts /\ MaxAttempts \in Nat
        /\ iceGen \in 0 .. MaxStops /\ MaxStops \in Nat /\ contexts \in Nat
        /\ active \in [Session -> (0 .. MaxStops) \cup {NotActive}]
    BY IceAssumption DEF IceInv, IceTypeOK
  <2>3. iceSync.context \in Context /\ iceSync.env \in IceEnv
    BY <1>1, SyncFields DEF IceInv, Numbered
  <2>4. new \in AttemptType
    BY <2>2, <2>3 DEF AttemptType
  <2>5. /\ new.pc = "gather" /\ new.session = s /\ new.env = iceSync.env
        /\ new.context = iceSync.context /\ new.gen = iceGen /\ new # Over
    BY DEF Over
  <2> HIDE DEF new
  <2>6. /\ attempts' \in 0 .. MaxAttempts /\ b \in 1 .. attempts' /\ b \notin 1 .. attempts
        /\ \A a \in 1 .. attempts' : a = b \/ a \in 1 .. attempts
        /\ \A a \in 1 .. attempts : a \in 1 .. attempts' /\ a <= attempts
        /\ ~(b <= attempts)
    BY <2>1, <2>2
  <2>7. /\ attempt'[b] = new
        /\ \A a \in 1 .. attempts : attempt'[a] = attempt[a]
        /\ attempt' = [a \in 1 .. attempts' |-> attempt'[a]]
    BY <2>1, <2>6
  <2> HIDE DEF b
  <2>8. attempt' \in [1 .. attempts' -> AttemptType \cup {Over}]
    <3>1. \A a \in 1 .. attempts' : attempt'[a] \in AttemptType \cup {Over}
      BY <2>4, <2>6, <2>7 DEF IceInv, IceTypeOK
    <3> QED
      BY <2>7, <3>1
  <2>9. /\ active' \in [Session -> (0 .. MaxStops) \cup {NotActive}]
        /\ active'[s] = iceGen /\ \A x \in Session : x # s => active'[x] = active[x]
    BY <2>1, <2>2
  <2>10. IceTypeOK'
    BY <1>1, <1>2, <2>6, <2>8, <2>9 DEF IceInv, IceTypeOK
  <2>11. Numbered'
    <3>1. iceSync.context \in 1 .. contexts /\ iceGen <= iceGen
      BY <1>1, <2>2 DEF IceInv, Numbered
    <3> QED
      BY <1>1, <1>2, <2>5, <2>6, <2>7, <3>1 DEF IceInv, Numbered
  <2>12. ContextsOwned'
    BY <1>1, <1>2, <2>5, <2>6, <2>7 DEF IceInv, ContextsOwned, Held
  <2>13. ContextCurrent'
    BY <1>1, <1>2, <2>5, <2>6, <2>7 DEF IceInv, ContextCurrent, Stale, Served
  <2>14. ASSUME NEW a \in 1 .. attempts, attempt[a].session = s, attempt[a].gen = iceGen
         PROVE  attempt[a].pc = "done"
    <3>1. iceGen # NotActive
      BY <2>2 DEF NotActive
    <3> QED
      BY <1>5, <2>14, <3>1 DEF IceInv, EntryKept
  <2>15. OneAttemptPerGeneration'
    <3>1. ASSUME NEW a \in 1 .. attempts', NEW d \in 1 .. attempts', a # d,
                 attempt'[a].session = attempt'[d].session, attempt'[a].gen = attempt'[d].gen
          PROVE  "done" \in {attempt'[a].pc, attempt'[d].pc}
      <4>1. CASE a = b \/ d = b
        BY <2>5, <2>6, <2>7, <2>14, <3>1, <4>1
      <4>2. CASE a # b /\ d # b
        BY <2>6, <2>7, <3>1, <4>2 DEF IceInv, OneAttemptPerGeneration
      <4> QED
        BY <4>1, <4>2
    <3> QED
      BY <3>1 DEF OneAttemptPerGeneration
  <2>16. EntryKept'
    <3>1. ASSUME NEW a \in 1 .. attempts, attempt[a].pc # "done", attempt[a].gen = iceGen
          PROVE  active'[attempt[a].session] = iceGen
      <4>1. attempt[a].session \in Session /\ active[attempt[a].session] = iceGen
        BY <3>1, AttemptFields DEF IceInv, EntryKept, Over
      <4> QED
        BY <2>9, <4>1
    <3>2. ASSUME NEW a \in 1 .. attempts', attempt'[a].pc # "done", attempt'[a].gen = iceGen'
          PROVE  active'[attempt'[a].session] = iceGen'
      BY <1>1, <2>5, <2>6, <2>7, <2>9, <3>1, <3>2
    <3> QED
      BY <3>2 DEF EntryKept
  <2>17. OnePeerPerSession'
    <3>1. ASSUME NEW a \in 1 .. attempts', Answered(a)'
          PROVE  a \in 1 .. attempts /\ attempt'[a] = attempt[a]
      <4>1. attempt'[a].pc # "gather"
        BY <3>1 DEF Answered
      <4>2. a # b
        BY <2>5, <2>7, <4>1
      <4> QED
        BY <2>6, <2>7, <4>2
    <3>2. ASSUME NEW a \in 1 .. attempts', Answered(a)'
          PROVE  answer'[attempt'[a].session] = a
      BY <1>1, <3>1, <3>2 DEF IceInv, OnePeerPerSession, Answered
    <3> QED
      BY <3>2 DEF OnePeerPerSession
  <2> QED
    BY <1>3, <2>10, <2>11, <2>12, <2>13, <2>15, <2>16, <2>17 DEF IceInv
<1> QED
  BY <1>4, <1>5

-----------------------------------------------------------------------------

\* No step of an attempt breaks the invariant.
LEMMA AttemptKeepsInv ==
  ASSUME IceInv, NEW a \in 1 .. attempts, Answering(a) \/ Watch(a) \/ Peer(a)
  PROVE  IceInv'
<1>1. attempt[a].pc # "done" \/ attempt[a].peer # "closed" => attempt[a] # Over
  BY DEF Over
<1>2. attempt[a] # Over => /\ attempt[a].pc \in {"gather", "post", "return", "done"}
                           /\ attempt[a].peer \in {"closed", "open", "connected"}
  BY AttemptFields DEF IceInv
<1>3. CASE Gathered(a)
  BY <1>1, <1>3, AttemptMoves DEF Gathered
<1>4. CASE SetupFails(a)
  BY <1>1, <1>4, AttemptMoves DEF SetupFails
<1>5. CASE PostAnswer(a)
  BY <1>5, AnswerTaken DEF PostAnswer
<1>6. CASE PostFails(a)
  BY <1>1, <1>6, AttemptMoves, AnswerTaken DEF PostFails
<1>7. CASE AttemptReturns(a)
  BY <1>7, ReturnKeepsInv
<1>8. ASSUME Answered(a), NEW peer \in {"closed", "connected"}, Set(a, attempt[a].pc, peer),
             Quiet, UNCHANGED <<active, answer>>
      PROVE  IceInv'
  <2>1. attempt[a] # Over /\ attempt[a].pc \in {"return", "done"}
    BY <1>1, <1>8 DEF Answered
  <2> QED
    BY <1>8, <2>1, AttemptMoves
<1>9. CASE PeerConnects(a) \/ PeerLost(a) \/ ConnectTimeout(a) \/ PeerCancelled(a)
  BY <1>8, <1>9 DEF PeerConnects, PeerLost, ConnectTimeout, PeerCancelled
<1>10. CASE HelloRejected(a)
  <2>1. /\ attempt[a].peer = "connected" /\ Set(a, attempt[a].pc, "closed")
        /\ Quiet /\ UNCHANGED <<active, answer>>
    BY <1>10 DEF HelloRejected
  <2>2. attempt[a] # Over
    BY <1>1, <2>1
  <2> QED
    BY <1>2, <2>1, <2>2, AttemptMoves
<1> QED
  BY <1>3, <1>4, <1>5, <1>6, <1>7, <1>9, <1>10 DEF Answering, Watch, Peer

\* Before the first registration request nothing runs.
LEMMA IceInitInv == IceInit => IceInv
<1> SUFFICES ASSUME IceInit PROVE IceInv
  OBVIOUS
<1>1. /\ iceCfg \in [relay : BOOLEAN, env : IceEnv] /\ former = {}
      /\ iceContext = 0 /\ contexts = 0 /\ cancelled = {} /\ iceGen = 0
      /\ active = [s \in Session |-> NotActive]
      /\ stopper = [t \in IceTab |-> [pc |-> "idle", held |-> 0]] /\ stops = 0
      /\ iceSync = SyncIdle
      /\ attempt = [a \in 1 .. 0 |-> 0] /\ attempts = 0
      /\ answer = [s \in Session |-> 0]
  BY DEF IceInit
<1>2. 1 .. attempts = {}
  BY <1>1
<1>3. IceTypeOK
  <2>1. attempt \in [1 .. attempts -> AttemptType \cup {Over}]
    BY <1>1, <1>2
  <2> QED
    BY <1>1, <2>1, IceAssumption DEF IceTypeOK, StopType, SyncType
<1>4. \A t \in IceTab : stopper[t].pc = "idle" /\ stopper[t].held = 0
  BY <1>1
<1>5. Counted
  <2>1. Forgetting = {} /\ Clearing = {}
    BY <1>4 DEF Forgetting, Clearing
  <2> QED
    BY <1>1, <2>1, FS_EmptySet DEF Counted
<1>6. Numbered /\ ContextsOwned /\ ContextCurrent
  BY <1>1, <1>2, <1>4 DEF Numbered, ContextsOwned, ContextCurrent, SyncIdle
<1>7. OneAttemptPerGeneration /\ EntryKept /\ OnePeerPerSession
  BY <1>2 DEF OneAttemptPerGeneration, EntryKept, OnePeerPerSession
<1> QED
  BY <1>3, <1>5, <1>6, <1>7 DEF IceInv

\* No step breaks the invariant.
LEMMA IceStep == IceInv /\ [IceNext]_iceVars => IceInv'
<1> SUFFICES ASSUME IceInv, [IceNext]_iceVars PROVE IceInv'
  OBVIOUS
<1>1. CASE \E t \in IceTab : ChangeRegistration(t) \/ Stop(t)
  BY <1>1, ChangeKeepsInv, ForgetKeepsInv, ClearKeepsInv, CancelKeepsInv DEF Stop
<1>2. CASE SyncAsk \/ StartPending \/ (\E s \in Session : StartSession(s)) \/ SyncDone
  BY <1>2, AskKeepsInv, StartPendingKeepsInv, StartSessionKeepsInv, DoneKeepsInv
<1>3. CASE \E a \in 1 .. attempts : Answering(a) \/ Watch(a) \/ Peer(a)
  BY <1>3, AttemptKeepsInv
<1>4. CASE UNCHANGED iceVars
  <2>1. /\ UNCHANGED <<iceCfg, former, iceContext, contexts, cancelled, iceGen, active>>
        /\ UNCHANGED <<stopper, stops, iceSync, attempt, attempts, answer>>
    BY <1>4 DEF iceVars, serverVars
  <2>2. IceTypeOK' /\ Counted' /\ Numbered'
    BY <2>1 DEF IceInv, IceTypeOK, Counted, Forgetting, Clearing, Numbered
  <2>3. ContextsOwned' /\ ContextCurrent'
    BY <2>1 DEF IceInv, ContextsOwned, Held, ContextCurrent, Stale, Served
  <2> QED
    BY <2>1, <2>2, <2>3, AttemptsStay DEF IceInv
<1>5. CASE \E e \in IceEnv : ReplaceEnvironment(e)
  BY <1>5, ReplaceKeepsInv
<1> QED
  BY <1>1, <1>2, <1>3, <1>4, <1>5 DEF IceNext

\* When no request is on its way through stopICE, nobody holds a context, and
\* an attempt whose context is the server's belongs to the registration.
LEMMA IceInvSafe == IceInv => IceSafe
<1> SUFFICES ASSUME IceInv PROVE IceSafe
  OBVIOUS
<1>1. StaleAttemptsCancelled
  <2> SUFFICES ASSUME ~Stopping, NEW a \in 1 .. attempts, attempt[a] # Over, Stale(a)
               PROVE  attempt[a].context \in cancelled
    BY DEF StaleAttemptsCancelled, Done
  <2>1. \A t \in IceTab : stopper[t].pc = "idle"
    BY DEF Stopping
  <2>2. ~Held(attempt[a].context)
    BY <2>1 DEF Held
  <2>3. attempt[a].context # iceContext
    BY <2>1 DEF IceInv, ContextCurrent
  <2> QED
    BY <2>2, <2>3 DEF IceInv, ContextsOwned
<1> QED
  BY <1>1 DEF IceInv, IceSafe

\* Whatever the requests and the sync loop do between them (stopICE and
\* startPendingICESessions), attempts are cancelled when the relay is disabled
\* and when their environment had gone before the last request that stops
\* them; one attempt of a generation answers a session, and of the attempts of
\* one session only the one that Dyner took keeps a peer.
THEOREM PeersStopped == IceSpec => []IceSafe
<1>1. IceInit => IceInv
  BY IceInitInv
<1>2. IceInv /\ [IceNext]_iceVars => IceInv'
  BY IceStep
<1>3. IceInv => IceSafe
  BY IceInvSafe
<1> QED
  BY <1>1, <1>2, <1>3, PTL DEF IceSpec

-----------------------------------------------------------------------------
(* One peer *)

\* The one goroutine that posts candidates runs while posting says so, and has
\* a longer list in hand than Dyner holds.
Posting ==
  /\ drain.pc # "none" <=> trickle.posting
  /\ drain.pc = "post" => drain.snapshot > stored /\ drain.snapshot <= trickle.gathered
  /\ trickle.failed => trickle.ended /\ ~trickle.posting
  /\ ~trickle.failed => stored = trickle.posted /\ stored <= trickle.gathered
  /\ ~trickle.posting => trickle.failed \/ stored = trickle.gathered

\* A datagram channel that opened is attached, or waits for a control channel
\* that is not there yet.
Binds ==
  /\ datagram \in {"ready", "bound"} => bound.pending \/ bound.attached
  /\ bound.pending /\ control # "none" => bound.attached
  /\ bound.ready => datagram = "bound"
  /\ serve.pc # "none" => control = "open"
  /\ serve.datagrams => bound.attached

\* The inductive invariant of one peer.
PeerInv == IcePeerTypeOK /\ Posting /\ Binds

\* A callback of the trickler and the steps of its goroutine.
LEMMA TrickleStep ==
  ASSUME PeerInv, (\E last \in BOOLEAN : Add(last)) \/ Drain
  PROVE  PeerInv' /\ stored' >= stored
<1> DEFINE T == [gathered : 0 .. MaxCandidates, posted : 0 .. MaxCandidates, ended : BOOLEAN,
                 posting : BOOLEAN, failed : BOOLEAN]
           D == [pc : {"none", "look", "post"}, snapshot : 0 .. MaxCandidates]
<1>1. /\ trickle \in T /\ drain \in D
      /\ stored \in 0 .. MaxCandidates /\ MaxCandidates \in Nat \ {0}
  BY IcePeerAssumption DEF PeerInv, IcePeerTypeOK
<1>2. /\ UNCHANGED <<main, ctxDone, connected, peerOpen, poller, watcher>>
      /\ UNCHANGED <<control, datagram, bound, serve, socket>>
  BY DEF Add, Drain, DrainEnds, DrainSnapshot, DrainPosts, DrainFails, NotTrickle, channelVars
<1>3. Binds'
  BY <1>2 DEF PeerInv, Binds
<1>4. ASSUME trickle' \in T, drain' \in D, stored' \in 0 .. MaxCandidates, Posting'
      PROVE  PeerInv'
  BY <1>2, <1>3, <1>4 DEF PeerInv, IcePeerTypeOK
<1>5. ASSUME NEW last \in BOOLEAN, Add(last)
      PROVE  trickle' \in T /\ drain' \in D /\ UNCHANGED stored /\ Posting'
  <2>1. /\ ~trickle.ended
        /\ trickle.gathered < IF last THEN MaxCandidates ELSE MaxCandidates - 1
        /\ trickle' = [trickle EXCEPT !.gathered = @ + 1, !.ended = last, !.posting = TRUE]
        /\ drain' = IF trickle.posting THEN drain ELSE [drain EXCEPT !.pc = "look"]
        /\ UNCHANGED stored
    BY <1>5, Zenon DEF Add
  <2>2. trickle.gathered < MaxCandidates
    <3>1. CASE last
      BY <2>1, <3>1
    <3>2. CASE ~last
      BY <1>1, <2>1, <3>2
    <3> QED
      BY <3>1, <3>2
  <2>3. /\ trickle' \in T /\ trickle'.gathered = trickle.gathered + 1 /\ trickle'.posting = TRUE
        /\ trickle'.failed = trickle.failed /\ trickle'.posted = trickle.posted
    <3>1. /\ trickle.gathered + 1 \in 0 .. MaxCandidates /\ trickle \in T
          /\ trickle' = [trickle EXCEPT !.gathered = @ + 1, !.ended = last, !.posting = TRUE]
      BY <1>1, <2>1, <2>2
    <3> QED
      BY <3>1
  <2>4. /\ drain' \in D
        /\ drain'.pc = (IF trickle.posting THEN drain.pc ELSE "look")
        /\ drain'.snapshot = drain.snapshot
    BY <1>1, <2>1
  <2> QED
    BY <1>1, <2>1, <2>3, <2>4 DEF PeerInv, Posting
<1>6. CASE DrainEnds
  <2>1. /\ drain.pc = "look" /\ trickle.posted >= trickle.gathered
        /\ trickle' = [trickle EXCEPT !.posting = FALSE]
        /\ drain' = [pc |-> "none", snapshot |-> 0] /\ UNCHANGED stored
    BY <1>6 DEF DrainEnds
  <2>2. /\ trickle' \in T /\ trickle'.gathered = trickle.gathered /\ trickle'.posting = FALSE
        /\ trickle'.failed = trickle.failed /\ trickle'.posted = trickle.posted
        /\ trickle'.ended = trickle.ended
    BY <1>1, <2>1
  <2>3. Posting'
    BY <1>1, <2>1, <2>2 DEF PeerInv, Posting
  <2> QED
    BY <1>1, <1>4, <2>1, <2>2, <2>3
<1>7. CASE DrainSnapshot
  <2>1. /\ drain.pc = "look" /\ trickle.posted < trickle.gathered
        /\ drain' = [pc |-> "post", snapshot |-> trickle.gathered]
        /\ UNCHANGED <<trickle, stored>>
    BY <1>7 DEF DrainSnapshot
  <2>2. drain' \in D /\ Posting'
    BY <1>1, <2>1 DEF PeerInv, Posting
  <2> QED
    BY <1>1, <1>4, <2>1, <2>2
<1>8. CASE DrainPosts
  <2>1. /\ drain.pc = "post" /\ stored' = drain.snapshot
        /\ trickle' = [trickle EXCEPT !.posted = drain.snapshot]
        /\ drain' = [drain EXCEPT !.pc = "look"]
    BY <1>8 DEF DrainPosts
  <2>2. /\ trickle' \in T /\ trickle'.gathered = trickle.gathered
        /\ trickle'.posting = trickle.posting /\ trickle'.failed = trickle.failed
        /\ trickle'.posted = drain.snapshot /\ trickle'.ended = trickle.ended
    BY <1>1, <2>1
  <2>3. drain' \in D /\ drain'.pc = "look"
    BY <1>1, <2>1
  <2>4. Posting' /\ stored' >= stored
    BY <1>1, <2>1, <2>2, <2>3 DEF PeerInv, Posting
  <2> QED
    BY <1>1, <1>4, <2>1, <2>2, <2>3, <2>4
<1>9. CASE DrainFails
  <2>1. /\ drain.pc = "post" /\ stored' \in {stored, drain.snapshot}
        /\ trickle' = [trickle EXCEPT !.posting = FALSE, !.ended = TRUE, !.failed = TRUE]
        /\ drain' = [pc |-> "none", snapshot |-> 0]
    BY <1>9 DEF DrainFails
  <2>2. /\ trickle' \in T /\ trickle'.posting = FALSE /\ trickle'.failed = TRUE
        /\ trickle'.ended = TRUE
    BY <1>1, <2>1
  <2>3. drain' \in D /\ drain'.pc = "none" /\ stored' \in 0 .. MaxCandidates
    BY <1>1, <2>1
  <2>4. Posting' /\ stored' >= stored
    BY <1>1, <2>1, <2>2, <2>3 DEF PeerInv, Posting
  <2> QED
    BY <1>4, <2>2, <2>3, <2>4
<1> QED
  BY <1>1, <1>4, <1>5, <1>6, <1>7, <1>8, <1>9 DEF Drain

\* The attempt and its context, which neither candidates nor channels look at.
LEMMA MainStep ==
  ASSUME PeerInv,
         AnswerSession \/ PeerAnswers \/ PollEnds \/ ConnectPeer \/ CancelContext \/ WatchCloses
  PROVE  PeerInv' /\ stored' >= stored
<1> USE DEF PeerAnswers, AnswerSession, Gather, PostSucceeds, AnswerFails, PollEnds, ConnectPeer,
            CancelContext, WatchCloses, NotMain, ClosePeer
<1>1. UNCHANGED <<trickle, drain, stored, control, datagram, bound, serve, socket>>
  BY DEF tricklerVars, channelVars
<1>2. /\ main' \in {"none", "gather", "post", "returned"}
      /\ ctxDone' \in BOOLEAN /\ connected' \in BOOLEAN /\ peerOpen' \in BOOLEAN
      /\ poller' \in {"none", "poll", "ended"} /\ watcher' \in {"none", "watch", "ended"}
  BY DEF PeerInv, IcePeerTypeOK
<1>3. IcePeerTypeOK'
  BY <1>1, <1>2 DEF PeerInv, IcePeerTypeOK
<1>4. Posting' /\ Binds' /\ stored' >= stored
  BY <1>1, IcePeerAssumption DEF PeerInv, IcePeerTypeOK, Posting, Binds
<1> QED
  BY <1>3, <1>4 DEF PeerInv

\* The channels that the browser opens.
LEMMA ChannelStep ==
  ASSUME PeerInv, ControlArrives \/ DatagramArrives \/ Binding \/ Serve
  PROVE  PeerInv' /\ stored' >= stored
<1> USE DEF Binding, Serve, ControlArrives, DatagramArrives, ControlOpens, DatagramOpens, SetDatagram,
            DatagramReady, ServeStarts, ServeTimeout, ServeCancelled, NotChannel
<1>1. /\ UNCHANGED <<main, ctxDone, connected, peerOpen, poller, watcher>>
      /\ UNCHANGED <<trickle, drain, stored, socket>>
  BY DEF tricklerVars
<1>2. /\ bound \in [pending : BOOLEAN, attached : BOOLEAN, ready : BOOLEAN]
      /\ serve \in [pc : {"none", "wait", "read", "ended"}, datagrams : BOOLEAN]
      /\ control \in {"none", "arrived", "open"}
      /\ datagram \in {"none", "arrived", "attach", "ready", "bound"}
  BY DEF PeerInv, IcePeerTypeOK
<1>3. /\ bound' \in [pending : BOOLEAN, attached : BOOLEAN, ready : BOOLEAN]
      /\ serve' \in [pc : {"none", "wait", "read", "ended"}, datagrams : BOOLEAN]
      /\ control' \in {"none", "arrived", "open"}
      /\ datagram' \in {"none", "arrived", "attach", "ready", "bound"}
  <2>1. CASE ControlArrives
    <3>1. /\ bound' = [bound EXCEPT !.attached = bound.attached \/ bound.pending]
          /\ control' = "arrived" /\ UNCHANGED <<datagram, serve>>
      BY <2>1
    <3>2. (bound.attached \/ bound.pending) \in BOOLEAN
      OBVIOUS
    <3> QED
      BY <1>2, <3>1, <3>2
  <2>2. CASE ~ControlArrives
    <3>1. \/ UNCHANGED bound
          \/ bound' = [bound EXCEPT !.pending = TRUE]
          \/ bound' = [bound EXCEPT !.attached = TRUE]
          \/ bound' = [bound EXCEPT !.ready = TRUE]
      BY <2>2 DEF channelVars
    <3>2. bound' \in [pending : BOOLEAN, attached : BOOLEAN, ready : BOOLEAN]
      BY <1>2, <3>1
    <3>3. \/ UNCHANGED serve
          \/ serve' = [serve EXCEPT !.pc = "wait"]
          \/ serve' = [serve EXCEPT !.pc = "ended"]
          \/ serve' = [pc |-> "read", datagrams |-> bound.ready]
          \/ serve' = [pc |-> "read", datagrams |-> FALSE]
      BY <2>2 DEF channelVars
    <3>4. [pc |-> "read", datagrams |-> bound.ready]
            \in [pc : {"none", "wait", "read", "ended"}, datagrams : BOOLEAN]
      BY <1>2
    <3>5. serve' \in [pc : {"none", "wait", "read", "ended"}, datagrams : BOOLEAN]
      <4>1. CASE serve' = [pc |-> "read", datagrams |-> bound.ready]
        BY <3>4, <4>1
      <4>2. CASE serve' = [pc |-> "read", datagrams |-> FALSE]
        BY <4>2
      <4>3. CASE serve' = serve
        BY <1>2, <4>3
      <4>4. CASE serve' = [serve EXCEPT !.pc = "wait"] \/ serve' = [serve EXCEPT !.pc = "ended"]
        BY <1>2, <4>4
      <4> QED
        BY <3>3, <4>1, <4>2, <4>3, <4>4
    <3> QED
      BY <1>2, <2>2, <3>2, <3>5 DEF channelVars
  <2> QED
    BY <2>1, <2>2
<1>4. IcePeerTypeOK'
  BY <1>1, <1>3 DEF PeerInv, IcePeerTypeOK
<1>5. Posting' /\ stored' >= stored
  BY <1>1, IcePeerAssumption DEF PeerInv, IcePeerTypeOK, Posting
<1>6. Binds'
  BY <1>2 DEF PeerInv, Binds, channelVars
<1> QED
  BY <1>4, <1>5, <1>6 DEF PeerInv

\* The socket of the control channel.
LEMMA SocketStep ==
  ASSUME PeerInv, Receive \/ ReceiveReleased \/ ServeLoop \/ ChannelCloses
  PROVE  PeerInv' /\ stored' >= stored
<1> DEFINE S == [queue : 0 .. QueueSize, blocked : BOOLEAN, closed : BOOLEAN, sent : 0 .. MaxInbox]
<1> USE DEF ServeLoop, Receive, ReceiveReleased, ServeReads, ServeEnds, ServeCloses, ChannelCloses,
            NotSocket, ClosePeer
<1>1. /\ UNCHANGED <<main, connected, poller, watcher>>
      /\ UNCHANGED <<trickle, drain, stored, control, datagram, bound>>
  BY DEF tricklerVars, channelVars
<1>2. /\ socket \in S /\ QueueSize \in Nat /\ MaxInbox \in Nat
      /\ serve \in [pc : {"none", "wait", "read", "ended"}, datagrams : BOOLEAN]
  BY IcePeerAssumption DEF PeerInv, IcePeerTypeOK
<1>3. ctxDone' \in BOOLEAN /\ peerOpen' \in BOOLEAN
  BY DEF PeerInv, IcePeerTypeOK
<1>4. \/ UNCHANGED serve
      \/ serve.pc = "read" /\ serve' = [serve EXCEPT !.pc = "ended"]
  OBVIOUS
<1>5. /\ serve' \in [pc : {"none", "wait", "read", "ended"}, datagrams : BOOLEAN]
      /\ serve'.datagrams = serve.datagrams
      /\ serve'.pc = serve.pc \/ serve.pc = "read"
  BY <1>2, <1>4
<1>6. socket' \in S
  <2>1. CASE Receive
    <3>1. /\ socket.sent < MaxInbox
          /\ socket' = [socket EXCEPT !.sent = @ + 1, !.blocked = Full,
                                     !.queue = IF Full THEN @ ELSE @ + 1]
      BY <2>1
    <3>2. socket.sent + 1 \in 0 .. MaxInbox
      BY <1>2, <3>1
    <3>3. CASE Full = TRUE
      <4>1. socket' = [socket EXCEPT !.sent = @ + 1, !.blocked = TRUE, !.queue = @]
        BY <3>1, <3>3
      <4> QED
        BY <1>2, <3>2, <4>1
    <3>4. CASE Full = FALSE
      <4>1. socket' = [socket EXCEPT !.sent = @ + 1, !.blocked = FALSE, !.queue = @ + 1]
        BY <3>1, <3>4
      <4>2. socket.queue + 1 \in 0 .. QueueSize
        BY <1>2, <3>4 DEF Full
      <4> QED
        BY <1>2, <3>2, <4>1, <4>2
    <3> QED
      BY <3>3, <3>4 DEF Full
  <2>2. CASE ReceiveReleased
    <3>1. \/ socket.queue # QueueSize /\ socket' = [socket EXCEPT !.blocked = FALSE, !.queue = @ + 1]
          \/ socket' = [socket EXCEPT !.blocked = FALSE]
      BY <2>2 DEF Full
    <3>2. CASE socket.queue # QueueSize /\ socket' = [socket EXCEPT !.blocked = FALSE, !.queue = @ + 1]
      <4>1. socket.queue + 1 \in 0 .. QueueSize
        BY <1>2, <3>2
      <4> QED
        BY <1>2, <3>2, <4>1
    <3>3. CASE socket' = [socket EXCEPT !.blocked = FALSE]
      BY <1>2, <3>3
    <3> QED
      BY <3>1, <3>2, <3>3
  <2>3. CASE ServeReads
    <3>1. socket.queue > 0 /\ socket' = [socket EXCEPT !.queue = @ - 1]
      BY <2>3
    <3> QED
      BY <1>2, <3>1
  <2>4. CASE ServeEnds \/ ServeCloses \/ ChannelCloses
    <3>1. UNCHANGED socket \/ socket' = [socket EXCEPT !.closed = TRUE]
      BY <2>4
    <3> QED
      BY <1>2, <3>1
  <2> QED
    BY <2>1, <2>2, <2>3, <2>4
<1>7. IcePeerTypeOK'
  BY <1>1, <1>3, <1>5, <1>6 DEF PeerInv, IcePeerTypeOK
<1>8. Posting' /\ stored' >= stored
  BY <1>1, IcePeerAssumption DEF PeerInv, IcePeerTypeOK, Posting
<1>9. Binds'
  BY <1>1, <1>5 DEF PeerInv, Binds
<1> QED
  BY <1>7, <1>8, <1>9 DEF PeerInv

\* No step of the peer breaks the invariant or shortens Dyner's list.
LEMMA PeerStep == PeerInv /\ [IcePeerNext]_peerVars => PeerInv' /\ stored' >= stored
<1> SUFFICES ASSUME PeerInv, [IcePeerNext]_peerVars PROVE PeerInv' /\ stored' >= stored
  OBVIOUS
<1>1. CASE IcePeerNext
  BY <1>1, TrickleStep, MainStep, ChannelStep, SocketStep DEF IcePeerNext
<1>2. CASE UNCHANGED peerVars
  <2>1. /\ UNCHANGED <<main, ctxDone, connected, peerOpen, poller, watcher>>
        /\ UNCHANGED <<trickle, drain, stored, control, datagram, bound, serve, socket>>
    BY <1>2 DEF peerVars, tricklerVars, channelVars
  <2> QED
    BY <2>1, IcePeerAssumption DEF PeerInv, IcePeerTypeOK, Posting, Binds
<1> QED
  BY <1>1, <1>2

\* Nothing of the peer is there at first.
LEMMA PeerInit == IcePeerInit => PeerInv
<1> SUFFICES ASSUME IcePeerInit PROVE PeerInv
  OBVIOUS
<1> USE DEF IcePeerInit
<1>1. MaxCandidates \in Nat /\ QueueSize \in Nat /\ MaxInbox \in Nat
  BY IcePeerAssumption
<1>2. /\ trickle \in [gathered : 0 .. MaxCandidates, posted : 0 .. MaxCandidates, ended : BOOLEAN,
                      posting : BOOLEAN, failed : BOOLEAN]
      /\ drain \in [pc : {"none", "look", "post"}, snapshot : 0 .. MaxCandidates]
      /\ stored \in 0 .. MaxCandidates
  BY <1>1
<1>3. /\ bound \in [pending : BOOLEAN, attached : BOOLEAN, ready : BOOLEAN]
      /\ serve \in [pc : {"none", "wait", "read", "ended"}, datagrams : BOOLEAN]
  BY Zenon
<1>4. socket \in [queue : 0 .. QueueSize, blocked : BOOLEAN, closed : BOOLEAN, sent : 0 .. MaxInbox]
  BY <1>1
<1>5. ctxDone \in BOOLEAN /\ connected \in BOOLEAN /\ peerOpen \in BOOLEAN
  OBVIOUS
<1>6. IcePeerTypeOK
  BY <1>2, <1>3, <1>4, <1>5 DEF IcePeerTypeOK
<1>7. Posting /\ Binds
  BY DEF Posting, Binds
<1> QED
  BY <1>6, <1>7 DEF PeerInv

\* iceCandidateTrickler and OnDataChannel tell the truth, in whatever order
\* pion calls them: Dyner holds what was gathered when nothing is being posted
\* and no post has failed, which ends the trickling without telling anybody, and
\* datagrams are promised only with a channel that is attached.
THEOREM PeerTellsTruth == IcePeerSpec => []IcePeerSafe
<1>1. PeerInv => IcePeerSafe
  BY DEF PeerInv, IcePeerSafe, TrickleComplete, DatagramsAttached, Posting, Binds
<1> QED
  BY PeerInit, PeerStep, <1>1, PTL DEF IcePeerSpec

\* "Dyner stores an append-only list": no step makes it shorter, because the
\* one goroutine that posts has a longer one in hand.
THEOREM CandidatesGrow == IcePeerSpec => [][CandidatesAppendOnly]_peerVars
<1>1. PeerInv /\ [IcePeerNext]_peerVars => [CandidatesAppendOnly]_peerVars
  BY PeerStep DEF CandidatesAppendOnly
<1> QED
  BY PeerInit, PeerStep, <1>1, PTL DEF IcePeerSpec

-----------------------------------------------------------------------------
(* Datagrams of a bridge *)

Bytes == Seq(Nat \X Nat)

\* The fragments of the body that the message m carries.
FragmentsOf(m) == EncodeBridgeDatagrams(IdBytes, sent[m])

\* The bodies that were sent, each of its own length.
BodiesSent ==
  /\ Len(sent) <= MaxMessages /\ sent \in Seq(Bytes)
  /\ \A m \in DOMAIN sent : \E n \in Lengths : sent[m] = Body(m, n)

\* A frame on the carrier is one of those that its body was split into.
FramesSent ==
  \A f \in frame : /\ f \in [message : Nat, index : Nat, count : Nat]
                   /\ f.message \in DOMAIN sent
                   /\ f.count = Len(FragmentsOf(f.message)) /\ f.index \in 1 .. f.count

\* An assembly holds fragments of its own message, each in its place.
AssemblyType == [message : Nat, parts : Seq(Bytes)]
PartsOwn(a) ==
  /\ a \in AssemblyType /\ a.message \in DOMAIN sent
  /\ Len(a.parts) = Len(FragmentsOf(a.message))
  /\ \A i \in DOMAIN a.parts : a.parts[i] \in {Missing, FragmentsOf(a.message)[i]}

\* A message has one assembly at most.
OneEach(P) == \A k, l \in DOMAIN P : P[k].message = P[l].message => k = l
Table(P) == P \in Seq(AssemblyType) /\ OneEach(P) /\ (\A k \in DOMAIN P : PartsOwn(P[k]))

\* The inductive invariant of the datagrams.
DatagramsInv ==
  /\ BodiesSent /\ FramesSent /\ Table(pending) /\ Len(pending) <= MaxPending
  /\ expired \in 0 .. Len(pending) /\ mode \in {"datagram", "stream", "closed"}
  /\ written \subseteq Range(sent)

\* The least member of a set of numbers, with which a set that has 0 and, with
\* each number, the next one is seen to have them all.
LEMMA LeastNumber ==
  ASSUME NEW T, T \subseteq Nat, T # {}
  PROVE  \E m \in T : \A k \in T : m <= k
<1> DEFINE less == {ss \in Nat \X Nat : ss[1] < ss[2]}
<1>1. IsWellFoundedOn(less, Nat)
  BY NatLessThanWellFounded DEF OpToRel
<1>2. PICK m \in T : \A y \in T : <<y, m>> \notin less
  BY <1>1, WFMin
<1>3. \A k \in T : ~(k < m)
  BY <1>2
<1> QED
  BY <1>3

\* The number of the pieces: as many as are needed, and no more.
LEMMA Ceil ==
  ASSUME NEW n \in Nat, NEW size \in Nat \ {0}
  PROVE  /\ CeilDiv(n, size) \in Nat
         /\ n <= CeilDiv(n, size) * size /\ CeilDiv(n, size) * size < n + size
<1> DEFINE a == n + size - 1
<1>1. a \in Nat
  OBVIOUS
<1>2. a \div size \in Nat /\ a % size \in 0 .. size - 1 /\ a = size * (a \div size) + (a % size)
  BY <1>1
<1> DEFINE q == a \div size
           p == size * q
<1>3. p \in Nat /\ q \in Nat /\ p = q * size
  BY <1>2
<1>4. a = p + (a % size)
  BY <1>2
<1> HIDE DEF p
<1>5. n <= p /\ p < n + size
  BY <1>2, <1>3, <1>4
<1> QED
  BY <1>3, <1>5 DEF CeilDiv

\* No more pieces than k when k hold everything.
LEMMA CeilFits ==
  ASSUME NEW n \in Nat, NEW size \in Nat \ {0}, NEW k \in Nat, n <= k * size
  PROVE  CeilDiv(n, size) <= k
<1> DEFINE c == CeilDiv(n, size)
<1>1. c \in Nat /\ c * size < n + size
  BY Ceil
<1> HIDE DEF c
<1> SUFFICES ASSUME k + 1 <= c PROVE FALSE
  BY <1>1 DEF c
<1>2. (k + 1) * size <= c * size
  BY <1>1
<1>3. (k + 1) * size = k * size + size
  OBVIOUS
<1>4. k * size \in Nat /\ c * size \in Nat /\ (k + 1) * size \in Nat
  BY <1>1
<1> QED
  BY <1>1, <1>2, <1>3, <1>4

\* The pieces of a body, put together again, are the body.
LEMMA Rejoined ==
  ASSUME NEW S, NEW body \in Seq(S), NEW size \in Nat \ {0}, NEW count \in Nat \ {0},
         Len(body) <= count * size, count = 1 \/ (count - 1) * size < Len(body)
  PROVE  /\ Pieces(body, size, count) \in Seq(Seq(S))
         /\ FlattenSeq(Pieces(body, size, count)) = body
<1> DEFINE n == Len(body)
           End(i) == IF i * size < n THEN i * size ELSE n
           pieces == Pieces(body, size, count)
<1>1. n \in Nat
  OBVIOUS
<1>2. \A i \in 1 .. count : pieces[i] = SubSeq(body, (i - 1) * size + 1, End(i))
  BY DEF Pieces, Piece
<1>3. pieces = [i \in 1 .. count |-> pieces[i]] /\ count \in Nat
  BY DEF Pieces
<1>4. \A i \in 0 .. count : End(i) \in Nat /\ End(i) <= n
  BY <1>1
<1>5. \A i \in 1 .. count : (i - 1) * size \in Nat /\ (i = 1 \/ (i - 1) * size < n)
                            /\ End(i - 1) = (i - 1) * size
  <2> TAKE i \in 1 .. count
  <2>1. (i - 1) * size \in Nat /\ (i = 1 => (i - 1) * size = 0)
    OBVIOUS
  <2>2. CASE i = 1
    BY <1>1, <2>1, <2>2
  <2>3. CASE i # 1
    <3>1. count # 1 /\ i - 1 <= count - 1
      BY <2>3
    <3>2. (i - 1) * size <= (count - 1) * size /\ (count - 1) * size \in Nat
      BY <3>1
    <3>3. (i - 1) * size < n
      BY <1>1, <2>1, <3>1, <3>2
    <3> QED
      BY <2>1, <3>3
  <2> QED
    BY <2>2, <2>3
<1>6. \A i \in 1 .. count : End(i - 1) <= End(i)
  <2> TAKE i \in 1 .. count
  <2>1. (i - 1) * size <= i * size /\ i * size \in Nat
    OBVIOUS
  <2>2. End(i - 1) = (i - 1) * size /\ End(i - 1) <= n
    BY <1>4, <1>5
  <2> QED
    BY <1>1, <2>1, <2>2
<1>7. \A i \in 1 .. count :
        pieces[i] = SubSeq(body, End(i - 1) + 1, End(i)) /\ pieces[i] \in Seq(S)
  <2> TAKE i \in 1 .. count
  <2>1. pieces[i] = SubSeq(body, End(i - 1) + 1, End(i))
    BY <1>2, <1>5
  <2>2. End(i - 1) \in Nat /\ End(i) \in Nat /\ End(i) <= n
    BY <1>4
  <2> HIDE DEF End, pieces
  <2>3. SubSeq(body, End(i - 1) + 1, End(i)) \in Seq(S)
    <3>1. \A j \in End(i - 1) + 1 .. End(i) : body[j] \in S
      BY <2>2, ElementOfSeq
    <3> QED
      BY <2>2, <3>1, SubSeqProperties
  <2> QED
    BY <2>1, <2>3
<1>8. End(0) = 0 /\ End(count) = n
  BY <1>1
<1> HIDE DEF pieces, End
<1>9. pieces \in Seq(Seq(S)) /\ Len(pieces) = count
  <2>1. \A i \in 1 .. count : pieces[i] \in Seq(S)
    BY <1>7
  <2> QED
    BY <1>3, <2>1
<1> DEFINE Joined(f) ==
      f = [i \in 1 .. Len(pieces) |-> IF i = 1 THEN pieces[i] ELSE f[i - 1] \o pieces[i]]
           prefix == [i \in 1 .. count |-> SubSeq(body, 1, End(i))]
           flatten == CHOOSE f : Joined(f)
<1>10. Joined(prefix)
  <2>1. ASSUME NEW i \in 1 .. count
        PROVE  prefix[i] = IF i = 1 THEN pieces[i] ELSE prefix[i - 1] \o pieces[i]
    <3>1. prefix[i] = SubSeq(body, 1, End(i)) /\ pieces[i] = SubSeq(body, End(i - 1) + 1, End(i))
      BY <1>7
    <3>2. CASE i = 1
      <4>1. i - 1 = 0
        BY <3>2
      <4>2. SubSeq(body, End(i - 1) + 1, End(i)) = SubSeq(body, 1, End(i))
        <5>1. End(i - 1) + 1 = 1
          BY <1>8, <4>1
        <5> QED
          BY <5>1
      <4> QED
        BY <3>1, <3>2, <4>2
    <3>3. CASE i # 1
      <4>1. i - 1 \in 1 .. count
        BY <3>3
      <4>2. prefix[i - 1] = SubSeq(body, 1, End(i - 1))
        BY <4>1
      <4>3. 1 \in 1 .. n + 1 /\ End(i - 1) \in 0 .. n /\ End(i) \in End(i - 1) .. n
        BY <1>1, <1>4, <1>6, <4>1
      <4>4. SubSeq(body, 1, End(i - 1)) \o SubSeq(body, End(i - 1) + 1, End(i))
              = SubSeq(body, 1, End(i))
        <5> DEFINE k == End(i - 1)
                   l == End(i)
        <5>1. 1 \in 1 .. Len(body) + 1 /\ k \in 1 - 1 .. Len(body) /\ l \in k .. Len(body)
          BY <4>3
        <5> HIDE DEF k, l
        <5>2. SubSeq(body, 1, k) \o SubSeq(body, k + 1, l) = SubSeq(body, 1, l)
          BY <5>1, ConcatAdjacentSubSeq
        <5> QED
          BY <5>2 DEF k, l
      <4> QED
        BY <3>1, <3>3, <4>2, <4>4
    <3> QED
      BY <3>2, <3>3
  <2>2. prefix = [i \in 1 .. count |-> prefix[i]]
    OBVIOUS
  <2> HIDE DEF prefix
  <2> QED
    BY <1>9, <2>1, <2>2
<1>11. Joined(flatten)
  BY <1>10
<1>12. flatten[count] = prefix[count]
  <2> HIDE DEF flatten, prefix
  <2> DEFINE T == {i \in 1 .. count : flatten[i] # prefix[i]}
  <2> SUFFICES ASSUME T # {} PROVE FALSE
    OBVIOUS
  <2>1. T \subseteq Nat
    OBVIOUS
  <2>2. PICK m \in T : \A k \in T : m <= k
    BY <2>1, LeastNumber
  <2>3. /\ flatten[m] = (IF m = 1 THEN pieces[m] ELSE flatten[m - 1] \o pieces[m])
        /\ prefix[m] = (IF m = 1 THEN pieces[m] ELSE prefix[m - 1] \o pieces[m])
    <3>1. m \in 1 .. Len(pieces)
      BY <1>9
    <3>2. flatten[m] = (IF m = 1 THEN pieces[m] ELSE flatten[m - 1] \o pieces[m])
      BY <1>11, <3>1
    <3>3. prefix[m] = (IF m = 1 THEN pieces[m] ELSE prefix[m - 1] \o pieces[m])
      BY <1>10, <3>1
    <3> QED
      BY <3>2, <3>3
  <2>4. m # 1 => flatten[m - 1] = prefix[m - 1]
    <3> SUFFICES ASSUME m # 1 PROVE flatten[m - 1] = prefix[m - 1]
      OBVIOUS
    <3>1. m - 1 \in 1 .. count /\ ~(m <= m - 1)
      OBVIOUS
    <3> QED
      BY <2>2, <3>1
  <2>5. flatten[m] # prefix[m]
    OBVIOUS
  <2> QED
    BY <2>3, <2>4, <2>5
<1>13. FlattenSeq(pieces) = flatten[count]
  <2>1. Len(pieces) # 0
    BY <1>9
  <2> QED
    BY <1>9, <2>1 DEF FlattenSeq
<1>14. prefix[count] = body
  BY <1>8, SubSeqFull
<1> QED
  BY <1>9, <1>12, <1>13, <1>14 DEF pieces

\* A piece is no longer than the size, and the last one is not empty.
LEMMA PieceLength ==
  ASSUME NEW S, NEW body \in Seq(S), NEW size \in Nat \ {0}, NEW i \in Nat \ {0}
  PROVE  /\ Len(Piece(body, size, i)) <= size
         /\ (i - 1) * size < Len(body) => Piece(body, size, i) # <<>>
<1> DEFINE n == Len(body)
           first == (i - 1) * size
           last == IF i * size < n THEN i * size ELSE n
<1>1. n \in Nat /\ first \in Nat /\ i * size = first + size
  OBVIOUS
<1>2. last \in Nat /\ last <= n /\ last <= first + size /\ (first < n => first + 1 <= last)
  BY <1>1
<1>3. \A j \in first + 1 .. last : body[j] \in S
  <2> HIDE DEF last, first
  <2> QED
    BY <1>1, <1>2, ElementOfSeq
<1>4. Piece(body, size, i) = SubSeq(body, first + 1, last)
  BY DEF Piece
<1> HIDE DEF first, last
<1>5. Len(SubSeq(body, first + 1, last)) = IF first + 1 <= last THEN last - (first + 1) + 1 ELSE 0
  BY <1>1, <1>2, <1>3, SubSeqProperties
<1>6. Len(Piece(body, size, i)) = IF first + 1 <= last THEN last - (first + 1) + 1 ELSE 0
  BY <1>4, <1>5
<1>7. Len(Piece(body, size, i)) <= size
  BY <1>1, <1>2, <1>6
<1>8. first < n => Piece(body, size, i) # <<>>
  <2> SUFFICES ASSUME first < n, Piece(body, size, i) = <<>> PROVE FALSE
    OBVIOUS
  <2>1. Len(Piece(body, size, i)) = 0
    OBVIOUS
  <2> QED
    BY <1>1, <1>2, <1>6, <2>1
<1> QED
  BY <1>7, <1>8 DEF first

\* The sizes: a fragment holds something, and the fragments of the longest body
\* are accepted.
LEMMA FragmentSizes ==
  /\ FragmentBytes \in Nat \ {0} /\ FrameBytes \in Nat \ {0} /\ IdBytes \in Nat \ {0}
  /\ HeaderBytes \in Nat /\ HeaderBytes + IdBytes + FragmentBytes = FrameBytes
  /\ ~(IdBytes + HeaderBytes >= FrameBytes)
  /\ MaxCount \in Nat \ {0} /\ MaxBody \in Nat /\ MaxBody <= MaxCount * FragmentBytes
  /\ MaxPending \in Nat \ {0} /\ MaxMessages \in Nat
BY DatagramsAssumption DEF FragmentBytes

\* encodeBridgeDatagrams: frames that the decoder accepts and that together are
\* the body, an empty one included.
LEMMA Encoded ==
  ASSUME NEW S, NEW body \in Seq(S), Len(body) <= MaxBody
  PROVE  /\ EncodeBridgeDatagrams(IdBytes, body)
              = Pieces(body, FragmentBytes, Len(EncodeBridgeDatagrams(IdBytes, body)))
         /\ EncodeBridgeDatagrams(IdBytes, body) \in Seq(Seq(S))
         /\ Len(EncodeBridgeDatagrams(IdBytes, body)) \in 1 .. MaxCount
         /\ FlattenSeq(EncodeBridgeDatagrams(IdBytes, body)) = body
         /\ Len(body) <= Len(EncodeBridgeDatagrams(IdBytes, body)) * FragmentBytes
         /\ \A i \in 1 .. Len(EncodeBridgeDatagrams(IdBytes, body)) :
              /\ Len(EncodeBridgeDatagrams(IdBytes, body)[i]) <= FragmentBytes
              /\ EncodeBridgeDatagrams(IdBytes, body)[i] = <<>> =>
                   Len(EncodeBridgeDatagrams(IdBytes, body)) = 1
<1> DEFINE n == Len(body)
           size == FragmentBytes
           count == IF body = <<>> THEN 1 ELSE CeilDiv(n, size)
           frames == EncodeBridgeDatagrams(IdBytes, body)
<1>1. n \in Nat /\ size \in Nat \ {0} /\ n <= MaxCount * size /\ (body # <<>> => n > 0)
  <2>1. n \in Nat /\ (body # <<>> => n > 0)
    OBVIOUS
  <2>2. size \in Nat \ {0} /\ MaxBody <= MaxCount * size /\ MaxBody \in Nat /\ MaxCount \in Nat
    BY FragmentSizes
  <2>3. MaxCount * size \in Nat
    BY <2>2
  <2> HIDE DEF n, size
  <2>4. n <= MaxBody
    BY DEF n
  <2> QED
    BY <2>1, <2>2, <2>3, <2>4
<1>2. frames = Pieces(body, size, count)
  <2>1. ~(IdBytes = 0 \/ Len(body) > MaxBody \/ IdBytes + HeaderBytes >= FrameBytes)
    BY FragmentSizes
  <2> QED
    BY <2>1 DEF EncodeBridgeDatagrams, FragmentBytes
<1> HIDE DEF size
<1>3. count \in 1 .. MaxCount /\ n <= count * size /\ (count = 1 \/ (count - 1) * size < n)
  <2>1. CASE body = <<>>
    <3>1. n = 0 /\ count = 1
      BY <2>1
    <3>2. MaxCount \in Nat \ {0}
      BY FragmentSizes
    <3>3. 1 \in 1 .. MaxCount /\ n <= 1 * size
      BY <1>1, <3>1, <3>2
    <3> QED
      BY <3>1, <3>3
  <2>2. CASE body # <<>>
    <3> DEFINE c == CeilDiv(n, size)
    <3>1. c \in Nat /\ n <= c * size /\ c * size < n + size
      BY <1>1, Ceil
    <3>2. MaxCount \in Nat /\ c <= MaxCount
      BY <1>1, FragmentSizes, CeilFits
    <3> HIDE DEF c
    <3>3. c # 0
      BY <1>1, <2>2, <3>1
    <3>4. (c - 1) * size < n
      <4>1. (c - 1) * size = c * size - size
        BY <1>1, <3>1
      <4>2. c * size \in Nat
        BY <1>1, <3>1
      <4> QED
        BY <1>1, <3>1, <4>1, <4>2
    <3>5. c \in 1 .. MaxCount
      BY <3>1, <3>2, <3>3
    <3>6. count = c
      BY <2>2 DEF c
    <3> QED
      BY <3>1, <3>4, <3>5, <3>6
  <2> QED
    BY <2>1, <2>2
<1> HIDE DEF count
<1>4. Pieces(body, size, count) \in Seq(Seq(S)) /\ FlattenSeq(Pieces(body, size, count)) = body
  <2>1. count \in Nat \ {0}
    BY <1>3
  <2> HIDE DEF n
  <2>2. Len(body) <= count * size /\ (count = 1 \/ (count - 1) * size < Len(body))
    BY <1>3 DEF n
  <2> QED
    BY <1>1, <2>1, <2>2, Rejoined
<1>5. Len(frames) = count
  BY <1>2, <1>3 DEF Pieces
<1>6. \A i \in 1 .. count : Len(frames[i]) <= size /\ (frames[i] = <<>> => count = 1)
  <2> TAKE i \in 1 .. count
  <2>1. frames[i] = Piece(body, size, i)
    BY <1>2 DEF Pieces
  <2>2. i \in Nat \ {0}
    BY <1>3
  <2>3. (i - 1) * size < Len(body) \/ count = 1
    <3> SUFFICES ASSUME count # 1 PROVE (i - 1) * size < n
      BY DEF n
    <3>1. /\ (i - 1) * size <= (count - 1) * size
          /\ (i - 1) * size \in Nat /\ (count - 1) * size \in Nat
      BY <1>1, <1>3
    <3> QED
      BY <1>1, <1>3, <3>1
  <2> HIDE DEF frames
  <2> QED
    BY <1>1, <2>1, <2>2, <2>3, PieceLength
<1> QED
  BY <1>2, <1>3, <1>4, <1>5, <1>6 DEF frames, size

\* What a message carries.
LEMMA Bodies ==
  ASSUME NEW m \in Nat, NEW n \in Nat
  PROVE  Body(m, n) \in Bytes /\ Len(Body(m, n)) = n
<1>1. \A i \in 1 .. n : <<m, i>> \in Nat \X Nat
  OBVIOUS
<1> QED
  BY <1>1 DEF Body, Bytes

\* encode- and decodeBridgeDatagram, for bodies of every length.
LEMMA RoundTrips == DatagramRoundTrip
<1> SUFFICES ASSUME NEW n \in 0 .. MaxBody
             PROVE  /\ FlattenSeq(EncodeBridgeDatagrams(IdBytes, Body(0, n))) = Body(0, n)
                    /\ \A i \in DOMAIN EncodeBridgeDatagrams(IdBytes, Body(0, n)) :
                         /\ Decodes(IdBytes, EncodeBridgeDatagrams(IdBytes, Body(0, n))[i], i,
                                    Len(EncodeBridgeDatagrams(IdBytes, Body(0, n))))
                         /\ EncodeBridgeDatagrams(IdBytes, Body(0, n))[i] = <<>> =>
                              Len(EncodeBridgeDatagrams(IdBytes, Body(0, n))) = 1
  BY DEF DatagramRoundTrip
<1> DEFINE body == Body(0, n)
           frames == EncodeBridgeDatagrams(IdBytes, body)
<1>1. body \in Seq(Nat \X Nat) /\ Len(body) <= MaxBody
  BY Bodies, FragmentSizes DEF Bytes
<1> HIDE DEF body
<1>2. /\ frames \in Seq(Seq(Nat \X Nat)) /\ Len(frames) \in 1 .. MaxCount
      /\ FlattenSeq(frames) = body
      /\ \A i \in 1 .. Len(frames) :
           Len(frames[i]) <= FragmentBytes /\ (frames[i] = <<>> => Len(frames) = 1)
  BY <1>1, Encoded
<1> HIDE DEF frames
<1>3. ASSUME NEW i \in DOMAIN frames PROVE Decodes(IdBytes, frames[i], i, Len(frames))
  <2>1. i \in 1 .. Len(frames) /\ Len(frames) \in Nat /\ frames[i] \in Seq(Nat \X Nat)
    BY <1>2, ElementOfSeq
  <2>2. Len(frames[i]) \in Nat /\ Len(frames[i]) <= FragmentBytes
    BY <1>2, <2>1
  <2> QED
    BY <1>2, <2>1, <2>2, FragmentSizes DEF Decodes
<1>4. \A i \in DOMAIN frames : frames[i] = <<>> => Len(frames) = 1
  BY <1>2
<1> QED
  BY <1>2, <1>3, <1>4 DEF frames, body

\* webRTCFragments: more than one fragment, none longer than the threshold and
\* none empty, and together the message.
LEMMA FragmentsRejoin == WebRTCRoundTrip
<1> SUFFICES ASSUME NEW n \in FrameBytes + 1 .. MaxBody
             PROVE  /\ FlattenSeq(WebRTCFragments(Body(0, n))) = Body(0, n)
                    /\ Len(WebRTCFragments(Body(0, n))) > 1
                    /\ \A i \in DOMAIN WebRTCFragments(Body(0, n)) :
                         Len(WebRTCFragments(Body(0, n))[i]) \in 1 .. FrameBytes
  BY DEF WebRTCRoundTrip
<1> DEFINE body == Body(0, n)
           count == CeilDiv(n, FrameBytes)
           frames == Pieces(body, FrameBytes, count)
<1>1. n \in Nat /\ FrameBytes \in Nat \ {0} /\ n > FrameBytes
  BY FragmentSizes
<1>2. body \in Seq(Nat \X Nat) /\ Len(body) = n
  BY <1>1, Bodies DEF Bytes
<1>3. WebRTCFragments(body) = frames
  <2> HIDE DEF body
  <2> QED
    BY <1>2 DEF WebRTCFragments
<1>4. count \in Nat /\ n <= count * FrameBytes /\ count * FrameBytes < n + FrameBytes
  BY <1>1, Ceil
<1> HIDE DEF body, count
<1>5. count > 1
  <2>1. count # 0 /\ count # 1
    BY <1>1, <1>4
  <2> QED
    BY <1>4, <2>1
<1>6. (count - 1) * FrameBytes < n /\ (count - 1) * FrameBytes \in Nat
  <2>1. (count - 1) * FrameBytes = count * FrameBytes - FrameBytes /\ count * FrameBytes \in Nat
    BY <1>1, <1>4
  <2>2. (count - 1) * FrameBytes \in Nat
    BY <1>1, <1>5, <1>4
  <2> QED
    BY <1>1, <1>4, <2>1, <2>2
<1>7. frames \in Seq(Seq(Nat \X Nat)) /\ FlattenSeq(frames) = body
  <2>1. count \in Nat \ {0}
    BY <1>4, <1>5
  <2> QED
    BY <1>1, <1>2, <1>4, <1>6, <2>1, Rejoined
<1>8. Len(frames) = count /\ DOMAIN frames = 1 .. count
  BY <1>4 DEF Pieces
<1>9. ASSUME NEW i \in 1 .. count PROVE Len(frames[i]) \in 1 .. FrameBytes
  <2>1. frames[i] = Piece(body, FrameBytes, i) /\ i \in Nat \ {0}
    BY <1>4 DEF Pieces
  <2>2. (i - 1) * FrameBytes <= (count - 1) * FrameBytes /\ (i - 1) * FrameBytes \in Nat
    BY <1>1, <1>4
  <2>3. (i - 1) * FrameBytes < Len(body)
    BY <1>1, <1>2, <1>6, <2>2
  <2>4. Len(frames[i]) <= FrameBytes /\ frames[i] # <<>>
    <3> HIDE DEF frames
    <3> QED
      BY <1>1, <1>2, <2>1, <2>3, PieceLength
  <2>5. frames[i] \in Seq(Nat \X Nat)
    BY <1>7, <1>8, ElementOfSeq
  <2> HIDE DEF frames
  <2>6. Len(frames[i]) \in Nat /\ Len(frames[i]) # 0
    BY <2>4, <2>5
  <2> QED
    BY <1>1, <2>4, <2>6
<1> HIDE DEF frames
<1> QED
  BY <1>3, <1>5, <1>7, <1>8, <1>9 DEF body

\* A body that has fragments is within the limit, and they are its pieces.
LEMMA SentFragments ==
  ASSUME DatagramsInv, NEW m \in DOMAIN sent, Len(FragmentsOf(m)) # 0
  PROVE  /\ sent[m] \in Bytes /\ FragmentsOf(m) \in Seq(Bytes)
         /\ FragmentsOf(m) = Pieces(sent[m], FragmentBytes, Len(FragmentsOf(m)))
         /\ Len(FragmentsOf(m)) \in 1 .. MaxCount /\ FlattenSeq(FragmentsOf(m)) = sent[m]
         /\ Len(sent[m]) <= Len(FragmentsOf(m)) * FragmentBytes
<1>1. sent[m] \in Seq(Nat \X Nat)
  BY ElementOfSeq DEF DatagramsInv, BodiesSent, Bytes
<1>2. Len(sent[m]) <= MaxBody
  <2> SUFFICES ASSUME ~(Len(sent[m]) <= MaxBody) PROVE FALSE
    OBVIOUS
  <2>1. Len(sent[m]) \in Nat /\ MaxBody \in Nat
    BY <1>1, FragmentSizes
  <2>2. Len(sent[m]) > MaxBody
    BY <2>1
  <2>3. FragmentsOf(m) = <<>>
    BY <2>2 DEF FragmentsOf, EncodeBridgeDatagrams
  <2> QED
    BY <2>3
<1> QED
  BY <1>1, <1>2, Encoded DEF FragmentsOf, Bytes

\* What a frame carries is the fragment at its index.
LEMMA PayloadIs ==
  ASSUME DatagramsInv, NEW f \in frame
  PROVE  /\ f.message \in DOMAIN sent /\ f.count \in 1 .. MaxCount /\ f.index \in 1 .. f.count
         /\ f.count = Len(FragmentsOf(f.message)) /\ f.message \in Nat
         /\ Payload(f) = FragmentsOf(f.message)[f.index] /\ Payload(f) \in Bytes
<1>1. f.message \in DOMAIN sent /\ f.index \in 1 .. f.count /\ f.count \in Nat
      /\ f.count = Len(FragmentsOf(f.message)) /\ f.message \in Nat
  BY DEF DatagramsInv, FramesSent
<1>2. Len(FragmentsOf(f.message)) # 0
  BY <1>1
<1>3. /\ FragmentsOf(f.message) \in Seq(Bytes) /\ f.count \in 1 .. MaxCount
      /\ FragmentsOf(f.message) = Pieces(sent[f.message], FragmentBytes, f.count)
  BY <1>1, <1>2, SentFragments
<1>4. Pieces(sent[f.message], FragmentBytes, f.count)[f.index] = Payload(f)
  BY <1>1 DEF Pieces, Payload
<1>5. FragmentsOf(f.message)[f.index] \in Bytes
  BY <1>1, <1>3, ElementOfSeq
<1> QED
  BY <1>1, <1>3, <1>4, <1>5

\* Assemblies taken from a table, each once, are a table.
LEMMA Selected ==
  ASSUME NEW P, Table(P), NEW Q \in Seq(AssemblyType), NEW g,
         \A k \in 1 .. Len(Q) : g[k] \in 1 .. Len(P) /\ Q[k] = P[g[k]],
         \A k, l \in 1 .. Len(Q) : g[k] = g[l] => k = l
  PROVE  Table(Q)
<1>1. DOMAIN Q = 1 .. Len(Q) /\ DOMAIN P = 1 .. Len(P)
  BY DEF Table
<1>2. OneEach(Q)
  BY <1>1 DEF Table, OneEach
<1>3. \A k \in DOMAIN Q : PartsOwn(Q[k])
  BY <1>1 DEF Table
<1> QED
  BY <1>2, <1>3 DEF Table

\* The end of a table is one.
LEMMA Rest ==
  ASSUME NEW P, Table(P), NEW i \in Nat, i <= Len(P)
  PROVE  Table(SubSeq(P, i + 1, Len(P))) /\ Len(SubSeq(P, i + 1, Len(P))) = Len(P) - i
<1>1. P \in Seq(AssemblyType) /\ Len(P) \in Nat
  BY DEF Table
<1> DEFINE Q == SubSeq(P, i + 1, Len(P))
<1>2. \A k \in i + 1 .. Len(P) : P[k] \in AssemblyType
  BY <1>1, ElementOfSeq
<1>3. /\ Q \in Seq(AssemblyType) /\ Len(Q) = Len(P) - i
      /\ \A k \in 1 .. Len(P) - i : Q[k] = P[i + k]
  <2>1. /\ Q \in Seq(AssemblyType)
        /\ Len(Q) = IF i + 1 <= Len(P) THEN Len(P) - (i + 1) + 1 ELSE 0
        /\ \A k \in 1 .. Len(P) - (i + 1) + 1 : Q[k] = P[(i + 1) + k - 1]
    BY <1>1, <1>2, SubSeqProperties
  <2> HIDE DEF Q
  <2>2. Len(P) - (i + 1) + 1 = Len(P) - i
    BY <1>1
  <2>3. Len(Q) = Len(P) - i
    <3>1. Len(Q) = IF i + 1 <= Len(P) THEN Len(P) - (i + 1) + 1 ELSE 0
      BY <2>1
    <3> QED
      BY <1>1, <3>1
  <2>4. ASSUME NEW k \in 1 .. Len(P) - i PROVE Q[k] = P[i + k]
    <3>1. (i + 1) + k - 1 = i + k /\ k \in 1 .. Len(P) - (i + 1) + 1
      BY <1>1, <2>2
    <3> QED
      BY <2>1, <3>1
  <2> QED
    BY <2>1, <2>3, <2>4
<1> HIDE DEF Q
<1> DEFINE g == [k \in 1 .. Len(Q) |-> i + k]
<1>4. \A k \in 1 .. Len(Q) : g[k] \in 1 .. Len(P) /\ Q[k] = P[g[k]]
  BY <1>1, <1>3
<1>5. \A k, l \in 1 .. Len(Q) : g[k] = g[l] => k = l
  BY <1>1, <1>3
<1>6. Q \in Seq(AssemblyType)
  BY <1>3
<1> HIDE DEF g
<1>7. Table(Q)
  BY <1>4, <1>5, <1>6, Selected
<1> QED
  BY <1>3, <1>7 DEF Q

\* A table without one of its assemblies is one.
LEMMA Removed ==
  ASSUME NEW P, Table(P), NEW j \in 1 .. Len(P)
  PROVE  /\ Table(RemoveAt(P, j)) /\ Len(RemoveAt(P, j)) = Len(P) - 1
         /\ \A k \in 1 .. Len(P) - 1 : \E l \in 1 .. Len(P) : l # j /\ RemoveAt(P, j)[k] = P[l]
<1>1. P \in Seq(AssemblyType) /\ Len(P) \in Nat
  BY DEF Table
<1> DEFINE before == SubSeq(P, 1, j - 1)
           after == SubSeq(P, j + 1, Len(P))
           Q == RemoveAt(P, j)
<1>2. /\ before \in Seq(AssemblyType) /\ Len(before) = j - 1
      /\ \A k \in 1 .. j - 1 : before[k] = P[k]
  <2>1. \A k \in 1 .. j - 1 : P[k] \in AssemblyType
    BY <1>1, ElementOfSeq
  <2>2. /\ before \in Seq(AssemblyType)
        /\ Len(before) = IF 1 <= j - 1 THEN j - 1 - 1 + 1 ELSE 0
        /\ \A k \in 1 .. j - 1 - 1 + 1 : before[k] = P[1 + k - 1]
    BY <1>1, <2>1, SubSeqProperties
  <2> HIDE DEF before
  <2>3. Len(before) = j - 1
    <3>1. Len(before) = IF 1 <= j - 1 THEN j - 1 - 1 + 1 ELSE 0
      BY <2>2
    <3> QED
      BY <1>1, <3>1
  <2>4. ASSUME NEW k \in 1 .. j - 1 PROVE before[k] = P[k]
    <3>1. 1 + k - 1 = k /\ k \in 1 .. j - 1 - 1 + 1
      BY <1>1
    <3> QED
      BY <2>2, <3>1
  <2> QED
    BY <2>2, <2>3, <2>4
<1>3. /\ after \in Seq(AssemblyType) /\ Len(after) = Len(P) - j
      /\ \A k \in 1 .. Len(P) - j : after[k] = P[j + k]
  <2>1. \A k \in j + 1 .. Len(P) : P[k] \in AssemblyType
    BY <1>1, ElementOfSeq
  <2>2. /\ after \in Seq(AssemblyType)
        /\ Len(after) = IF j + 1 <= Len(P) THEN Len(P) - (j + 1) + 1 ELSE 0
        /\ \A k \in 1 .. Len(P) - (j + 1) + 1 : after[k] = P[(j + 1) + k - 1]
    BY <1>1, <2>1, SubSeqProperties
  <2> HIDE DEF after
  <2>3. Len(P) - (j + 1) + 1 = Len(P) - j
    BY <1>1
  <2>4. Len(after) = Len(P) - j
    <3>1. Len(after) = IF j + 1 <= Len(P) THEN Len(P) - (j + 1) + 1 ELSE 0
      BY <2>2
    <3> QED
      BY <1>1, <3>1
  <2>5. ASSUME NEW k \in 1 .. Len(P) - j PROVE after[k] = P[j + k]
    <3>1. (j + 1) + k - 1 = j + k /\ k \in 1 .. Len(P) - (j + 1) + 1
      BY <1>1, <2>3
    <3> QED
      BY <2>2, <3>1
  <2> QED
    BY <2>2, <2>4, <2>5
<1>4. Q = before \o after
  BY DEF RemoveAt
<1> HIDE DEF before, after, Q
<1>5. /\ Q \in Seq(AssemblyType) /\ Len(Q) = Len(P) - 1
      /\ \A k \in 1 .. Len(P) - 1 : Q[k] = P[IF k < j THEN k ELSE k + 1]
  <2>1. /\ Q \in Seq(AssemblyType) /\ Len(Q) = Len(before) + Len(after)
        /\ \A k \in 1 .. Len(before) + Len(after) :
             Q[k] = IF k <= Len(before) THEN before[k] ELSE after[k - Len(before)]
    BY <1>2, <1>3, <1>4, ConcatProperties
  <2>2. \A k \in 1 .. Len(Q) : Q[k] = IF k <= j - 1 THEN before[k] ELSE after[k - (j - 1)]
    BY <1>2, <2>1
  <2>3. Len(Q) = Len(P) - 1
    <3>1. Len(Q) = Len(before) + Len(after) /\ Len(before) = j - 1 /\ Len(after) = Len(P) - j
      BY <1>2, <1>3, <2>1
    <3> QED
      BY <1>1, <3>1
  <2>4. ASSUME NEW k \in 1 .. Len(P) - 1 PROVE Q[k] = P[IF k < j THEN k ELSE k + 1]
    <3>1. CASE k < j
      BY <1>1, <1>2, <2>2, <2>3, <3>1
    <3>2. CASE ~(k < j)
      <4>1. Q[k] = after[k - (j - 1)] /\ k - (j - 1) \in 1 .. Len(P) - j
        BY <1>1, <2>2, <2>3, <3>2
      <4>2. j + (k - (j - 1)) = k + 1
        BY <1>1
      <4> QED
        BY <1>3, <3>2, <4>1, <4>2
    <3> QED
      BY <3>1, <3>2
  <2> QED
    BY <2>1, <2>3, <2>4
<1> DEFINE g == [k \in 1 .. Len(Q) |-> IF k < j THEN k ELSE k + 1]
<1>6. \A k \in 1 .. Len(Q) : g[k] \in 1 .. Len(P) /\ Q[k] = P[g[k]]
  BY <1>1, <1>5
<1>7. \A k, l \in 1 .. Len(Q) : g[k] = g[l] => k = l
  BY <1>1, <1>5
<1>8. Q \in Seq(AssemblyType)
  BY <1>5
<1>9. \A k \in 1 .. Len(Q) : g[k] # j
  BY <1>1, <1>5
<1> HIDE DEF g
<1>10. Table(Q)
  BY <1>6, <1>7, <1>8, Selected
<1>11. Len(Q) = Len(P) - 1
  BY <1>5
<1> QED
  BY <1>6, <1>9, <1>10, <1>11 DEF Q

\* delete(pending, key): the message has no assembly any more.
LEMMA WithoutIt ==
  ASSUME NEW P, Table(P), NEW f
  PROVE  /\ Table(DeleteKey(P, f)) /\ Len(DeleteKey(P, f)) \in Nat /\ Len(DeleteKey(P, f)) <= Len(P)
         /\ \A k \in DOMAIN DeleteKey(P, f) : DeleteKey(P, f)[k].message # f.message
<1> DEFINE keyed == {k \in DOMAIN P : P[k].message = f.message}
           j == CHOOSE k \in keyed : TRUE
<1>1. P \in Seq(AssemblyType) /\ Len(P) \in Nat /\ DOMAIN P = 1 .. Len(P)
  BY DEF Table
<1>2. CASE keyed = {}
  <2>1. DeleteKey(P, f) = P
    BY <1>2 DEF DeleteKey
  <2> QED
    BY <1>1, <1>2, <2>1
<1>3. CASE keyed # {}
  <2>1. j \in keyed
    BY <1>3
  <2>2. DeleteKey(P, f) = RemoveAt(P, j)
    BY <1>3 DEF DeleteKey
  <2>3. j \in 1 .. Len(P)
    BY <1>1, <2>1
  <2>4. P[j].message = f.message
    BY <2>1
  <2> HIDE DEF j, keyed
  <2>5. /\ Table(RemoveAt(P, j)) /\ Len(RemoveAt(P, j)) = Len(P) - 1
        /\ \A k \in 1 .. Len(P) - 1 : \E l \in 1 .. Len(P) : l # j /\ RemoveAt(P, j)[k] = P[l]
    <3>1. Table(RemoveAt(P, j))
      BY <2>3, Removed
    <3>2. Len(RemoveAt(P, j)) = Len(P) - 1
      BY <2>3, Removed
    <3>3. \A k \in 1 .. Len(P) - 1 : \E l \in 1 .. Len(P) : l # j /\ RemoveAt(P, j)[k] = P[l]
      BY <2>3, Removed
    <3> QED
      BY <3>1, <3>2, <3>3
  <2>6. DOMAIN RemoveAt(P, j) = 1 .. Len(P) - 1
    BY <2>5 DEF Table
  <2>7. \A l \in 1 .. Len(P) : l # j => P[l].message # f.message
    BY <1>1, <2>3, <2>4 DEF Table, OneEach
  <2>8. \A k \in DOMAIN RemoveAt(P, j) : RemoveAt(P, j)[k].message # f.message
    BY <2>5, <2>6, <2>7
  <2>9. Len(P) - 1 \in Nat /\ Len(P) - 1 <= Len(P)
    BY <1>1, <2>3
  <2> QED
    BY <2>2, <2>5, <2>8, <2>9
<1> QED
  BY <1>2, <1>3

\* A new assembly finds room: the oldest makes way for it.
LEMMA OthersFit ==
  ASSUME NEW P, Table(P), Len(P) <= MaxPending, NEW f
  PROVE  /\ Table(Others(P, f)) /\ Len(Others(P, f)) \in Nat /\ Len(Others(P, f)) < MaxPending
         /\ \A k \in DOMAIN Others(P, f) : Others(P, f)[k].message # f.message
<1> DEFINE other == DeleteKey(P, f)
<1>1. /\ Table(other) /\ Len(other) \in Nat /\ Len(other) <= Len(P)
      /\ \A k \in DOMAIN other : other[k].message # f.message
  BY WithoutIt
<1>2. Others(P, f) = IF Len(other) = MaxPending THEN Tail(other) ELSE other
  BY DEF Others
<1> HIDE DEF other
<1>3. MaxPending \in Nat \ {0} /\ other \in Seq(AssemblyType) /\ DOMAIN other = 1 .. Len(other)
      /\ Len(P) \in Nat
  BY <1>1, FragmentSizes DEF Table
<1>4. CASE Len(other) = MaxPending
  <2>1. other # <<>> /\ Tail(other) = SubSeq(other, 1 + 1, Len(other))
    <3>1. 1 + 1 = 2 /\ other # <<>>
      BY <1>3, <1>4
    <3>2. Tail(other) = SubSeq(other, 2, Len(other))
      BY <1>3, <3>1, TailIsSubSeq
    <3> QED
      BY <3>1, <3>2
  <2>2. /\ Table(SubSeq(other, 1 + 1, Len(other)))
        /\ Len(SubSeq(other, 1 + 1, Len(other))) = Len(other) - 1
    BY <1>1, <1>3, <1>4, Rest
  <2>3. Table(Tail(other)) /\ Len(Tail(other)) = Len(other) - 1
    BY <2>1, <2>2
  <2>4. \A k \in 1 .. Len(Tail(other)) : Tail(other)[k] = other[k + 1]
    BY <1>3, <2>1, HeadTailProperties
  <2>5. DOMAIN Tail(other) = 1 .. Len(Tail(other))
    BY <2>3 DEF Table
  <2>6. \A k \in DOMAIN Tail(other) : Tail(other)[k].message # f.message
    BY <1>1, <1>3, <2>3, <2>4, <2>5
  <2> QED
    BY <1>1, <1>2, <1>3, <1>4, <2>3, <2>6
<1>5. CASE Len(other) # MaxPending
  <2>1. Others(P, f) = other
    BY <1>2, <1>5
  <2>2. Len(other) < MaxPending
    <3>1. Len(other) \in Nat /\ Len(other) <= Len(P) /\ Len(P) \in Nat /\ MaxPending \in Nat
      BY <1>1, <1>3
    <3> QED
      BY <1>5, <3>1
  <2> QED
    BY <1>1, <2>1, <2>2
<1> QED
  BY <1>4, <1>5

\* An assembly of a new message joins a table.
LEMMA Added ==
  ASSUME NEW P, Table(P), NEW a, PartsOwn(a), \A k \in DOMAIN P : P[k].message # a.message
  PROVE  Table(Append(P, a)) /\ Len(Append(P, a)) = Len(P) + 1
<1>1. P \in Seq(AssemblyType) /\ a \in AssemblyType /\ DOMAIN P = 1 .. Len(P) /\ Len(P) \in Nat
  BY DEF Table, PartsOwn
<1> DEFINE Q == Append(P, a)
<1>2. /\ Q \in Seq(AssemblyType) /\ Len(Q) = Len(P) + 1 /\ DOMAIN Q = 1 .. Len(P) + 1
      /\ (\A k \in 1 .. Len(P) : Q[k] = P[k]) /\ Q[Len(P) + 1] = a
  BY <1>1
<1> HIDE DEF Q
<1>3. \A k \in DOMAIN Q : k \in DOMAIN P \/ k = Len(P) + 1
  BY <1>1, <1>2
<1>4. OneEach(Q)
  BY <1>1, <1>2, <1>3 DEF OneEach, Table
<1>5. \A k \in DOMAIN Q : PartsOwn(Q[k])
  BY <1>1, <1>2, <1>3 DEF Table
<1> QED
  BY <1>2, <1>4, <1>5 DEF Q, Table

\* The assembly that a frame finds, or begins, with the frame's part.
Grown(P, f) == [Assembly(P, f) EXCEPT !.parts[f.index] = Payload(f)]

\* The assembly of a frame's message holds fragments of that message only.
LEMMA AssemblyOwn ==
  ASSUME DatagramsInv, NEW P, Table(P), NEW f \in frame
  PROVE  PartsOwn(Assembly(P, f)) /\ Assembly(P, f).message = f.message
<1> DEFINE found == {k \in DOMAIN P : P[k].message = f.message /\ Len(P[k].parts) = f.count}
           new == [message |-> f.message, parts |-> [i \in 1 .. f.count |-> Missing]]
<1>1. Assembly(P, f) = IF found = {} THEN new ELSE P[CHOOSE k \in found : TRUE]
  BY DEF Assembly
<1>2. CASE found = {}
  <2>1. /\ f.message \in DOMAIN sent /\ f.message \in Nat /\ f.count \in Nat
        /\ f.count = Len(FragmentsOf(f.message))
    BY PayloadIs
  <2>2. Missing \in Bytes
    BY DEF Missing, Bytes
  <2>3. [i \in 1 .. f.count |-> Missing] \in Seq(Bytes)
    BY <2>1, <2>2
  <2>4. new \in AssemblyType
    BY <2>1, <2>3 DEF AssemblyType
  <2>5. Len([i \in 1 .. f.count |-> Missing]) = f.count
    BY <2>1
  <2>6. PartsOwn(new)
    BY <2>1, <2>4, <2>5 DEF PartsOwn
  <2> QED
    BY <1>1, <1>2, <2>6
<1>3. CASE found # {}
  <2>1. PICK k \in found : Assembly(P, f) = P[k]
    BY <1>1, <1>3
  <2> QED
    BY <2>1 DEF Table
<1> QED
  BY <1>2, <1>3

\* And so it does when it has taken what the frame carries.
LEMMA GrownOwn ==
  ASSUME DatagramsInv, NEW P, Table(P), NEW f \in frame
  PROVE  PartsOwn(Grown(P, f)) /\ Grown(P, f).message = f.message
<1> DEFINE a == Assembly(P, f)
           parts == [a.parts EXCEPT ![f.index] = Payload(f)]
<1>1. PartsOwn(a) /\ a.message = f.message
  BY AssemblyOwn
<1> HIDE DEF a
<1>2. /\ a.message \in Nat /\ a.parts \in Seq(Bytes)
      /\ a = [message |-> a.message, parts |-> a.parts]
  BY <1>1 DEF PartsOwn, AssemblyType
<1>3. Grown(P, f) = [message |-> a.message, parts |-> parts]
  <2>1. Grown(P, f) = [a EXCEPT !.parts[f.index] = Payload(f)]
    BY DEF Grown, a
  <2>2. a = [message |-> a.message, parts |-> a.parts]
    BY <1>2
  <2> QED
    BY <2>1, <2>2
<1>4. /\ f.index \in 1 .. f.count /\ f.count = Len(a.parts) /\ f.message \in DOMAIN sent
      /\ Payload(f) = FragmentsOf(f.message)[f.index] /\ Payload(f) \in Bytes
      /\ f.count = Len(FragmentsOf(f.message))
  BY <1>1, PayloadIs DEF PartsOwn
<1>5. parts \in Seq(Bytes) /\ Len(parts) = Len(a.parts)
  <2>1. f.index \in 1 .. Len(a.parts) /\ Payload(f) \in Bytes
    BY <1>4
  <2> QED
    BY <1>2, <2>1, ExceptSeq
<1>6. DOMAIN parts = DOMAIN a.parts
  OBVIOUS
<1>7. \A i \in DOMAIN parts : parts[i] = IF i = f.index THEN Payload(f) ELSE a.parts[i]
  BY <1>2
<1> HIDE DEF parts
<1>8. \A i \in DOMAIN parts : parts[i] \in {Missing, FragmentsOf(f.message)[i]}
  BY <1>1, <1>4, <1>6, <1>7 DEF PartsOwn
<1>9. Grown(P, f) \in AssemblyType /\ Grown(P, f).parts = parts /\ Grown(P, f).message = f.message
  BY <1>1, <1>2, <1>3, <1>5 DEF AssemblyType
<1>10. PartsOwn(Grown(P, f))
  BY <1>4, <1>5, <1>8, <1>9 DEF PartsOwn
<1> QED
  BY <1>9, <1>10

\* With no part missing the parts are the body's fragments.
LEMMA CompleteIs ==
  ASSUME DatagramsInv, NEW a, PartsOwn(a), Complete(a.parts), Len(a.parts) # 0
  PROVE  FlattenSeq(a.parts) = sent[a.message]
<1> DEFINE m == a.message
           frames == FragmentsOf(m)
<1>1. /\ m \in DOMAIN sent /\ a.parts \in Seq(Bytes) /\ Len(a.parts) = Len(frames)
      /\ \A i \in DOMAIN a.parts : a.parts[i] = frames[i]
  BY DEF PartsOwn, AssemblyType, Complete
<1>2. Len(frames) # 0
  BY <1>1
<1> HIDE DEF m
<1>3. frames \in Seq(Bytes) /\ FlattenSeq(frames) = sent[m]
  BY <1>1, <1>2, SentFragments
<1> HIDE DEF frames
<1>4. a.parts = frames
  <2>1. DOMAIN a.parts = 1 .. Len(a.parts) /\ DOMAIN frames = 1 .. Len(frames)
    BY <1>1, <1>3
  <2>2. a.parts = [i \in 1 .. Len(a.parts) |-> a.parts[i]]
        /\ frames = [i \in 1 .. Len(frames) |-> frames[i]]
    BY <1>1, <1>3
  <2> QED
    BY <1>1, <2>1, <2>2
<1> QED
  BY <1>3, <1>4 DEF m

\* The only fragment of a body is the body.
LEMMA SingleIs ==
  ASSUME DatagramsInv, NEW f \in frame, f.count = 1
  PROVE  Payload(f) = sent[f.message]
<1> DEFINE body == sent[f.message]
<1>1. f.index = 1 /\ f.message \in DOMAIN sent /\ Len(FragmentsOf(f.message)) = 1
  <2>1. f.index \in 1 .. f.count /\ f.message \in DOMAIN sent
        /\ f.count = Len(FragmentsOf(f.message))
    BY PayloadIs
  <2>2. f.index \in 1 .. 1
    BY <2>1
  <2>3. f.index = 1
    BY <2>2
  <2> QED
    BY <2>1, <2>3
<1>2. body \in Seq(Nat \X Nat) /\ Len(body) <= 1 * FragmentBytes
  <2>1. Len(FragmentsOf(f.message)) # 0
    BY <1>1
  <2>2. body \in Bytes /\ Len(body) <= Len(FragmentsOf(f.message)) * FragmentBytes
    BY <1>1, <2>1, SentFragments
  <2> QED
    BY <1>1, <2>2 DEF Bytes
<1>3. FragmentBytes \in Nat /\ 1 * FragmentBytes = FragmentBytes
  BY FragmentSizes
<1>4. Payload(f) = SubSeq(body, (1 - 1) * FragmentBytes + 1,
                          IF 1 * FragmentBytes < Len(body) THEN 1 * FragmentBytes ELSE Len(body))
  BY <1>1 DEF Payload, Piece
<1>5. (1 - 1) * FragmentBytes + 1 = 1
  BY <1>3
<1> HIDE DEF body
<1>6. ~(1 * FragmentBytes < Len(body))
  BY <1>2, <1>3
<1>7. SubSeq(body, 1, Len(body)) = body
  BY <1>2, SubSeqFull
<1>8. (IF 1 * FragmentBytes < Len(body) THEN 1 * FragmentBytes ELSE Len(body)) = Len(body)
  BY <1>6
<1> QED
  BY <1>4, <1>5, <1>7, <1>8 DEF body

\* A frame that is received: whatever it completes is a body that was sent.
LEMMA ReceivesStep ==
  ASSUME DatagramsInv, NEW f \in frame, Receives(f)
  PROVE  DatagramsInv'
<1> DEFINE fresh == SubSeq(pending, expired + 1, Len(pending))
           grown == Grown(fresh, f)
           body == IF f.count = 1 THEN Payload(f) ELSE FlattenSeq(grown.parts)
           done == f.count = 1 \/ Complete(grown.parts)
<1>1. /\ UNCHANGED <<sent, frame, mode>>
      /\ IF f.count = 1 THEN UNCHANGED <<pending, expired>>
         ELSE /\ pending' = IF done THEN DeleteKey(fresh, f) ELSE Append(Others(fresh, f), grown)
              /\ expired' = 0
      /\ written' = written \/ (done /\ written' = written \cup {body})
  BY DEF Receives, Grown
<1>2. Table(pending) /\ Len(pending) <= MaxPending /\ expired \in 0 .. Len(pending)
      /\ expired \in Nat /\ Len(pending) \in Nat
  BY DEF DatagramsInv, Table
<1>3. Table(fresh) /\ Len(fresh) \in Nat /\ Len(fresh) <= MaxPending
  <2>1. expired <= Len(pending)
    BY <1>2
  <2>2. Table(fresh) /\ Len(fresh) = Len(pending) - expired
    BY <1>2, <2>1, Rest
  <2>3. MaxPending \in Nat
    BY FragmentSizes
  <2> HIDE DEF fresh
  <2>4. Len(fresh) = Len(pending) - expired
    BY <2>2
  <2> QED
    BY <1>2, <2>2, <2>3, <2>4
<1> HIDE DEF fresh
<1>4. PartsOwn(grown) /\ grown.message = f.message
  BY <1>3, GrownOwn
<1> HIDE DEF grown
<1>5. f.message \in DOMAIN sent /\ f.count \in Nat /\ f.count # 0
      /\ f.count = Len(FragmentsOf(f.message))
  BY PayloadIs
<1>6. done => body = sent[f.message]
  <2>1. CASE f.count = 1
    BY <2>1, SingleIs
  <2>2. CASE f.count # 1
    <3> SUFFICES ASSUME Complete(grown.parts) PROVE FlattenSeq(grown.parts) = sent[f.message]
      BY <2>2
    <3>1. Len(grown.parts) # 0
      BY <1>4, <1>5 DEF PartsOwn
    <3> QED
      BY <1>4, <3>1, CompleteIs
  <2> QED
    BY <2>1, <2>2
<1> HIDE DEF body, done
<1>7. written' \subseteq Range(sent)
  <2>1. sent[f.message] \in Range(sent)
    BY <1>5 DEF Range
  <2> QED
    BY <1>1, <1>6, <2>1 DEF DatagramsInv
<1>8. Table(pending') /\ Len(pending') <= MaxPending /\ expired' \in 0 .. Len(pending')
  <2>1. CASE f.count = 1
    BY <1>1, <1>2, <2>1
  <2>2. CASE f.count # 1 /\ done
    <3>1. pending' = DeleteKey(fresh, f) /\ expired' = 0
      BY <1>1, <2>2
    <3>2. Table(DeleteKey(fresh, f)) /\ Len(DeleteKey(fresh, f)) \in Nat
          /\ Len(DeleteKey(fresh, f)) <= Len(fresh)
      BY <1>3, WithoutIt
    <3>3. Len(DeleteKey(fresh, f)) <= MaxPending /\ 0 \in 0 .. Len(DeleteKey(fresh, f))
      BY <1>3, <3>2, FragmentSizes
    <3> QED
      BY <3>1, <3>2, <3>3
  <2>3. CASE f.count # 1 /\ ~done
    <3> DEFINE others == Others(fresh, f)
    <3>1. pending' = Append(others, grown) /\ expired' = 0
      BY <1>1, <2>3
    <3>2. /\ Table(others) /\ Len(others) \in Nat /\ Len(others) < MaxPending
          /\ \A k \in DOMAIN others : others[k].message # grown.message
      BY <1>3, <1>4, OthersFit
    <3> HIDE DEF others
    <3>3. Table(Append(others, grown)) /\ Len(Append(others, grown)) = Len(others) + 1
      BY <1>4, <3>2, Added
    <3>4. Len(others) + 1 <= MaxPending /\ 0 \in 0 .. Len(others) + 1
      BY <3>2, FragmentSizes
    <3> QED
      BY <3>1, <3>3, <3>4
  <2> QED
    BY <2>1, <2>2, <2>3
<1>9. Table(pending)'
  <2>1. \A a : PartsOwn(a)' <=> PartsOwn(a)
    BY <1>1 DEF PartsOwn, FragmentsOf
  <2> QED
    BY <1>8, <2>1 DEF Table
<1>10. BodiesSent' /\ FramesSent'
  BY <1>1 DEF DatagramsInv, BodiesSent, FramesSent, FragmentsOf
<1> QED
  BY <1>1, <1>7, <1>8, <1>9, <1>10 DEF DatagramsInv

\* A new body: what was sent before keeps its fragments.
LEMMA SendsStep ==
  ASSUME DatagramsInv, NEW n \in Lengths, BrowserSends(n)
  PROVE  DatagramsInv'
<1> DEFINE m == Len(sent) + 1
           body == Body(m, n)
           count == Len(EncodeBridgeDatagrams(IdBytes, body))
<1>1. /\ m <= MaxMessages /\ sent' = Append(sent, body)
      /\ frame' = frame \cup {[message |-> m, index |-> i, count |-> count] : i \in 1 .. count}
      /\ UNCHANGED <<pending, expired, mode, written>>
  BY DEF BrowserSends
<1>2. sent \in Seq(Bytes) /\ Len(sent) \in Nat /\ DOMAIN sent = 1 .. Len(sent) /\ n \in Nat
  BY FragmentSizes DEF DatagramsInv, BodiesSent, Lengths
<1>3. m \in Nat
  BY <1>2
<1>4. body \in Bytes
  BY <1>2, <1>3, Bodies
<1>5. EncodeBridgeDatagrams(IdBytes, body) = <<>> \/ count \in 1 .. MaxCount
  <2>1. CASE Len(body) > MaxBody
    BY <2>1 DEF EncodeBridgeDatagrams
  <2>2. CASE ~(Len(body) > MaxBody)
    <3>1. body \in Seq(Nat \X Nat)
      BY <1>4 DEF Bytes
    <3>2. Len(body) \in Nat /\ MaxBody \in Nat
      BY <3>1, FragmentSizes
    <3> HIDE DEF body
    <3>3. Len(body) <= MaxBody
      BY <2>2, <3>2
    <3> QED
      BY <3>1, <3>3, Encoded
  <2> QED
    BY <2>1, <2>2
<1>6. count \in Nat
  <2>1. CASE EncodeBridgeDatagrams(IdBytes, body) = <<>>
    BY <2>1
  <2>2. CASE count \in 1 .. MaxCount
    <3> HIDE DEF count
    <3> QED
      BY <2>2
  <2> QED
    BY <1>5, <2>1, <2>2
<1> HIDE DEF body
<1>7. /\ sent' \in Seq(Bytes) /\ Len(sent') = m /\ DOMAIN sent' = 1 .. m
      /\ (\A k \in DOMAIN sent : k \in DOMAIN sent' /\ sent'[k] = sent[k]) /\ sent'[m] = body
  BY <1>1, <1>2, <1>4
<1>8. \A k \in DOMAIN sent' : k \in DOMAIN sent \/ k = m
  BY <1>2, <1>7
<1>9. \A k \in DOMAIN sent : FragmentsOf(k)' = FragmentsOf(k)
  BY <1>7 DEF FragmentsOf
<1>10. BodiesSent'
  <2>1. \A k \in DOMAIN sent' : \E l \in Lengths : sent'[k] = Body(k, l)
    BY <1>7, <1>8 DEF DatagramsInv, BodiesSent, body
  <2> QED
    BY <1>1, <1>7, <2>1 DEF BodiesSent
<1>11. FramesSent'
  <2> SUFFICES ASSUME NEW f \in frame'
               PROVE  /\ f \in [message : Nat, index : Nat, count : Nat]
                      /\ f.message \in DOMAIN sent'
                      /\ f.count = Len(FragmentsOf(f.message)') /\ f.index \in 1 .. f.count
    BY DEF FramesSent
  <2>1. CASE f \in frame
    BY <1>7, <1>9, <2>1 DEF DatagramsInv, FramesSent
  <2>2. CASE f \notin frame
    <3>1. PICK i \in 1 .. count : f = [message |-> m, index |-> i, count |-> count]
      BY <1>1, <2>2
    <3>2. m \in DOMAIN sent'
      BY <1>3, <1>7, <1>2
    <3>3. sent'[m] = body
      BY <1>7
    <3> HIDE DEF m
    <3>4. f.message = m /\ f.index = i /\ f.count = count
      BY <3>1
    <3>5. f.message \in DOMAIN sent'
      BY <3>2, <3>4
    <3>6. FragmentsOf(f.message)' = EncodeBridgeDatagrams(IdBytes, body)
      <4>1. sent'[f.message] = body
        BY <3>3, <3>4
      <4> QED
        BY <4>1 DEF FragmentsOf
    <3>7. f.count = Len(FragmentsOf(f.message)')
      BY <3>4, <3>6
    <3> HIDE DEF count
    <3>8. i \in Nat
      BY <1>6, <3>1
    <3>9. f \in [message : Nat, index : Nat, count : Nat]
      BY <1>3, <1>6, <3>1, <3>8
    <3>10. f.index \in 1 .. f.count
      BY <3>1, <3>4
    <3> QED
      BY <3>5, <3>7, <3>9, <3>10
  <2> QED
    BY <2>1, <2>2
<1>12. Table(pending)'
  <2>1. \A a : PartsOwn(a) => PartsOwn(a)'
    BY <1>7, <1>9 DEF PartsOwn
  <2> QED
    BY <1>1, <2>1 DEF DatagramsInv, Table
<1>13. written' \subseteq Range(sent')
  <2>1. Range(sent) \subseteq Range(sent')
    BY <1>7 DEF Range
  <2> QED
    BY <1>1, <2>1 DEF DatagramsInv
<1> QED
  BY <1>1, <1>10, <1>11, <1>12, <1>13 DEF DatagramsInv

\* Nothing but the carrier, the age of the assemblies or the mode changes.
LEMMA CarrierStep ==
  ASSUME DatagramsInv, frame' \subseteq frame, UNCHANGED <<sent, pending, written>>,
         expired' \in 0 .. Len(pending), mode' \in {"datagram", "stream", "closed"}
  PROVE  DatagramsInv'
<1>1. BodiesSent' /\ FramesSent'
  BY DEF DatagramsInv, BodiesSent, FramesSent, FragmentsOf
<1>2. Table(pending)'
  BY DEF DatagramsInv, Table, PartsOwn, FragmentsOf
<1> QED
  BY <1>1, <1>2 DEF DatagramsInv

\* Every step keeps the invariant.
LEMMA DatagramsStep ==
  ASSUME DatagramsInv, [DatagramsNext]_datagramVars
  PROVE  DatagramsInv'
<1> USE DEF DatagramsInv
<1>1. ASSUME NEW f \in frame, Lost(f) PROVE DatagramsInv'
  <2>1. frame' \subseteq frame /\ UNCHANGED <<sent, pending, written, expired, mode>>
    BY <1>1 DEF Lost
  <2> QED
    BY <2>1, CarrierStep
<1>2. CASE Ages
  <2>1. /\ expired < Len(pending) /\ expired' = expired + 1
        /\ UNCHANGED <<sent, frame, pending, mode, written>>
    BY <1>2 DEF Ages
  <2>2. Len(pending) \in Nat
    BY DEF Table
  <2>3. expired' \in 0 .. Len(pending)
    BY <2>1, <2>2
  <2> QED
    BY <2>1, <2>3, CarrierStep
<1>3. CASE ModeChanges
  <2>1. mode' \in {"stream", "closed"} /\ UNCHANGED <<sent, frame, pending, expired, written>>
    BY <1>3 DEF ModeChanges
  <2> QED
    BY <2>1, CarrierStep
<1>4. CASE UNCHANGED datagramVars
  <2>1. UNCHANGED <<sent, frame, pending, expired, mode, written>>
    BY <1>4 DEF datagramVars
  <2> QED
    BY <2>1, CarrierStep
<1> QED
  BY <1>1, <1>2, <1>3, <1>4, SendsStep, ReceivesStep DEF DatagramsNext

\* Nothing is sent at first.
LEMMA DatagramsStart ==
  ASSUME DatagramsInit
  PROVE  DatagramsInv
<1>1. BodiesSent /\ FramesSent
  BY FragmentSizes DEF DatagramsInit, BodiesSent, FramesSent
<1>2. Table(pending) /\ Len(pending) = 0
  BY DEF DatagramsInit, Table, OneEach
<1> QED
  BY <1>1, <1>2, FragmentSizes DEF DatagramsInit, DatagramsInv

\* What the invariant says of what arrives, and the codecs of themselves.
LEMMA DatagramsWhole ==
  ASSUME DatagramsInv
  PROVE  DatagramsSafe
<1>1. frame \subseteq FrameType
  <2> SUFFICES ASSUME NEW f \in frame PROVE f \in FrameType
    OBVIOUS
  <2>1. f \in [message : Nat, index : Nat, count : Nat]
    BY DEF DatagramsInv, FramesSent
  <2>2. f.message \in 1 .. MaxMessages
    <3>1. f.message \in DOMAIN sent
      BY PayloadIs
    <3>2. Len(sent) \in Nat /\ DOMAIN sent = 1 .. Len(sent) /\ Len(sent) <= MaxMessages
      BY DEF DatagramsInv, BodiesSent
    <3> QED
      BY <3>1, <3>2, FragmentSizes
  <2>3. f.count \in 1 .. MaxCount /\ f.index \in 1 .. f.count
    BY PayloadIs
  <2>4. f.index \in 1 .. MaxCount
    BY <2>3, FragmentSizes
  <2> QED
    BY <2>1, <2>2, <2>3, <2>4 DEF FrameType
<1>2. \A k \in DOMAIN pending : pending[k].message \in 1 .. Len(sent)
  BY DEF DatagramsInv, Table, PartsOwn, BodiesSent
<1>3. DatagramsTypeOK
  BY <1>1, <1>2 DEF DatagramsTypeOK, DatagramsInv, BodiesSent
<1>4. BodiesIntact
  BY DEF DatagramsInv, BodiesIntact
<1> QED
  BY <1>3, <1>4, RoundTrips, FragmentsRejoin DEF DatagramsSafe

\* encodeBridgeDatagrams, decodeCompleteBridgeDatagram and webRTCFragments: what
\* reaches a bridge's connection is a body that was sent, and what is split is
\* what is put together, for all sizes and whatever the carrier does.
THEOREM DatagramsArriveWhole == DatagramsSpec => []DatagramsSafe
<1>1. DatagramsInit => DatagramsInv
  BY DatagramsStart
<1>2. DatagramsInv /\ [DatagramsNext]_datagramVars => DatagramsInv'
  BY DatagramsStep
<1>3. DatagramsInv => DatagramsSafe
  BY DatagramsWhole
<1> QED
  BY <1>1, <1>2, <1>3, PTL DEF DatagramsSpec
=============================================================================
