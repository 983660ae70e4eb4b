-------------------------------- MODULE Ice ---------------------------------
(***************************************************************************)
(* Direct peer sessions (shellagent/ice.go): the sync loop starts an       *)
(* attempt for every session that Dyner lists without an answer, a request *)
(* that sets up the relay stops them all (agent.go, stopICE), and one that *)
(* registers the listener again does not.                                  *)
(*                                                                         *)
(* A context is a number; iceContext is the one that the server holds.     *)
(* s.mu and iceMu are separate locks, so stopICE is three steps, and what  *)
(* the sync loop captured under s.mu may be old when it takes iceMu.       *)
(* Dyner accepts one answer for a session and refuses the next (HTTP 409). *)
(***************************************************************************)
EXTENDS Integers, FiniteSets

CONSTANTS
  Session,      \* sessions that browsers offer
  IceEnv,       \* environments of the registration
  IceTab,       \* settings requests served at the same time
  MaxAttempts,  \* answerICESession goroutines in all
  MaxStops      \* registration requests in all

ASSUME IceAssumption == MaxAttempts \in Nat /\ MaxStops \in Nat /\ IceEnv # {}

VARIABLES
  iceCfg,     \* RelayEnabled and the environment of relayTicketConfig
  former,     \* history: environments replaced without a stop while the relay is on
  iceContext, \* Server.iceContext, 0 for nil
  contexts,   \* contexts made so far
  cancelled,  \* those whose cancel function was called
  iceGen,     \* Server.iceGeneration
  active,     \* Server.activeICESessions
  stopper,    \* registration requests on their way through stopICE
  stops,      \* how many there have been
  iceSync,    \* syncBrowserIdentitiesOnce
  attempt,    \* the answerICESession goroutines and their peers
  attempts,   \* how many there have been
  answer      \* Dyner: whose answer a session carries, 0 for none

serverVars == <<iceCfg, former, iceContext, contexts, cancelled, iceGen>>
iceVars == <<serverVars, active, stopper, stops, iceSync, attempt, attempts, answer>>

Context == 1 .. MaxStops + 1
Attempt == 1 .. MaxAttempts
NotActive == -1

AttemptType ==
  [pc : {"gather", "post", "return", "done"}, session : Session, env : IceEnv,
   context : Context, gen : 0 .. MaxStops, peer : {"closed", "open", "connected"}]
\* An attempt whose goroutines and peer are gone.
Over == [pc |-> "done", session |-> 0, env |-> 0, context |-> 0, gen |-> 0, peer |-> "closed"]
SyncIdle == [pc |-> "idle", env |-> 0, todo |-> {}, context |-> 0]
SyncType == {SyncIdle} \cup [pc : {"asked", "start"}, env : IceEnv, todo : SUBSET Session,
                             context : Context \cup {0}]
StopType == [pc : {"idle", "forget", "clear", "cancel"}, held : Context \cup {0}]

\* Types of all the variables of the peer sessions.
IceTypeOK ==
  /\ iceCfg \in [relay : BOOLEAN, env : IceEnv] /\ former \subseteq IceEnv
  /\ iceContext \in Context \cup {0} /\ contexts \in 0 .. MaxStops + 1
  /\ cancelled \subseteq Context /\ iceGen \in 0 .. MaxStops
  /\ active \in [Session -> (0 .. MaxStops) \cup {NotActive}]
  /\ stopper \in [IceTab -> StopType] /\ stops \in 0 .. MaxStops
  /\ iceSync \in SyncType
  /\ attempts \in 0 .. MaxAttempts
  /\ attempt \in [1 .. attempts -> AttemptType \cup {Over}]
  /\ answer \in [Session -> Attempt \cup {0}]

IceInit ==
  /\ iceCfg \in [relay : BOOLEAN, env : IceEnv] /\ former = {}
  /\ iceContext = 0 /\ contexts = 0 /\ cancelled = {} /\ iceGen = 0
  /\ active = [s \in Session |-> NotActive]
  /\ stopper = [t \in IceTab |-> [pc |-> "idle", held |-> 0]] /\ stops = 0
  /\ iceSync = SyncIdle
  /\ attempt = [a \in 1 .. 0 |-> 0] /\ attempts = 0
  /\ answer = [s \in Session |-> 0]

-----------------------------------------------------------------------------
(* ensureListenerRegistration: Dyner no longer knows the environment, or   *)
(* the listener has none yet.  The new one replaces it and nothing is      *)
(* stopped.  (While Dyner is asked for it the configuration has none.)     *)

ReplaceEnvironment(e) ==
  /\ e # iceCfg.env
  /\ iceCfg' = [iceCfg EXCEPT !.env = e]
  /\ former' = former \cup IF iceCfg.relay THEN {iceCfg.env} ELSE {}
  /\ UNCHANGED <<iceContext, contexts, cancelled, iceGen, active, stopper, stops, iceSync, attempt,
                 attempts, answer>>

(* ensureHostedRegistration, from its assignment of the configuration on *)

ChangeRegistration(t) ==
  /\ stopper[t].pc = "idle" /\ stops < MaxStops /\ stops' = stops + 1
  /\ iceCfg' \in [relay : BOOLEAN, env : IceEnv] /\ former' = {}
  /\ stopper' = [stopper EXCEPT ![t].pc = "forget"]
  /\ UNCHANGED <<iceContext, contexts, cancelled, iceGen, active, iceSync, attempt, attempts,
                 answer>>

StopForget(t) ==
  /\ stopper[t].pc = "forget"
  /\ stopper' = [stopper EXCEPT ![t] = [pc |-> "clear", held |-> iceContext]]
  /\ iceContext' = 0
  /\ UNCHANGED <<iceCfg, former, contexts, cancelled, iceGen, active, stops, iceSync, attempt, attempts,
                 answer>>

\* Mutant: the generation stays.
ClearSame(t) ==
  /\ stopper[t].pc = "clear"
  /\ active' = [s \in Session |-> NotActive]
  /\ stopper' = [stopper EXCEPT ![t].pc = "cancel"]
  /\ UNCHANGED <<iceCfg, former, iceContext, contexts, cancelled, iceGen, stops, iceSync, attempt,
                 attempts, answer>>

StopClear(t) ==
  /\ stopper[t].pc = "clear"
  /\ iceGen' = iceGen + 1 /\ active' = [s \in Session |-> NotActive]
  /\ stopper' = [stopper EXCEPT ![t].pc = "cancel"]
  /\ UNCHANGED <<iceCfg, former, iceContext, contexts, cancelled, stops, iceSync, attempt, attempts,
                 answer>>

StopCancel(t) ==
  /\ stopper[t].pc = "cancel"
  /\ cancelled' = cancelled \cup ({stopper[t].held} \ {0})
  /\ stopper' = [stopper EXCEPT ![t] = [pc |-> "idle", held |-> 0]]
  /\ UNCHANGED <<iceCfg, former, iceContext, contexts, iceGen, active, stops, iceSync, attempt, attempts,
                 answer>>

-----------------------------------------------------------------------------
(* syncBrowserIdentitiesOnce and startPendingICESessions *)

\* Dyner's state as it is now; it is used later.
SyncAsk ==
  /\ iceSync.pc = "idle" /\ iceCfg.relay /\ attempts < MaxAttempts
  /\ iceSync' = [pc |-> "asked", env |-> iceCfg.env, todo |-> {s \in Session : answer[s] = 0},
                 context |-> 0]
  /\ UNCHANGED <<serverVars, active, stopper, stops, attempt, attempts, answer>>

\* Mutant: only the switch is looked at, not the environment.
StillOn == iceCfg.relay

\* Under s.mu: the configuration is still the one that was asked about.
Unchanged == iceCfg.relay /\ iceCfg.env = iceSync.env

StartPending ==
  /\ iceSync.pc = "asked"
  /\ IF Unchanged
     THEN LET c == IF iceContext = 0 THEN contexts + 1 ELSE iceContext
          IN /\ iceContext' = c /\ contexts' = IF iceContext = 0 THEN c ELSE contexts
             /\ iceSync' = [iceSync EXCEPT !.pc = "start", !.context = c]
     ELSE /\ iceSync' = SyncIdle
          /\ UNCHANGED <<iceContext, contexts>>
  /\ UNCHANGED <<iceCfg, former, cancelled, iceGen, active, stopper, stops, attempt, attempts,
                 answer>>

\* Under iceMu, for one session of the list.
StartSession(s) ==
  /\ iceSync.pc = "start" /\ s \in iceSync.todo
  /\ iceSync' = [iceSync EXCEPT !.todo = @ \ {s}]
  /\ IF active[s] # NotActive
     THEN UNCHANGED <<active, attempt, attempts>>
     ELSE /\ attempts < MaxAttempts /\ attempts' = attempts + 1
          /\ active' = [active EXCEPT ![s] = iceGen]
          /\ attempt' = [a \in 1 .. attempts + 1 |->
               IF a <= attempts THEN attempt[a]
               ELSE [pc |-> "gather", session |-> s, env |-> iceSync.env,
                     context |-> iceSync.context, gen |-> iceGen, peer |-> "open"]]
  /\ UNCHANGED <<serverVars, stopper, stops, answer>>

\* The loop ends; the bound on attempts ends it too.
SyncDone ==
  /\ iceSync.pc = "start" /\ (iceSync.todo = {} \/ attempts = MaxAttempts)
  /\ iceSync' = SyncIdle
  /\ UNCHANGED <<serverVars, active, stopper, stops, attempt, attempts, answer>>

-----------------------------------------------------------------------------
(* answerICESession *)

Done(a) == attempt[a].context \in cancelled
Set(a, pc, peer) ==
  attempt' = [attempt EXCEPT ![a] =
    IF pc = "done" /\ peer = "closed" THEN Over ELSE [@ EXCEPT !.pc = pc, !.peer = peer]]
Quiet == UNCHANGED <<serverVars, stopper, stops, iceSync, attempts>>

\* Local candidates are gathered, or iceAnswerGatherWait has passed.
Gathered(a) ==
  /\ attempt[a].pc = "gather" /\ Set(a, "post", "open")
  /\ Quiet /\ UNCHANGED <<active, answer>>

\* A description is refused, or the context ends while gathering.
SetupFails(a) ==
  /\ attempt[a].pc = "gather" /\ Set(a, "return", "closed")
  /\ Quiet /\ UNCHANGED <<active, answer>>

PostAnswer(a) ==
  /\ attempt[a].pc = "post" /\ ~Done(a) /\ answer[attempt[a].session] = 0
  /\ answer' = [answer EXCEPT ![attempt[a].session] = a]
  /\ Set(a, "return", "open")
  /\ Quiet /\ UNCHANGED active

\* Mutant: the peer of a refused answer stays open.
PostFailsOpen(a) ==
  /\ attempt[a].pc = "post" /\ Set(a, "return", "open")
  /\ Quiet /\ UNCHANGED <<active, answer>>

\* Refused, unreachable, cancelled, or stored and the reply lost.
PostFails(a) ==
  /\ attempt[a].pc = "post" /\ Set(a, "return", "closed")
  /\ \/ answer' = answer
     \/ answer[attempt[a].session] = 0 /\ answer' = [answer EXCEPT ![attempt[a].session] = a]
  /\ Quiet /\ UNCHANGED active

\* Mutant: whatever entry the session has is removed.
ReturnsDeleting(a) ==
  /\ attempt[a].pc = "return" /\ active' = [active EXCEPT ![attempt[a].session] = NotActive]
  /\ Set(a, "done", attempt[a].peer)
  /\ Quiet /\ UNCHANGED answer

\* The deferred function: the entry goes only if this generation made it.
AttemptReturns(a) ==
  LET s == attempt[a].session IN
  /\ attempt[a].pc = "return"
  /\ active' = [active EXCEPT ![s] = IF @ = attempt[a].gen THEN NotActive ELSE @]
  /\ Set(a, "done", attempt[a].peer)
  /\ Quiet /\ UNCHANGED answer

Answered(a) == attempt[a].pc \in {"return", "done"} /\ attempt[a].peer # "closed"

PeerConnects(a) ==
  /\ Answered(a) /\ attempt[a].peer = "open" /\ ~Done(a) /\ Set(a, attempt[a].pc, "connected")
  /\ Quiet /\ UNCHANGED <<active, answer>>

\* authenticateICEHello: the key is not in the identity list (Grants.tla),
\* nor after the one refresh; the socket closes the peer.
HelloRejected(a) ==
  /\ attempt[a].peer = "connected" /\ Set(a, attempt[a].pc, "closed")
  /\ Quiet /\ UNCHANGED <<active, answer>>

\* The peer fails, its control channel closes, or the browser leaves.
PeerLost(a) ==
  /\ Answered(a) /\ Set(a, attempt[a].pc, "closed")
  /\ Quiet /\ UNCHANGED <<active, answer>>

\* The watcher: iceConnectWait without a connection.
ConnectTimeout(a) ==
  /\ Answered(a) /\ attempt[a].peer = "open" /\ Set(a, attempt[a].pc, "closed")
  /\ Quiet /\ UNCHANGED <<active, answer>>

\* The watcher: the context is done.
PeerCancelled(a) ==
  /\ Answered(a) /\ Done(a) /\ Set(a, attempt[a].pc, "closed")
  /\ Quiet /\ UNCHANGED <<active, answer>>

-----------------------------------------------------------------------------

Watch(a) == ConnectTimeout(a) \/ PeerCancelled(a)
Answering(a) ==
  Gathered(a) \/ SetupFails(a) \/ PostAnswer(a) \/ PostFails(a) \/ AttemptReturns(a)
Peer(a) == PeerConnects(a) \/ HelloRejected(a) \/ PeerLost(a)
Stop(t) == StopForget(t) \/ StopClear(t) \/ StopCancel(t)

IceNext ==
  \/ \E t \in IceTab : ChangeRegistration(t) \/ Stop(t)
  \/ \E e \in IceEnv : ReplaceEnvironment(e)
  \/ SyncAsk \/ StartPending \/ (\E s \in Session : StartSession(s)) \/ SyncDone
  \/ \E a \in 1 .. attempts : Answering(a) \/ Watch(a) \/ Peer(a)

IceSpec == IceInit /\ [][IceNext]_iceVars

-----------------------------------------------------------------------------
(* Properties *)

Stopping == \E t \in IceTab : stopper[t].pc # "idle"
Served(e) == iceCfg.relay /\ e \in former \cup {iceCfg.env}
Stale(a) == ~Served(attempt[a].env)

\* "Disabling a relay environment must also close its in-flight peer
\* sessions" (agent.go:319): when no stopICE is under way, every attempt that
\* is not over has its context cancelled if the relay is disabled or if its
\* environment was current only before the last request that set up the relay,
\* whenever the sync loop started it.  An attempt of an environment that the
\* listener's registration has replaced since then goes on: nothing stops it.
StaleAttemptsCancelled ==
  ~Stopping => \A a \in 1 .. attempts : attempt[a] # Over /\ Stale(a) => Done(a)

\* activeICESessions keeps two attempts of one generation from answering the
\* same session at once; an attempt that outlives a stop does not remove the
\* entry of its successor (ice.go, the deferred function).
OneAttemptPerGeneration ==
  \A a, b \in 1 .. attempts :
    /\ a # b /\ attempt[a].session = attempt[b].session /\ attempt[a].gen = attempt[b].gen
    => "done" \in {attempt[a].pc, attempt[b].pc}

\* The entry of the attempt that is under way in this generation is there, so
\* that no second one starts beside it, until a stop clears them all.
EntryKept ==
  \A a \in 1 .. attempts :
    attempt[a].pc # "done" /\ attempt[a].gen = iceGen => active[attempt[a].session] = iceGen

\* Of the attempts that answer one session, after a stop or from an old list,
\* only the one whose answer Dyner holds keeps a peer (postICE's error path).
OnePeerPerSession ==
  \A a \in 1 .. attempts : Answered(a) => answer[attempt[a].session] = a

\* What stopICE and startPendingICESessions keep between them: attempts that
\* should end are cancelled, one per generation answers, and one peer stays.
IceSafe ==
  /\ IceTypeOK
  /\ StaleAttemptsCancelled
  /\ OneAttemptPerGeneration /\ EntryKept
  /\ OnePeerPerSession
=============================================================================
