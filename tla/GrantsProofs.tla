---------------------------- MODULE GrantsProofs ----------------------------
(* Theorems about browser identities and their grants (Grants), for every  *)
(* number of keys, apps, capabilities, sockets and authority sessions.     *)
EXTENDS Grants, TLAPS

-----------------------------------------------------------------------------
(* What is decided, and what may be stored *)

\* What the decisions D allow for the store id a.
Within(D, a) == D[a] \cup D[AnyApp]

\* Decisions are only added.
Grown(D, E) == \A a \in Store : D[a] \subseteq E[a]

\* A list of identities in which no grant exceeds the decisions.
ListSound(D, list) == \A i \in Id : list[i].caps \subseteq Within(D, i[2])

\* A socket has a key; the identity that it found is one for its app, and was
\* decided; what was decided about its request is within its declaration; what
\* it was admitted with was decided and is within the stored grant.
SocketSound(D, r) ==
  /\ r.pc # "none" => r.key \in Key
  /\ r.pc = "resolve" =>
       /\ r.id \in Id
       /\ r.id[2] \in {AnyApp, r.app} \/ r.app = AnyApp
       /\ r.held \in Grant /\ r.held.caps \subseteq Within(D, r.id[2])
  /\ r.pc \in {"sync", "pair"} => r.decision.caps = {}
  /\ r.pc = "wait" => r.decision.caps \subseteq r.decl /\ r.decision.caps \subseteq Within(D, r.app)
  /\ r.auth.caps \subseteq r.auth.stored
  /\ r.auth.caps \subseteq Within(D, r.auth.store)

\* The inductive invariant: the lists in memory, on disk and on their way there,
ListInv ==
  /\ grants \in Grants /\ disk \in Grants
  /\ saving \in [Writer -> Grants \cup {NotSaving}] /\ shared \subseteq Writer
  /\ ListSound(decided, grants) /\ ListSound(decided, disk)
  /\ \A w \in Writer : saving[w] # NotSaving => ListSound(decided, saving[w])

\* ... the launches approved in advance,
PreInv ==
  /\ preapproved \in [App -> (SUBSET Cap) \cup {NoSet}]
  /\ \A a \in App : preapproved[a] # NoSet => preapproved[a] \subseteq Within(decided, a)

\* ... the sockets,
SockInv ==
  /\ sock \in [Socket -> SocketState]
  /\ \A s \in Socket : SocketSound(decided, sock[s])

\* ... the authority sessions, the history and the bounds.
TabInv ==
  /\ tab \in [Tab -> [pc : {"idle", "ceiling", "close"}, id : Id \cup {NoId},
                      want : SUBSET Cap, held : Grant \cup {NoGrant}]]
  /\ \A t \in Tab : tab[t].pc # "idle" => tab[t].id \in Id
GhostInv == decided \in [Store -> SUBSET Cap] /\ revoked \subseteq Id
LeftInv == left \in [decisions : 0 .. MaxDecisions, syncs : 0 .. MaxSyncs,
                     restarts : 0 .. MaxRestarts, faults : 0 .. MaxFaults]

GrantsInv == ListInv /\ PreInv /\ SockInv /\ TabInv /\ GhostInv /\ LeftInv

-----------------------------------------------------------------------------
(* Decisions *)

\* What was allowed stays allowed.
LEMMA WithinGrows ==
  ASSUME NEW D, NEW E, Grown(D, E), NEW a \in Store
  PROVE  Within(D, a) \subseteq Within(E, a) /\ E[AnyApp] \subseteq Within(E, a)
  BY DEF Within, Grown, Store

\* A list within the decisions stays within more of them.
LEMMA ListGrows ==
  ASSUME NEW D, NEW E, Grown(D, E), NEW list, ListSound(D, list)
  PROVE  ListSound(E, list)
  BY WithinGrows DEF ListSound, Id

\* So does what a socket was admitted with.
LEMMA SocketGrows ==
  ASSUME NEW D, NEW E, Grown(D, E), NEW r \in SocketState, SocketSound(D, r)
  PROVE  SocketSound(E, r)
<1>1. r.app \in Store /\ r.auth.store \in Store
  BY DEF SocketState
<1>2. r.id \in Id => r.id[2] \in Store
  BY DEF Id
<1>3. /\ Within(D, r.app) \subseteq Within(E, r.app)
      /\ Within(D, r.auth.store) \subseteq Within(E, r.auth.store)
      /\ r.id \in Id => Within(D, r.id[2]) \subseteq Within(E, r.id[2])
  BY <1>1, <1>2, WithinGrows
<1>4. SocketSound(D, r)
  OBVIOUS
<1>5. r.pc = "resolve" =>
        /\ r.id \in Id
        /\ r.id[2] \in {AnyApp, r.app} \/ r.app = AnyApp
        /\ r.held \in Grant /\ r.held.caps \subseteq Within(E, r.id[2])
  BY <1>3, <1>4 DEF SocketSound
<1> QED
  BY <1>3, <1>4, <1>5 DEF SocketSound

\* A decision is remembered.
LEMMA DecideGrows ==
  ASSUME GhostInv, NEW a \in Store, NEW C \in SUBSET Cap, NEW F, Decide(a, F, C)
  PROVE  GhostInv' /\ Grown(decided, decided') /\ C \subseteq decided'[a]
  BY DEF GhostInv, Decide, Grown

\* Nothing is decided or revoked.
LEMMA GhostsKept ==
  ASSUME GhostInv, UNCHANGED ghosts
  PROVE  GhostInv' /\ Grown(decided, decided') /\ decided' = decided
  BY DEF GhostInv, ghosts, Grown

-----------------------------------------------------------------------------
(* Lists *)

\* A grant's capabilities, those of no grant included.
LEMMA GrantFields ==
  ASSUME NEW g \in Grant \cup {NoGrant}
  PROVE  /\ g.caps \subseteq Cap /\ g.declared \subseteq Cap
         /\ g # NoGrant => g \in Grant
<1>1. CASE g \in Grant
  BY <1>1 DEF Grant
<1>2. CASE g = NoGrant
  BY <1>2 DEF NoGrant
<1> QED
  BY <1>1, <1>2

\* The lists stay while decisions are added.
LEMMA ListsKept ==
  ASSUME ListInv, UNCHANGED <<grants, saving, shared, disk>>, Grown(decided, decided')
  PROVE  ListInv'
  BY ListGrows DEF ListInv

\* One record of the list is replaced or appended and the list is to be saved.
LEMMA Upserted ==
  ASSUME ListInv, NEW w \in Writer, NEW i \in Id, NEW g \in Grant,
         g.caps \subseteq Within(decided', i[2]), upsertBrowserIdentity(w, i, g),
         Grown(decided, decided'), UNCHANGED disk
  PROVE  ListInv' /\ grants'[i] = g
<1>1. /\ grants' = [grants EXCEPT ![i] = g] /\ saving' = [saving EXCEPT ![w] = grants']
      /\ shared' = shared \cup {w}
  BY DEF upsertBrowserIdentity
<1>2. grants' \in Grants /\ grants'[i] = g /\ \A j \in Id : j # i => grants'[j] = grants[j]
  BY <1>1 DEF ListInv, Grants
<1>3. ListSound(decided', grants) /\ ListSound(decided', disk)
  BY ListGrows DEF ListInv
<1>4. ListSound(decided', grants')
  BY <1>2, <1>3 DEF ListSound
<1>5. /\ saving' \in [Writer -> Grants \cup {NotSaving}]
      /\ saving'[w] = grants' /\ \A v \in Writer : v # w => saving'[v] = saving[v]
  BY <1>1, <1>2 DEF ListInv
<1>6. ASSUME NEW v \in Writer, saving'[v] # NotSaving
      PROVE  ListSound(decided', saving'[v])
  <2>1. CASE v = w
    BY <1>4, <1>5, <2>1
  <2>2. CASE v # w
    BY <1>5, <1>6, <2>2, ListGrows DEF ListInv
  <2> QED
    BY <2>1, <2>2
<1> QED
  BY <1>1, <1>2, <1>3, <1>4, <1>5, <1>6 DEF ListInv

\* A new list is installed and is to be saved.
LEMMA Installed ==
  ASSUME ListInv, NEW w \in Writer, NEW list \in Grants, ListSound(decided', list),
         Install(w, list), Grown(decided, decided'), UNCHANGED disk
  PROVE  ListInv'
<1>1. grants' = list /\ saving' = [saving EXCEPT ![w] = list] /\ shared' = {w}
  BY DEF Install
<1>2. /\ saving' \in [Writer -> Grants \cup {NotSaving}]
      /\ saving'[w] = list /\ \A v \in Writer : v # w => saving'[v] = saving[v]
  BY <1>1 DEF ListInv
<1>3. ListSound(decided', disk)
  BY ListGrows DEF ListInv
<1>4. ASSUME NEW v \in Writer, saving'[v] # NotSaving
      PROVE  ListSound(decided', saving'[v])
  <2>1. CASE v = w
    BY <1>2, <2>1
  <2>2. CASE v # w
    BY <1>2, <1>4, <2>2, ListGrows DEF ListInv
  <2> QED
    BY <2>1, <2>2
<1> QED
  BY <1>1, <1>2, <1>3, <1>4 DEF ListInv

\* What Dyner answers, alone or merged into the list.
LEMMA FreshSound ==
  ASSUME NEW D, NEW K, NEW C \in SUBSET Cap, C \subseteq D[AnyApp]
  PROVE  Fresh(K, C) \in Grants /\ ListSound(D, Fresh(K, C))
<1> DEFINE f(i) == IF i \in K \X {AnyApp} THEN [caps |-> C, declared |-> {}, local |-> FALSE]
                   ELSE NoGrant
<1>1. ASSUME NEW i \in Id
      PROVE  f(i) \in Grant \cup {NoGrant} /\ f(i).caps \subseteq Within(D, i[2])
  BY DEF Grant, NoGrant, Within
<1>2. Fresh(K, C) = [i \in Id |-> f(i)]
  BY DEF Fresh
<1> QED
  BY <1>1, <1>2 DEF Grants, ListSound

\* mergeSyncedIdentities keeps a list within the decisions.
LEMMA MergeSound ==
  ASSUME NEW D, NEW list \in Grants, ListSound(D, list), grants \in Grants, ListSound(D, grants)
  PROVE  /\ mergeSyncedIdentities(list) \in Grants
         /\ ListSound(D, mergeSyncedIdentities(list))
  BY DEF mergeSyncedIdentities, Grants, ListSound

-----------------------------------------------------------------------------
(* Sockets, launches, authority sessions and bounds *)

\* The fields of a socket.
LEMMA SocketFields ==
  ASSUME NEW r \in SocketState
  PROVE  /\ r.pc \in {"none", "sync", "resolve", "pair", "wait", "authed", "live", "busy"}
         /\ r.key \in Key \cup {NoKey} /\ r.app \in Store /\ r.decl \subseteq Cap
         /\ r.decision \in [answer : {"open", "approved", "denied"}, caps : SUBSET Cap]
         /\ r.decision.caps \subseteq Cap
         /\ r.auth \in [caps : SUBSET Cap, stored : SUBSET Cap, store : Store]
  BY DEF SocketState

\* No socket holds nothing.
LEMMA NoSocketSound ==
  ASSUME NEW D
  PROVE  NoSocket \in SocketState /\ SocketSound(D, NoSocket)
<1>1. NoSocket \in SocketState
  BY DEF NoSocket, SocketState, NoAuth, Open, Store
<1>2. SocketSound(D, NoSocket)
  BY DEF NoSocket, SocketSound, NoAuth
<1> QED
  BY <1>1, <1>2

\* The sockets do not change while decisions are added.
LEMMA SocketsKept ==
  ASSUME SockInv, UNCHANGED sock, Grown(decided, decided')
  PROVE  SockInv'
  BY SocketGrows DEF SockInv

\* One socket moves on.
LEMMA SocketMoves ==
  ASSUME SockInv, NEW s \in Socket, NEW r \in SocketState, SocketSound(decided', r),
         sock' = [sock EXCEPT ![s] = r], Grown(decided, decided')
  PROVE  SockInv'
<1>1. sock' \in [Socket -> SocketState]
  BY DEF SockInv
<1>2. ASSUME NEW u \in Socket PROVE SocketSound(decided', sock'[u])
  <2>1. CASE u = s
    BY <2>1 DEF SockInv
  <2>2. CASE u # s
    BY <2>2, SocketGrows DEF SockInv
  <2> QED
    BY <2>1, <2>2
<1> QED
  BY <1>1, <1>2 DEF SockInv

\* A socket that ends has nothing.
LEMMA SocketEnding ==
  ASSUME SockInv, NEW s \in Socket, Ends(s), Grown(decided, decided')
  PROVE  SockInv'
  BY NoSocketSound, SocketMoves DEF Ends

\* A handshake succeeds with a grant that was decided for its identity.
LEMMA Entered ==
  ASSUME SockInv, NEW s \in Socket, NEW i \in Id, NEW g \in Grant, NEW app \in Store,
         NEW declared \in SUBSET Cap, g.caps \subseteq Within(decided', i[2]),
         Enter(s, i, g, app, declared), Grown(decided, decided')
  PROVE  SockInv'
<1> DEFINE auth == authForIdentity(i, g, app, declared)
           r == [NoSocket EXCEPT !.pc = "authed", !.key = i[1], !.auth = auth]
<1>1. i[1] \in Key /\ i[2] \in Store
  BY DEF Id
<1>2. /\ auth \in [caps : SUBSET Cap, stored : SUBSET Cap, store : Store]
      /\ auth.caps \subseteq g.caps /\ auth.caps \subseteq auth.stored
      /\ auth.store = i[2] \/ i[2] = AnyApp
  BY <1>1 DEF authForIdentity, Grant
<1>3. auth.caps \subseteq Within(decided', auth.store)
  BY <1>2 DEF Within
<1> HIDE DEF auth
<1>4. r \in SocketState /\ r.pc = "authed" /\ r.key = i[1] /\ r.auth = auth
  BY <1>1, <1>2, NoSocketSound DEF SocketState
<1>5. sock' = [sock EXCEPT ![s] = r]
  BY DEF Enter, auth
<1> HIDE DEF r
<1>6. SocketSound(decided', r)
  BY <1>1, <1>2, <1>3, <1>4 DEF SocketSound
<1> QED
  BY <1>4, <1>5, <1>6, SocketMoves

\* The launches approved in advance do not change.
LEMMA PreKept ==
  ASSUME PreInv, UNCHANGED preapproved, Grown(decided, decided')
  PROVE  PreInv'
  BY WithinGrows DEF PreInv, Store

\* A launch is used up or expires.
LEMMA PreConsumed ==
  ASSUME PreInv, NEW a \in App, consumePreApproval(a), Grown(decided, decided')
  PROVE  PreInv'
<1>1. /\ preapproved' \in [App -> (SUBSET Cap) \cup {NoSet}]
      /\ \A b \in App : preapproved'[b] = preapproved[b] \/ preapproved'[b] = NoSet
  BY DEF PreInv, consumePreApproval
<1> QED
  BY <1>1, WithinGrows DEF PreInv, Store

\* What a launch was approved with was decided for its app.
LEMMA PreGrant ==
  ASSUME PreInv, NEW a \in App, preapproved[a] # NoSet, NEW d \in SUBSET Cap
  PROVE  /\ PreApprovedGrant(a, d) \in Grant
         /\ PreApprovedGrant(a, d).caps \subseteq Within(decided, a)
  BY DEF PreInv, PreApprovedGrant, Grant

\* The authority sessions do not change.
LEMMA TabsKept == TabInv /\ UNCHANGED tab => TabInv'
  BY DEF TabInv

\* One authority session moves on.
LEMMA TabMoves ==
  ASSUME TabInv, NEW t \in Tab, NEW r, tab' = [tab EXCEPT ![t] = r],
         r \in [pc : {"idle", "ceiling", "close"}, id : Id \cup {NoId},
                want : SUBSET Cap, held : Grant \cup {NoGrant}],
         r.pc # "idle" => r.id \in Id
  PROVE  TabInv'
  BY DEF TabInv

\* The fields of an authority session that rests or closes sockets.
LEMMA TabClosing ==
  ASSUME NEW i \in Id, NEW r, r = Idle \/ r = [Idle EXCEPT !.pc = "close", !.id = i]
  PROVE  /\ r \in [pc : {"idle", "ceiling", "close"}, id : Id \cup {NoId},
                   want : SUBSET Cap, held : Grant \cup {NoGrant}]
         /\ r.pc # "idle" => r.id \in Id
<1>1. CASE r = Idle
  BY <1>1 DEF Idle
<1>2. CASE r = [Idle EXCEPT !.pc = "close", !.id = i]
  <2>1. r = [pc |-> "close", id |-> i, want |-> {}, held |-> NoGrant]
    BY <1>2 DEF Idle
  <2> QED
    BY <2>1
<1> QED
  BY <1>1, <1>2

\* No bound is used up.
LEMMA LeftKept == LeftInv /\ UNCHANGED left => LeftInv'
  BY DEF LeftInv

\* One of the bounds is.
LEMMA LeftSpent ==
  ASSUME LeftInv, NEW what \in {"decisions", "syncs", "restarts", "faults"}, Spend(what)
  PROVE  LeftInv'
<1> DEFINE L == [decisions : 0 .. MaxDecisions, syncs : 0 .. MaxSyncs,
                 restarts : 0 .. MaxRestarts, faults : 0 .. MaxFaults]
<1>1. left \in L /\ left[what] > 0 /\ left' = [left EXCEPT ![what] = @ - 1]
  BY DEF LeftInv, Spend
<1>2. CASE what = "decisions"
  BY <1>1, <1>2, BoundAssumption DEF LeftInv
<1>3. CASE what = "syncs"
  BY <1>1, <1>3, BoundAssumption DEF LeftInv
<1>4. CASE what = "restarts"
  BY <1>1, <1>4, BoundAssumption DEF LeftInv
<1>5. CASE what = "faults"
  BY <1>1, <1>5, BoundAssumption DEF LeftInv
<1> QED
  BY <1>2, <1>3, <1>4, <1>5

-----------------------------------------------------------------------------
(* The handshake *)

\* The list is searched for an identity of the key; the search copies one, or
\* the socket goes on to what comes next.
LEMMA Matched ==
  ASSUME SockInv, NEW s \in Socket, NEW list \in Grants, NEW k \in Key, NEW a \in Store,
         NEW next \in {"sync", "pair"}, ListSound(decided', list),
         MatchOr(s, list, k, a, next), Grown(decided, decided')
  PROVE  SockInv'
<1> DEFINE state == [NoSocket EXCEPT !.key = k, !.app = a]
           found == matchDirectLocalIdentity(list, k, a)
<1>1. /\ NoSocket \in SocketState
      /\ NoSocket.decision.caps = {} /\ NoSocket.auth.caps = {} /\ NoSocket.auth.stored = {}
  BY NoSocketSound DEF NoSocket, Open, NoAuth
<1>2. /\ state \in SocketState /\ state.key = k /\ state.app = a
      /\ state.decision = NoSocket.decision /\ state.auth = NoSocket.auth
  BY <1>1 DEF SocketState
<1> HIDE DEF state
<1>3. ASSUME NEW i \in found,
             sock' = [sock EXCEPT ![s] = [state EXCEPT !.pc = "resolve", !.id = i, !.held = list[i]]]
      PROVE  SockInv'
  <2> DEFINE r == [state EXCEPT !.pc = "resolve", !.id = i, !.held = list[i]]
  <2>1. i \in Id /\ (i[2] \in {AnyApp, a} \/ a = AnyApp) /\ list[i] \in Grant
    BY DEF matchDirectLocalIdentity, Grants
  <2>2. /\ r \in SocketState /\ r.pc = "resolve" /\ r.key = k /\ r.app = a /\ r.id = i
        /\ r.held = list[i] /\ r.decision = state.decision /\ r.auth = state.auth
    BY <1>2, <2>1 DEF SocketState
  <2> HIDE DEF r
  <2>3. SocketSound(decided', r)
    BY <1>1, <1>2, <2>1, <2>2 DEF SocketSound, ListSound
  <2> QED
    BY <1>3, <2>2, <2>3, SocketMoves DEF r
<1>4. ASSUME sock' = [sock EXCEPT ![s] = [state EXCEPT !.pc = next]]
      PROVE  SockInv'
  <2> DEFINE r == [state EXCEPT !.pc = next]
  <2>1. /\ r \in SocketState /\ r.pc = next /\ r.key = k /\ r.app = a
        /\ r.decision = state.decision /\ r.auth = state.auth
    BY <1>2 DEF SocketState
  <2> HIDE DEF r
  <2>2. SocketSound(decided', r)
    BY <1>1, <1>2, <2>1 DEF SocketSound
  <2> QED
    BY <1>4, <2>1, <2>2, SocketMoves DEF r
<1> QED
  BY <1>3, <1>4 DEF MatchOr, state

\* The browser's proof is checked against the list as it is.
LEMMA ProveKeeps ==
  ASSUME GrantsInv, NEW s \in Socket, NEW k \in Key, NEW a \in Store, Prove(s, k, a)
  PROVE  GrantsInv'
<1>1. /\ MatchOr(s, grants, k, a, "sync") /\ UNCHANGED <<grants, saving, shared, disk>>
      /\ UNCHANGED <<preapproved, tab, left>> /\ UNCHANGED ghosts
  BY DEF Prove, listVars
<1>2. GhostInv' /\ Grown(decided, decided') /\ decided' = decided
  BY <1>1, GhostsKept DEF GrantsInv
<1>3. SockInv'
  BY <1>1, <1>2, Matched DEF GrantsInv, ListInv
<1> QED
  BY <1>1, <1>2, <1>3, ListsKept, PreKept, TabsKept, LeftKept DEF GrantsInv

\* Dyner's decisions come with its answer.
LEMMA SyncForKeyKeeps ==
  ASSUME GrantsInv, NEW s \in Socket, NEW K \in SUBSET Key, NEW C \in SUBSET Cap, SyncForKey(s, K, C)
  PROVE  GrantsInv'
<1> DEFINE list == mergeSyncedIdentities(Fresh(K, C))
<1>1. /\ sock[s].pc = "sync" /\ Spend("syncs") /\ grants' = list /\ shared' = {}
      /\ MatchOr(s, grants', sock[s].key, sock[s].app, "pair")
      /\ DynerDecides(K, C) /\ UNCHANGED <<disk, saving, preapproved, tab>>
  BY DEF SyncForKey
<1>2. AnyApp \in Store /\ Decide(AnyApp, K \X {AnyApp}, C)
  BY <1>1 DEF Store, DynerDecides
<1>3. GhostInv' /\ Grown(decided, decided') /\ C \subseteq decided'[AnyApp]
  BY <1>2, DecideGrows DEF GrantsInv
<1>4. /\ ListSound(decided', grants) /\ ListSound(decided', disk)
      /\ \A w \in Writer : saving[w] # NotSaving => ListSound(decided', saving[w])
  BY <1>3, ListGrows DEF GrantsInv, ListInv
<1>5. list \in Grants /\ ListSound(decided', list)
  BY <1>3, <1>4, FreshSound, MergeSound DEF GrantsInv, ListInv
<1> HIDE DEF list
<1>6. ListInv'
  BY <1>1, <1>4, <1>5 DEF GrantsInv, ListInv
<1>7. SockInv'
  <2>1. sock[s] \in SocketState /\ SocketSound(decided, sock[s])
    BY DEF GrantsInv, SockInv
  <2>2. sock[s].key \in Key /\ sock[s].app \in Store
    BY <1>1, <2>1, SocketFields DEF SocketSound
  <2> QED
    BY <1>1, <1>3, <1>5, <2>2, Matched DEF GrantsInv
<1> QED
  BY <1>1, <1>3, <1>6, <1>7, PreKept, TabsKept, LeftSpent DEF GrantsInv

\* A paired key goes on with a launch decided in advance, or with its own
\* grant, which no declaration extends.
LEMMA PairedKeeps ==
  ASSUME GrantsInv, NEW s \in Socket, NEW d \in SUBSET Cap, NEW changed \in BOOLEAN,
         continuePairedIdentity(s, d, changed)
  PROVE  GrantsInv'
<1> DEFINE a == sock[s].app
           k == sock[s].key
           g == sock[s].held
           i == sock[s].id
           j == IF i[2] = AnyApp THEN <<k, a>> ELSE i
           h == [g EXCEPT !.declared = @ \cup d]
<1>1. /\ sock[s].pc = "resolve" /\ a # AnyApp /\ UNCHANGED <<disk, tab, left>> /\ UNCHANGED ghosts
  BY DEF continuePairedIdentity
<1>2. GhostInv' /\ Grown(decided, decided') /\ decided' = decided
  BY <1>1, GhostsKept DEF GrantsInv
<1>3. sock[s] \in SocketState /\ SocketSound(decided, sock[s])
  BY DEF GrantsInv, SockInv
<1>4. /\ k \in Key /\ a \in App /\ a \in Store /\ i \in Id /\ i[2] \in {AnyApp, a}
      /\ g \in Grant /\ g.caps \subseteq Within(decided, i[2])
  BY <1>1, <1>3, SocketFields DEF SocketSound, Store
<1>5. s \in Writer
  BY DEF Writer
<1>6. CASE preapproved[a] # NoSet
  <2>1. StoreAndEnter(s, j, PreApprovedGrant(a, d), a, d) /\ consumePreApproval(a)
    BY <1>6 DEF continuePairedIdentity
  <2>2. j \in Id /\ j[2] = a
    BY <1>4 DEF Id
  <2>3. PreApprovedGrant(a, d) \in Grant /\ PreApprovedGrant(a, d).caps \subseteq Within(decided', j[2])
    BY <1>2, <1>4, <1>6, <2>2, PreGrant DEF GrantsInv
  <2> HIDE DEF j, a
  <2>4. ListInv'
    BY <1>1, <1>2, <1>5, <2>1, <2>2, <2>3, Upserted DEF GrantsInv, StoreAndEnter
  <2>5. SockInv'
    BY <1>2, <1>4, <2>1, <2>2, <2>3, Entered DEF GrantsInv, StoreAndEnter
  <2>6. PreInv'
    BY <1>2, <1>4, <2>1, PreConsumed DEF GrantsInv
  <2> QED
    BY <1>1, <1>2, <2>4, <2>5, <2>6, TabsKept, LeftKept DEF GrantsInv
<1>7. CASE preapproved[a] = NoSet /\ (changed \/ ~(d \subseteq g.declared))
  <2>1. StoreAndEnter(s, i, h, a, d) /\ UNCHANGED preapproved
    BY <1>7 DEF continuePairedIdentity
  <2>2. h \in Grant /\ h.caps = g.caps
    BY <1>4 DEF Grant
  <2> HIDE DEF h, i, a, g
  <2>3. ListInv'
    BY <1>1, <1>2, <1>4, <1>5, <2>1, <2>2, Upserted DEF GrantsInv, StoreAndEnter
  <2>4. SockInv'
    BY <1>2, <1>4, <2>1, <2>2, Entered DEF GrantsInv, StoreAndEnter
  <2> QED
    BY <1>1, <1>2, <2>1, <2>3, <2>4, PreKept, TabsKept, LeftKept DEF GrantsInv
<1>8. CASE preapproved[a] = NoSet /\ ~changed /\ d \subseteq g.declared
  <2>1. Enter(s, i, g, a, d) /\ UNCHANGED <<grants, saving, shared, preapproved>>
    BY <1>8 DEF continuePairedIdentity, listVars
  <2> HIDE DEF i, a, g
  <2>2. SockInv'
    BY <1>2, <1>4, <2>1, Entered DEF GrantsInv
  <2> QED
    BY <1>1, <1>2, <2>1, <2>2, ListsKept, PreKept, TabsKept, LeftKept DEF GrantsInv
<1> QED
  BY <1>6, <1>7, <1>8

\* Without an app to resolve the saved grant applies as it is.
LEMMA UnresolvedKeeps ==
  ASSUME GrantsInv, NEW s \in Socket, NEW changed \in BOOLEAN, continueUnresolved(s, changed)
  PROVE  GrantsInv'
<1> DEFINE i == sock[s].id
           g == sock[s].held
<1>1. /\ sock[s].pc = "resolve" /\ UNCHANGED <<disk, preapproved, tab, left>> /\ UNCHANGED ghosts
      /\ Enter(s, i, g, AnyApp, Cap)
      /\ upsertBrowserIdentity(s, i, g) \/ UNCHANGED <<grants, saving, shared>>
  BY DEF continueUnresolved, StoreAndEnter, listVars
<1>2. GhostInv' /\ Grown(decided, decided') /\ decided' = decided
  BY <1>1, GhostsKept DEF GrantsInv
<1>3. sock[s] \in SocketState /\ SocketSound(decided, sock[s])
  BY DEF GrantsInv, SockInv
<1>4. i \in Id /\ g \in Grant /\ g.caps \subseteq Within(decided, i[2]) /\ AnyApp \in Store
      /\ s \in Writer
  BY <1>1, <1>3 DEF SocketSound, Store, Writer
<1> HIDE DEF i, g
<1>5. SockInv'
  BY <1>1, <1>2, <1>4, Entered DEF GrantsInv
<1>6. ListInv'
  BY <1>1, <1>2, <1>4, Upserted, ListsKept DEF GrantsInv
<1> QED
  BY <1>1, <1>2, <1>5, <1>6, PreKept, TabsKept, LeftKept DEF GrantsInv

\* An unknown key gets what was decided for its app, or waits for a decision.
LEMMA UnknownKeeps ==
  ASSUME GrantsInv, NEW s \in Socket, NEW d \in SUBSET Cap, pairUnknownIdentity(s, d)
  PROVE  GrantsInv'
<1> DEFINE a == sock[s].app
           i == <<sock[s].key, a>>
           other(j) == [caps |-> grants[j].caps \cap d, declared |-> grants[j].declared \cup d,
                        local |-> TRUE]
<1>1. /\ sock[s].pc = "pair" /\ a # AnyApp /\ UNCHANGED <<disk, tab, left>> /\ UNCHANGED ghosts
  BY DEF pairUnknownIdentity
<1>2. GhostInv' /\ Grown(decided, decided') /\ decided' = decided
  BY <1>1, GhostsKept DEF GrantsInv
<1>3. sock[s] \in SocketState /\ SocketSound(decided, sock[s])
  BY DEF GrantsInv, SockInv
<1>4. sock[s].key \in Key /\ a \in App /\ a \in Store /\ i \in Id /\ i[2] = a /\ s \in Writer
  BY <1>1, <1>3, SocketFields DEF SocketSound, Store, Id, Writer
<1>5. CASE preapproved[a] # NoSet
  <2>1. StoreAndEnter(s, i, PreApprovedGrant(a, d), a, d) /\ consumePreApproval(a)
    BY <1>4, <1>5 DEF pairUnknownIdentity
  <2>2. PreApprovedGrant(a, d) \in Grant /\ PreApprovedGrant(a, d).caps \subseteq Within(decided', i[2])
    BY <1>2, <1>4, <1>5, PreGrant DEF GrantsInv
  <2> HIDE DEF i, a
  <2>3. ListInv'
    BY <1>1, <1>2, <1>4, <2>1, <2>2, Upserted DEF GrantsInv, StoreAndEnter
  <2>4. SockInv'
    BY <1>2, <1>4, <2>1, <2>2, Entered DEF GrantsInv, StoreAndEnter
  <2>5. PreInv'
    BY <1>2, <1>4, <2>1, PreConsumed DEF GrantsInv
  <2> QED
    BY <1>1, <1>2, <2>3, <2>4, <2>5, TabsKept, LeftKept DEF GrantsInv
<1>6. ASSUME NEW j \in findApprovedAppGrant(a), preapproved[a] = NoSet,
             StoreAndEnter(s, i, other(j), a, d), UNCHANGED preapproved
      PROVE  GrantsInv'
  <2>1. j \in Id /\ j[2] \in {a, AnyApp} /\ grants[j] \in Grant
        /\ grants[j].caps \subseteq Within(decided, j[2])
    BY DEF findApprovedAppGrant, Has, GrantsInv, ListInv, Grants, ListSound
  <2>2. other(j) \in Grant /\ other(j).caps \subseteq grants[j].caps
    BY <2>1 DEF Grant
  <2>3. other(j).caps \subseteq Within(decided', i[2])
    BY <1>2, <1>4, <2>1, <2>2 DEF Within
  <2> HIDE DEF i, a, other
  <2>4. ListInv'
    BY <1>1, <1>2, <1>4, <1>6, <2>2, <2>3, Upserted DEF GrantsInv, StoreAndEnter
  <2>5. SockInv'
    BY <1>2, <1>4, <1>6, <2>2, <2>3, Entered DEF GrantsInv, StoreAndEnter
  <2> QED
    BY <1>1, <1>2, <1>6, <2>4, <2>5, PreKept, TabsKept, LeftKept DEF GrantsInv
<1>7. ASSUME sock' = [sock EXCEPT ![s].pc = "wait", ![s].decl = d],
             UNCHANGED <<grants, saving, shared, preapproved>>
      PROVE  GrantsInv'
  <2> DEFINE r == [sock[s] EXCEPT !.pc = "wait", !.decl = d]
  <2>1. sock' = [sock EXCEPT ![s] = r]
    BY <1>7 DEF GrantsInv, SockInv
  <2>2. /\ r \in SocketState /\ r.pc = "wait" /\ r.key = sock[s].key /\ r.auth = sock[s].auth
        /\ r.app = a /\ r.decl = d /\ r.decision = sock[s].decision
    BY <1>3 DEF SocketState
  <2>3. SocketSound(decided', r)
    BY <1>1, <1>2, <1>3, <2>2 DEF SocketSound
  <2> HIDE DEF r
  <2>4. SockInv'
    BY <1>2, <2>1, <2>2, <2>3, SocketMoves DEF GrantsInv
  <2> QED
    BY <1>1, <1>2, <1>7, <2>4, ListsKept, PreKept, TabsKept, LeftKept DEF GrantsInv
<1> QED
  BY <1>5, <1>6, <1>7 DEF pairUnknownIdentity, listVars

\* A request that was approved gets what was decided, within its declaration.
LEMMA DecidedKeeps ==
  ASSUME GrantsInv, NEW s \in Socket, DecisionReceived(s)
  PROVE  /\ GrantsInv'
         /\ sock[s].decision.caps \subseteq sock[s].decl
         /\ grants'[<<sock[s].key, sock[s].app>>].caps = sock[s].decision.caps
<1> DEFINE a == sock[s].app
           i == <<sock[s].key, a>>
           d == sock[s].decl
           g == [caps |-> sock[s].decision.caps \cap d, declared |-> d, local |-> TRUE]
<1>1. /\ sock[s].pc = "wait" /\ StoreAndEnter(s, i, g, a, d)
      /\ UNCHANGED <<disk, preapproved, tab, left>> /\ UNCHANGED ghosts
  BY DEF DecisionReceived
<1>2. GhostInv' /\ Grown(decided, decided') /\ decided' = decided
  BY <1>1, GhostsKept DEF GrantsInv
<1>3. sock[s] \in SocketState /\ SocketSound(decided, sock[s])
  BY DEF GrantsInv, SockInv
<1>4. /\ a \in Store /\ i \in Id /\ i[2] = a /\ s \in Writer /\ d \subseteq Cap
  BY <1>1, <1>3, SocketFields DEF SocketSound, Id, Writer
<1>5. sock[s].decision.caps \subseteq d /\ sock[s].decision.caps \subseteq Within(decided, a)
  BY <1>1, <1>3 DEF SocketSound
<1>6. g \in Grant /\ g.caps = sock[s].decision.caps /\ g.caps \subseteq Within(decided', i[2])
  <2>1. g \in Grant /\ g.caps = sock[s].decision.caps \cap d
    BY <1>4 DEF Grant
  <2> QED
    BY <1>2, <1>4, <1>5, <2>1
<1> HIDE DEF g, i, a, d
<1>7. ListInv' /\ grants'[i] = g
  BY <1>1, <1>2, <1>4, <1>6, Upserted DEF GrantsInv, StoreAndEnter
<1>8. SockInv'
  BY <1>1, <1>2, <1>4, <1>6, Entered DEF GrantsInv, StoreAndEnter
<1>9. GrantsInv'
  BY <1>1, <1>2, <1>7, <1>8, PreKept, TabsKept, LeftKept DEF GrantsInv
<1> QED
  BY <1>5, <1>6, <1>7, <1>9 DEF a, i, d

\* A step that touches one socket, which changes its state or ends.
LEMMA SocketOnly ==
  ASSUME GrantsInv, NEW s \in Socket, NEW r,
         r \in SocketState, SocketSound(decided, r), sock' = [sock EXCEPT ![s] = r],
         UNCHANGED listVars, UNCHANGED <<disk, preapproved, tab, left>>, UNCHANGED ghosts
  PROVE  GrantsInv'
<1>1. GhostInv' /\ Grown(decided, decided') /\ decided' = decided
  BY GhostsKept DEF GrantsInv
<1>2. SockInv'
  BY <1>1, SocketMoves DEF GrantsInv
<1> QED
  BY <1>1, <1>2, ListsKept, PreKept, TabsKept, LeftKept DEF GrantsInv, listVars

\* A socket moves on with what it has.
LEMMA SocketPc ==
  ASSUME GrantsInv, NEW s \in Socket, NEW pc \in {"pair", "live", "busy"},
         sock' = [sock EXCEPT ![s].pc = pc],
         sock[s].pc # "none", pc = "pair" => sock[s].decision.caps = {},
         UNCHANGED listVars, UNCHANGED <<disk, preapproved, tab, left>>, UNCHANGED ghosts
  PROVE  GrantsInv'
<1> DEFINE r == [sock[s] EXCEPT !.pc = pc]
<1>1. sock[s] \in SocketState /\ SocketSound(decided, sock[s])
  BY DEF GrantsInv, SockInv
<1>2. /\ r \in SocketState /\ r.pc = pc /\ r.key = sock[s].key /\ r.auth = sock[s].auth
      /\ r.decision = sock[s].decision
  BY <1>1 DEF SocketState
<1>3. sock' = [sock EXCEPT ![s] = r]
  BY DEF GrantsInv, SockInv
<1> HIDE DEF r
<1>4. SocketSound(decided, r)
  BY <1>1, <1>2 DEF SocketSound
<1> QED
  BY <1>2, <1>3, <1>4, SocketOnly

\* The other steps of a socket.
LEMMA OtherSocketSteps ==
  ASSUME GrantsInv, NEW s \in Socket,
         \/ SyncForKeyFails(s) \/ PairingRejected(s) \/ DeniedOrExpired(s) \/ trackLiveSocket(s)
         \/ HandshakeAborted(s) \/ Frame(s) \/ FrameDone(s) \/ SocketEnds(s)
  PROVE  GrantsInv'
<1>1. CASE PairingRejected(s) \/ DeniedOrExpired(s) \/ HandshakeAborted(s) \/ SocketEnds(s)
  <2>1. /\ sock' = [sock EXCEPT ![s] = NoSocket]
        /\ UNCHANGED listVars /\ UNCHANGED <<disk, preapproved, tab, left>> /\ UNCHANGED ghosts
    BY <1>1 DEF PairingRejected, DeniedOrExpired, HandshakeAborted, SocketEnds, Ends
  <2> QED
    BY <2>1, NoSocketSound, SocketOnly
<1>2. CASE SyncForKeyFails(s)
  <2>1. sock[s].decision.caps = {}
    BY <1>2 DEF SyncForKeyFails, GrantsInv, SockInv, SocketSound
  <2> QED
    BY <1>2, <2>1, SocketPc DEF SyncForKeyFails
<1>3. CASE trackLiveSocket(s) \/ Frame(s) \/ FrameDone(s)
  BY <1>3, SocketPc DEF trackLiveSocket, Frame, FrameDone
<1> QED
  BY <1>1, <1>2, <1>3

-----------------------------------------------------------------------------
(* The authority *)

\* An update is asked for.
LEMMA UpdateKeeps ==
  ASSUME GrantsInv, NEW t \in Tab, NEW i \in Id, NEW C \in SUBSET Cap, updateGrant(t, i, C)
  PROVE  GrantsInv'
<1> DEFINE r == [pc |-> "ceiling", id |-> i, want |-> C, held |-> grants[i]]
<1>1. /\ Spend("decisions") /\ tab' = [tab EXCEPT ![t] = r]
      /\ UNCHANGED <<grants, saving, shared, disk, preapproved, sock>> /\ UNCHANGED ghosts
  BY DEF updateGrant, listVars
<1>2. GhostInv' /\ Grown(decided, decided')
  BY <1>1, GhostsKept DEF GrantsInv
<1>3. grants[i] \in Grant \cup {NoGrant}
  BY DEF GrantsInv, ListInv, Grants
<1>4. /\ r \in [pc : {"idle", "ceiling", "close"}, id : Id \cup {NoId},
                want : SUBSET Cap, held : Grant \cup {NoGrant}]
      /\ r.pc # "idle" => r.id \in Id
  BY <1>3
<1> HIDE DEF r
<1>5. TabInv'
  BY <1>1, <1>4, TabMoves DEF GrantsInv
<1> QED
  BY <1>1, <1>2, <1>5, ListsKept, PreKept, SocketsKept, LeftSpent DEF GrantsInv

\* The grant is written within what was reviewed, as it is decided.
LEMMA UpdateWriteKeeps ==
  ASSUME GrantsInv, NEW t \in Tab, NEW d \in SUBSET Cap, updateGrantWrite(t, d)
  PROVE  GrantsInv'
<1> DEFINE i == tab[t].id
           ceiling == tab[t].held.declared \cup d
           caps == IF ceiling = {} THEN tab[t].want ELSE tab[t].want \cap ceiling
           g == [caps |-> caps, declared |-> ceiling \cup caps, local |-> TRUE]
           r == [Idle EXCEPT !.pc = "close", !.id = i]
<1>1. /\ tab[t].pc = "ceiling" /\ upsertBrowserIdentity(t, i, g) /\ Decide(i[2], {i}, caps)
      /\ tab' = [tab EXCEPT ![t] = r] /\ UNCHANGED <<disk, preapproved, sock, left>>
  BY DEF updateGrantWrite
<1>2. /\ i \in Id /\ i[2] \in Store /\ tab[t].want \subseteq Cap
      /\ tab[t].held \in Grant \cup {NoGrant} /\ t \in Writer
  BY <1>1 DEF GrantsInv, TabInv, Id, Writer
<1>3. ceiling \subseteq Cap
  BY <1>2, GrantFields
<1>4. caps \subseteq Cap
  BY <1>2
<1>5. g \in Grant /\ g.caps = caps
  BY <1>3, <1>4 DEF Grant
<1> HIDE DEF g, caps, ceiling
<1>6. GhostInv' /\ Grown(decided, decided') /\ caps \subseteq decided'[i[2]]
  BY <1>1, <1>2, <1>4, DecideGrows DEF GrantsInv
<1>7. g.caps \subseteq Within(decided', i[2])
  BY <1>5, <1>6 DEF Within
<1>8. ListInv'
  BY <1>1, <1>2, <1>5, <1>6, <1>7, Upserted DEF GrantsInv
<1>9. TabInv'
  BY <1>1, <1>2, TabClosing, TabMoves DEF GrantsInv
<1> QED
  BY <1>1, <1>6, <1>8, <1>9, PreKept, SocketsKept, LeftKept DEF GrantsInv

\* An identity is removed.
LEMMA RevokeKeeps ==
  ASSUME GrantsInv, NEW t \in Tab, NEW i \in Id, revokeGrant(t, i)
  PROVE  GrantsInv'
<1> DEFINE list == [grants EXCEPT ![i] = NoGrant]
           r == [Idle EXCEPT !.pc = "close", !.id = i]
<1>1. /\ Spend("decisions") /\ Install(t, list) /\ tab' = [tab EXCEPT ![t] = r]
      /\ revoked' = (IF Renewed(i) THEN revoked ELSE revoked \cup {i})
      /\ UNCHANGED <<disk, preapproved, sock, decided>>
  BY DEF revokeGrant
<1>2. GhostInv' /\ Grown(decided, decided') /\ decided' = decided
  BY <1>1 DEF GrantsInv, GhostInv, Grown
<1>3. list \in Grants /\ ListSound(decided, list)
  <2>1. /\ grants \in Grants /\ ListSound(decided, grants) /\ NoGrant.caps = {}
    BY DEF GrantsInv, ListInv, NoGrant
  <2> QED
    BY <2>1 DEF Grants, ListSound
<1> HIDE DEF list
<1>4. t \in Writer
  BY DEF Writer
<1>5. ListInv'
  BY <1>1, <1>2, <1>3, <1>4, Installed DEF GrantsInv
<1>6. TabInv'
  BY <1>1, TabClosing, TabMoves DEF GrantsInv
<1> QED
  BY <1>1, <1>2, <1>5, <1>6, PreKept, SocketsKept, LeftSpent DEF GrantsInv

\* Every socket of the identity is closed.
LEMMA CloseKeeps ==
  ASSUME GrantsInv, NEW t \in Tab, closeSocketsBoundTo(t)
  PROVE  GrantsInv'
<1>1. /\ \A s \in Socket : sock'[s] = NoSocket \/ sock'[s] = sock[s]
      /\ sock' = [s \in Socket |-> sock'[s]]
      /\ tab' = [tab EXCEPT ![t] = Idle]
      /\ UNCHANGED <<grants, saving, shared, disk, preapproved, left>> /\ UNCHANGED ghosts
      /\ tab[t].id \in Id
  BY DEF closeSocketsBoundTo, listVars, GrantsInv, TabInv
<1>2. GhostInv' /\ Grown(decided, decided') /\ decided' = decided
  BY <1>1, GhostsKept DEF GrantsInv
<1>3. ASSUME NEW s \in Socket PROVE sock'[s] \in SocketState /\ SocketSound(decided', sock'[s])
  <2>1. sock[s] \in SocketState /\ SocketSound(decided', sock[s])
    BY <1>2 DEF GrantsInv, SockInv
  <2>2. CASE sock'[s] = NoSocket
    BY <2>2, NoSocketSound
  <2>3. CASE sock'[s] = sock[s]
    BY <2>1, <2>3
  <2> QED
    BY <1>1, <2>2, <2>3
<1>4. SockInv'
  BY <1>1, <1>3 DEF SockInv
<1>5. TabInv'
  BY <1>1, TabClosing, TabMoves DEF GrantsInv
<1> QED
  BY <1>1, <1>2, <1>4, <1>5, ListsKept, PreKept, LeftKept DEF GrantsInv

\* A request is answered: within what it declared, or not at all.
LEMMA ApproveKeeps ==
  ASSUME GrantsInv, NEW t \in Tab, NEW s \in Socket, NEW C \in SUBSET Cap, Approve(t, s, C)
  PROVE  GrantsInv'
<1> DEFINE granted == C \cap sock[s].decl
           a == sock[s].app
           r == [sock[s] EXCEPT !.decision = [answer |-> "approved", caps |-> granted]]
<1>1. /\ sock[s].pc = "wait" /\ Spend("decisions")
      /\ sock' = [sock EXCEPT ![s] = r]
      /\ Decide(a, {<<sock[s].key, a>>}, granted)
      /\ UNCHANGED <<grants, saving, shared, disk, preapproved, tab>>
  BY DEF Approve, listVars, GrantsInv, SockInv
<1>2. sock[s] \in SocketState /\ SocketSound(decided, sock[s])
  BY DEF GrantsInv, SockInv
<1>3. a \in Store /\ granted \in SUBSET Cap /\ granted \subseteq sock[s].decl
  BY <1>2, SocketFields
<1>4. /\ r \in SocketState /\ r.pc = "wait" /\ r.key = sock[s].key /\ r.auth = sock[s].auth
      /\ r.app = a /\ r.decl = sock[s].decl /\ r.decision.caps = granted
  BY <1>1, <1>2, <1>3 DEF SocketState
<1> HIDE DEF granted, r
<1>5. GhostInv' /\ Grown(decided, decided') /\ granted \subseteq decided'[a]
  BY <1>1, <1>3, DecideGrows DEF GrantsInv
<1>6. SocketSound(decided', r)
  <2>1. SocketSound(decided', sock[s])
    BY <1>2, <1>5, SocketGrows
  <2>2. r.decision.caps \subseteq Within(decided', r.app) /\ r.decision.caps \subseteq r.decl
    BY <1>3, <1>4, <1>5 DEF Within
  <2>3. /\ r.key \in Key /\ r.auth.caps \subseteq r.auth.stored
        /\ r.auth.caps \subseteq Within(decided', r.auth.store)
    BY <1>1, <1>4, <2>1 DEF SocketSound
  <2> HIDE DEF a
  <2> QED
    BY <1>4, <2>2, <2>3 DEF SocketSound
<1>7. SockInv'
  BY <1>1, <1>4, <1>5, <1>6, SocketMoves DEF GrantsInv
<1> QED
  BY <1>1, <1>5, <1>7, ListsKept, PreKept, TabsKept, LeftSpent DEF GrantsInv

\* A pairing is denied.
LEMMA DenyKeeps ==
  ASSUME GrantsInv, NEW t \in Tab, NEW s \in Socket, Deny(t, s)
  PROVE  GrantsInv'
<1> DEFINE e == [sock[s].decision EXCEPT !.answer = "denied"]
           r == [sock[s] EXCEPT !.decision = e]
<1>1. /\ sock[s].pc = "wait" /\ Spend("decisions")
      /\ sock' = [sock EXCEPT ![s].decision.answer = "denied"]
      /\ UNCHANGED <<grants, saving, shared, disk, preapproved, tab>> /\ UNCHANGED ghosts
  BY DEF Deny, listVars
<1>2. sock[s] \in SocketState /\ SocketSound(decided, sock[s])
  BY DEF GrantsInv, SockInv
<1>3. /\ e \in [answer : {"open", "approved", "denied"}, caps : SUBSET Cap]
      /\ e.caps = sock[s].decision.caps
  BY <1>2, SocketFields
<1>4. sock' = [sock EXCEPT ![s] = r]
  BY <1>1
<1> HIDE DEF e
<1>5. /\ r \in SocketState /\ r.pc = "wait" /\ r.key = sock[s].key /\ r.auth = sock[s].auth
      /\ r.app = sock[s].app /\ r.decl = sock[s].decl /\ r.decision = e
  BY <1>1, <1>2, <1>3 DEF SocketState
<1> HIDE DEF r
<1>6. GhostInv' /\ Grown(decided, decided') /\ decided' = decided
  BY <1>1, GhostsKept DEF GrantsInv
<1>7. SocketSound(decided', r)
  BY <1>1, <1>2, <1>3, <1>5, <1>6 DEF SocketSound
<1>8. SockInv'
  BY <1>4, <1>5, <1>6, <1>7, SocketMoves DEF GrantsInv
<1> QED
  BY <1>1, <1>6, <1>8, ListsKept, PreKept, TabsKept, LeftSpent DEF GrantsInv

\* A launch is approved in advance.
LEMMA PreapproveKeeps ==
  ASSUME GrantsInv, NEW t \in Tab, NEW a \in App, NEW C \in SUBSET Cap, preapprovePermissions(t, a, C)
  PROVE  GrantsInv'
<1>1. /\ Spend("decisions") /\ preapproved' = [preapproved EXCEPT ![a] = C]
      /\ Decide(a, {i \in Id : i[2] = a}, C)
      /\ UNCHANGED <<grants, saving, shared, disk, sock, tab>>
  BY DEF preapprovePermissions, listVars
<1>2. GhostInv' /\ Grown(decided, decided') /\ C \subseteq decided'[a]
  BY <1>1, DecideGrows DEF GrantsInv, Store
<1>3. PreInv'
  <2>1. /\ preapproved' \in [App -> (SUBSET Cap) \cup {NoSet}]
        /\ preapproved'[a] = C /\ \A b \in App : b # a => preapproved'[b] = preapproved[b]
    BY <1>1 DEF GrantsInv, PreInv
  <2>2. ASSUME NEW b \in App, preapproved'[b] # NoSet
        PROVE  preapproved'[b] \subseteq Within(decided', b)
    <3>1. CASE b = a
      BY <1>2, <2>1, <3>1 DEF Within
    <3>2. CASE b # a
      BY <1>2, <2>1, <2>2, <3>2, WithinGrows DEF GrantsInv, PreInv, Store
    <3> QED
      BY <3>1, <3>2
  <2> QED
    BY <2>1, <2>2 DEF PreInv
<1> QED
  BY <1>1, <1>2, <1>3, ListsKept, SocketsKept, TabsKept, LeftSpent DEF GrantsInv

-----------------------------------------------------------------------------
(* The config file, Dyner and the process *)

\* The file holds the snapshot, or what the live list holds in its place.
LEMMA SaveKeeps ==
  ASSUME GrantsInv, NEW w \in Writer, SaveConfig(w)
  PROVE  GrantsInv'
<1>1. PICK R \in SUBSET {i \in Id : w \in shared /\ saving[w][i] # NoGrant /\ Has(i)} :
        disk' = [i \in Id |-> IF i \in R THEN grants[i] ELSE saving[w][i]]
  BY DEF SaveConfig
<1>2. /\ saving[w] # NotSaving /\ saving' = [saving EXCEPT ![w] = NotSaving]
      /\ shared' = shared \ {w} /\ UNCHANGED <<grants, preapproved, sock, tab, left>>
      /\ UNCHANGED ghosts
  BY DEF SaveConfig
<1>3. GhostInv' /\ Grown(decided, decided') /\ decided' = decided
  BY <1>2, GhostsKept DEF GrantsInv
<1>4. /\ grants \in Grants /\ saving[w] \in Grants
      /\ ListSound(decided, grants) /\ ListSound(decided, saving[w])
  BY <1>2 DEF GrantsInv, ListInv
<1>5. disk' \in Grants /\ ListSound(decided, disk')
  <2>1. ASSUME NEW i \in Id
        PROVE  disk'[i] = grants[i] \/ disk'[i] = saving[w][i]
    BY <1>1
  <2>2. disk' = [i \in Id |-> disk'[i]]
    BY <1>1
  <2> QED
    BY <1>4, <2>1, <2>2 DEF Grants, ListSound
<1>6. /\ saving' \in [Writer -> Grants \cup {NotSaving}]
      /\ \A v \in Writer : saving'[v] = NotSaving \/ saving'[v] = saving[v]
  BY <1>2 DEF GrantsInv, ListInv
<1>7. ListInv'
  BY <1>2, <1>3, <1>4, <1>5, <1>6 DEF GrantsInv, ListInv
<1> QED
  BY <1>2, <1>3, <1>7, PreKept, SocketsKept, TabsKept, LeftKept DEF GrantsInv

\* SaveConfig fails.
LEMMA SaveFailsKeeps ==
  ASSUME GrantsInv, NEW w \in Writer, SaveConfigFails(w)
  PROVE  GrantsInv'
<1>1. /\ Spend("faults") /\ saving' = [saving EXCEPT ![w] = NotSaving]
      /\ shared' = shared \ {w} /\ UNCHANGED <<grants, disk, preapproved, sock, tab>>
      /\ UNCHANGED ghosts
  BY DEF SaveConfigFails
<1>2. GhostInv' /\ Grown(decided, decided') /\ decided' = decided
  BY <1>1, GhostsKept DEF GrantsInv
<1>3. /\ saving' \in [Writer -> Grants \cup {NotSaving}]
      /\ \A v \in Writer : saving'[v] = NotSaving \/ saving'[v] = saving[v]
  BY <1>1 DEF GrantsInv, ListInv
<1>4. ListInv'
  BY <1>1, <1>2, <1>3 DEF GrantsInv, ListInv
<1> QED
  BY <1>1, <1>2, <1>4, PreKept, SocketsKept, TabsKept, LeftSpent DEF GrantsInv

\* A launch that was approved in advance expires.
LEMMA ExpiryKeeps ==
  ASSUME GrantsInv, NEW a \in App, PreApprovalExpires(a)
  PROVE  GrantsInv'
<1>1. /\ consumePreApproval(a) /\ UNCHANGED <<grants, saving, shared, disk, sock, tab, left>>
      /\ UNCHANGED ghosts
  BY DEF PreApprovalExpires, listVars
<1>2. GhostInv' /\ Grown(decided, decided')
  BY <1>1, GhostsKept DEF GrantsInv
<1> QED
  BY <1>1, <1>2, ListsKept, PreConsumed, SocketsKept, TabsKept, LeftKept DEF GrantsInv

\* Dyner's answer is installed as it came or merged.
LEMMA SyncKeeps ==
  ASSUME GrantsInv, NEW K \in SUBSET Key, NEW C \in SUBSET Cap,
         syncBrowserIdentitiesOnce(K, C) \/ runRelay(K, C)
  PROVE  GrantsInv'
<1> DEFINE fresh == Fresh(K, C)
           merged == mergeSyncedIdentities(fresh)
<1>1. /\ Spend("syncs")
      /\ Install(SyncLoop, merged) \/ Install(RelayLoop, fresh)
      /\ DynerDecides(K, C) /\ UNCHANGED <<disk, preapproved, sock, tab>>
  BY DEF syncBrowserIdentitiesOnce, runRelay
<1>2. AnyApp \in Store /\ Decide(AnyApp, K \X {AnyApp}, C) /\ SyncLoop \in Writer
      /\ RelayLoop \in Writer
  BY <1>1 DEF Store, DynerDecides, Writer
<1>3. GhostInv' /\ Grown(decided, decided') /\ C \subseteq decided'[AnyApp]
  BY <1>2, DecideGrows DEF GrantsInv
<1>4. ListSound(decided', grants)
  BY <1>3, ListGrows DEF GrantsInv, ListInv
<1>5. fresh \in Grants /\ ListSound(decided', fresh)
  BY <1>3, FreshSound
<1>6. merged \in Grants /\ ListSound(decided', merged)
  BY <1>4, <1>5, MergeSound DEF GrantsInv, ListInv
<1> HIDE DEF merged, fresh
<1>7. ListInv'
  BY <1>1, <1>2, <1>3, <1>5, <1>6, Installed DEF GrantsInv
<1> QED
  BY <1>1, <1>3, <1>7, PreKept, SocketsKept, TabsKept, LeftSpent DEF GrantsInv

\* After a restart there is only what the file holds.
LEMMA RestartKeeps ==
  ASSUME GrantsInv, Restart
  PROVE  GrantsInv'
<1>1. /\ Spend("restarts") /\ grants' = disk /\ saving' = [w \in Writer |-> NotSaving]
      /\ shared' = {} /\ preapproved' = [a \in App |-> NoSet]
      /\ sock' = [s \in Socket |-> NoSocket] /\ tab' = [t \in Tab |-> Idle]
      /\ UNCHANGED disk /\ UNCHANGED ghosts
  BY DEF Restart
<1>2. GhostInv' /\ decided' = decided
  BY <1>1, GhostsKept DEF GrantsInv
<1>3. ListInv'
  BY <1>1, <1>2 DEF GrantsInv, ListInv
<1>4. PreInv'
  <2>1. preapproved' \in [App -> (SUBSET Cap) \cup {NoSet}]
    BY <1>1
  <2>2. \A a \in App : preapproved'[a] = NoSet
    BY <1>1
  <2> QED
    BY <2>1, <2>2 DEF PreInv
<1>5. SockInv'
  BY <1>1, NoSocketSound DEF SockInv
<1>6. TabInv'
  BY <1>1 DEF TabInv, Idle
<1> QED
  BY <1>1, <1>2, <1>3, <1>4, <1>5, <1>6, LeftSpent DEF GrantsInv

-----------------------------------------------------------------------------
(* The specification *)

\* The initial states have the invariant.
LEMMA GrantsInit == Init => GrantsInv
<1> SUFFICES ASSUME Init PROVE GrantsInv
  OBVIOUS
<1>1. ListInv
  <2>1. grants \in Grants /\ ListSound(decided, grants)
    BY DEF Init, Grants, ListSound, NoGrant
  <2> QED
    BY <2>1 DEF Init, ListInv
<1>2. PreInv
  BY DEF Init, PreInv
<1>3. SockInv
  BY NoSocketSound DEF Init, SockInv
<1>4. TabInv
  BY DEF Init, TabInv, Idle
<1>5. GhostInv
  BY DEF Init, GhostInv
<1>6. LeftInv
  BY BoundAssumption DEF Init, LeftInv
<1> QED
  BY <1>1, <1>2, <1>3, <1>4, <1>5, <1>6 DEF GrantsInv

\* Every step of a socket keeps the invariant.
LEMMA SocketStepKeeps ==
  ASSUME GrantsInv, NEW s \in Socket, SocketStep(s)
  PROVE  GrantsInv'
<1>1. CASE \E k \in Key, a \in Store : Prove(s, k, a)
  BY <1>1, ProveKeeps
<1>2. CASE \E K \in SUBSET Key, C \in SUBSET Cap : SyncForKey(s, K, C)
  BY <1>2, SyncForKeyKeeps
<1>3. CASE \E d \in SUBSET Cap, changed \in BOOLEAN : continuePairedIdentity(s, d, changed)
  BY <1>3, PairedKeeps
<1>4. CASE \E changed \in BOOLEAN : continueUnresolved(s, changed)
  BY <1>4, UnresolvedKeeps
<1>5. CASE \E d \in SUBSET Cap : pairUnknownIdentity(s, d)
  BY <1>5, UnknownKeeps
<1>6. CASE DecisionReceived(s)
  BY <1>6, DecidedKeeps
<1>7. CASE \/ SyncForKeyFails(s) \/ PairingRejected(s) \/ DeniedOrExpired(s)
           \/ trackLiveSocket(s) \/ HandshakeAborted(s) \/ Frame(s) \/ FrameDone(s)
           \/ SocketEnds(s)
  BY <1>7, OtherSocketSteps
<1> QED
  BY <1>1, <1>2, <1>3, <1>4, <1>5, <1>6, <1>7 DEF SocketStep, HandshakeStep

\* Every step of an authority session does.
LEMMA TabStepKeeps ==
  ASSUME GrantsInv, NEW t \in Tab, TabStep(t)
  PROVE  GrantsInv'
  BY UpdateKeeps, UpdateWriteKeeps, RevokeKeeps, CloseKeeps, ApproveKeeps, DenyKeeps,
     PreapproveKeeps DEF TabStep

\* Every step does.
LEMMA GrantsStep == GrantsInv /\ [Next]_vars => GrantsInv'
<1> SUFFICES ASSUME GrantsInv, [Next]_vars PROVE GrantsInv'
  OBVIOUS
<1>1. CASE \E s \in Socket : SocketStep(s)
  BY <1>1, SocketStepKeeps
<1>2. CASE \E t \in Tab : TabStep(t)
  BY <1>2, TabStepKeeps
<1>3. CASE \E w \in Writer : SaveConfig(w) \/ SaveConfigFails(w)
  BY <1>3, SaveKeeps, SaveFailsKeeps
<1>4. CASE \E a \in App : PreApprovalExpires(a)
  BY <1>4, ExpiryKeeps
<1>5. CASE SyncStep
  BY <1>5, SyncKeeps DEF SyncStep
<1>6. CASE Restart
  BY <1>6, RestartKeeps
<1>7. CASE UNCHANGED vars
  <2>1. UNCHANGED <<grants, saving, shared, disk>> /\ UNCHANGED ghosts
        /\ UNCHANGED <<preapproved, sock, tab, left>>
    BY <1>7 DEF vars, ghosts
  <2>2. GhostInv' /\ Grown(decided, decided')
    BY <2>1, GhostsKept DEF GrantsInv
  <2> QED
    BY <2>1, <2>2, ListsKept, PreKept, SocketsKept, TabsKept, LeftKept DEF GrantsInv
<1> QED
  BY <1>1, <1>2, <1>3, <1>4, <1>5, <1>6, <1>7 DEF Next

\* The invariant says that nothing exceeds the decisions.
LEMMA GrantsEnough == GrantsInv => GrantsSafe
<1> SUFFICES ASSUME GrantsInv PROVE GrantsSafe
  OBVIOUS
<1>1. TypeOK
  BY DEF GrantsInv, ListInv, PreInv, SockInv, TabInv, GhostInv, LeftInv, TypeOK
<1>2. NoSelfApproval
  BY DEF GrantsInv, ListInv, SockInv, SocketSound, ListSound, Within, NoSelfApproval, DecidedFor
<1> QED
  BY <1>1, <1>2 DEF GrantsSafe

\* "The app cannot approve itself": whatever handshakes, reuse of another key's
\* grant, writes of a stale identity, saves that mix two lists, answers of Dyner
\* and restarts come together, no stored grant and no admitted socket exceeds
\* what the authority decided for that app or Dyner for that browser.
THEOREM NothingBeyondDecisions == Spec => []GrantsSafe
<1>1. Init /\ [][Next]_vars => []GrantsInv
  BY GrantsInit, GrantsStep, PTL
<1> QED
  BY <1>1, GrantsEnough, PTL DEF Spec

-----------------------------------------------------------------------------
(* What admits a socket and what handles a frame *)

\* A socket takes up a frame, or is admitted after it waited for a decision.
Turns(r, q) == \/ r.pc = "live" /\ q.pc = "busy"
               \/ r.pc = "wait" /\ q.pc = "authed"

\* A handshake and a frame loop touch their own socket only.
LEMMA OthersStay ==
  ASSUME sock \in [Socket -> SocketState], NEW s \in Socket, SocketStep(s), NEW u \in Socket, u # s
  PROVE  sock'[u] = sock[u]
<1>1. CASE \E k \in Key, a \in Store : Prove(s, k, a)
  BY <1>1 DEF Prove, MatchOr
<1>2. CASE \E K \in SUBSET Key, C \in SUBSET Cap : SyncForKey(s, K, C)
  BY <1>2 DEF SyncForKey, MatchOr
<1>3. CASE \E d \in SUBSET Cap, changed \in BOOLEAN : continuePairedIdentity(s, d, changed)
  BY <1>3 DEF continuePairedIdentity, StoreAndEnter, Enter
<1>4. CASE \E changed \in BOOLEAN : continueUnresolved(s, changed)
  BY <1>4 DEF continueUnresolved, StoreAndEnter, Enter
<1>5. CASE \E d \in SUBSET Cap : pairUnknownIdentity(s, d)
  BY <1>5 DEF pairUnknownIdentity, StoreAndEnter, Enter
<1>6. CASE DecisionReceived(s)
  BY <1>6 DEF DecisionReceived, StoreAndEnter, Enter
<1>7. CASE \/ SyncForKeyFails(s) \/ PairingRejected(s) \/ DeniedOrExpired(s)
           \/ trackLiveSocket(s) \/ HandshakeAborted(s) \/ Frame(s) \/ FrameDone(s)
           \/ SocketEnds(s)
  BY <1>7 DEF SyncForKeyFails, PairingRejected, DeniedOrExpired, trackLiveSocket,
              HandshakeAborted, Frame, FrameDone, SocketEnds, Ends
<1> QED
  BY <1>1, <1>2, <1>3, <1>4, <1>5, <1>6, <1>7 DEF SocketStep, HandshakeStep

\* Only Frame takes up a frame and only a decision ends a wait well.
LEMMA OwnTurn ==
  ASSUME sock \in [Socket -> SocketState], NEW s \in Socket, SocketStep(s), Turns(sock[s], sock'[s])
  PROVE  Frame(s) \/ DecisionReceived(s)
<1>1. sock[s].pc \in {"live", "wait"} /\ sock'[s].pc \in {"busy", "authed"}
  BY DEF Turns
<1>2. ~\E k \in Key, a \in Store : Prove(s, k, a)
  BY <1>1 DEF Prove
<1>3. ~\E K \in SUBSET Key, C \in SUBSET Cap : SyncForKey(s, K, C)
  BY <1>1 DEF SyncForKey
<1>4. ~\E d \in SUBSET Cap, changed \in BOOLEAN : continuePairedIdentity(s, d, changed)
  BY <1>1 DEF continuePairedIdentity
<1>5. ~\E changed \in BOOLEAN : continueUnresolved(s, changed)
  BY <1>1 DEF continueUnresolved
<1>6. ~\E d \in SUBSET Cap : pairUnknownIdentity(s, d)
  BY <1>1 DEF pairUnknownIdentity
<1>7. ~SyncForKeyFails(s) /\ ~PairingRejected(s) /\ ~trackLiveSocket(s) /\ ~FrameDone(s)
  BY <1>1 DEF SyncForKeyFails, PairingRejected, trackLiveSocket, FrameDone
<1>8. ~DeniedOrExpired(s) /\ ~HandshakeAborted(s) /\ ~SocketEnds(s)
  BY <1>1 DEF DeniedOrExpired, HandshakeAborted, SocketEnds, Ends, NoSocket
<1> QED
  BY <1>2, <1>3, <1>4, <1>5, <1>6, <1>7, <1>8 DEF SocketStep, HandshakeStep

\* Only a frame makes a socket busy, and only a decision ends its wait.
LEMMA NoOtherTurn ==
  ASSUME GrantsInv, [Next]_vars, NEW u \in Socket, Turns(sock[u], sock'[u])
  PROVE  Frame(u) \/ DecisionReceived(u)
<1>1. sock \in [Socket -> SocketState]
  BY DEF GrantsInv, SockInv
<1>2. sock'[u].pc # sock[u].pc /\ sock'[u].pc # "none"
  BY DEF Turns
<1>3. CASE \E s \in Socket : SocketStep(s)
  BY <1>1, <1>2, <1>3, OthersStay, OwnTurn
<1>4. ASSUME NEW t \in Tab, TabStep(t) PROVE FALSE
  <2>1. CASE closeSocketsBoundTo(t)
    <3>1. sock'[u] = NoSocket \/ sock'[u] = sock[u]
      BY <2>1 DEF closeSocketsBoundTo
    <3> QED
      BY <1>2, <3>1 DEF NoSocket
  <2>2. CASE \E s \in Socket, C \in SUBSET Cap : Approve(t, s, C)
    BY <1>1, <1>2, <2>2 DEF Approve, SocketState
  <2>3. CASE \E s \in Socket : Deny(t, s)
    BY <1>1, <1>2, <2>3 DEF Deny, SocketState
  <2>4. CASE \/ \E i \in Id, C \in SUBSET Cap : updateGrant(t, i, C)
             \/ \E d \in SUBSET Cap : updateGrantWrite(t, d)
             \/ \E i \in Id : revokeGrant(t, i)
             \/ \E a \in App, C \in SUBSET Cap : preapprovePermissions(t, a, C)
    BY <1>2, <2>4 DEF updateGrant, updateGrantWrite, revokeGrant, preapprovePermissions
  <2> QED
    BY <1>4, <2>1, <2>2, <2>3, <2>4 DEF TabStep
<1>5. CASE \E w \in Writer : SaveConfig(w) \/ SaveConfigFails(w)
  BY <1>2, <1>5 DEF SaveConfig, SaveConfigFails
<1>6. CASE \E a \in App : PreApprovalExpires(a)
  BY <1>2, <1>6 DEF PreApprovalExpires
<1>7. CASE SyncStep
  BY <1>2, <1>7 DEF SyncStep, syncBrowserIdentitiesOnce, runRelay
<1>8. CASE Restart
  BY <1>2, <1>8 DEF Restart, NoSocket
<1>9. CASE UNCHANGED vars
  BY <1>2, <1>9 DEF vars
<1> QED
  BY <1>3, <1>4, <1>5, <1>6, <1>7, <1>8, <1>9 DEF Next

\* A frame finds a grant that equals the one the socket was admitted with.
LEMMA FrameHasGrant ==
  ASSUME GrantsInv, NEW s \in Socket, Frame(s)
  PROVE  \E i \in Bound(s) : sock[s].auth.caps \subseteq grants[i].caps
<1>1. sock[s].auth.caps \subseteq sock[s].auth.stored
  BY DEF GrantsInv, SockInv, SocketSound
<1> QED
  BY <1>1 DEF Frame, hasBrowserIdentity

\* Hence what frames and decisions do.
LEMMA Followed == GrantsInv /\ [Next]_vars => FramesWithinGrant /\ DecisionApplied
<1> SUFFICES ASSUME GrantsInv, [Next]_vars PROVE FramesWithinGrant /\ DecisionApplied
  OBVIOUS
<1>1. ASSUME NEW s \in Socket, sock[s].pc = "live", sock'[s].pc = "busy"
      PROVE  \E i \in Bound(s) : sock[s].auth.caps \subseteq grants[i].caps
  <2>1. Turns(sock[s], sock'[s])
    BY <1>1 DEF Turns
  <2>2. Frame(s) \/ DecisionReceived(s)
    BY <2>1, NoOtherTurn
  <2>3. ~DecisionReceived(s)
    BY <1>1 DEF DecisionReceived
  <2> QED
    BY <2>2, <2>3, FrameHasGrant
<1>2. ASSUME NEW s \in Socket, sock[s].pc = "wait", sock'[s].pc = "authed"
      PROVE  /\ sock[s].decision.answer = "approved"
             /\ grants'[<<sock[s].key, sock[s].app>>].caps = sock[s].decision.caps
             /\ sock[s].decision.caps \subseteq sock[s].decl
  <2>1. Turns(sock[s], sock'[s])
    BY <1>2 DEF Turns
  <2>2. Frame(s) \/ DecisionReceived(s)
    BY <2>1, NoOtherTurn
  <2>3. DecisionReceived(s)
    BY <1>2, <2>2 DEF Frame
  <2>4. sock[s].decision.answer = "approved"
    BY <2>3 DEF DecisionReceived
  <2> QED
    BY <2>3, <2>4, DecidedKeeps
<1> QED
  BY <1>1, <1>2 DEF FramesWithinGrant, DecisionApplied

\* A frame is handled only while a grant of the socket's identity allows it, so
\* that an update or a revocation takes effect at the next frame at the latest;
\* and a pairing that waited stores exactly what was decided about it.
THEOREM DecisionsTakeEffect == Spec => DecisionsFollowed
<1>1. Init /\ [][Next]_vars => []GrantsInv
  BY GrantsInit, GrantsStep, PTL
<1>2. GrantsInv /\ [Next]_vars => [FramesWithinGrant /\ DecisionApplied]_vars
  BY Followed
<1> QED
  BY <1>1, <1>2, PTL DEF Spec, DecisionsFollowed
=============================================================================
