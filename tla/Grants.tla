------------------------------- MODULE Grants -------------------------------
(***************************************************************************)
(* Browser identities and the capabilities granted to them                 *)
(* (shellagent/browser_identity.go, shellagent/permissions.go): the direct *)
(* handshake and pairing of app sockets, the authority's decisions,        *)
(* updates, revocations and pre-approvals, identity synchronisation with   *)
(* Dyner, the config file and a restart of the agent.                      *)
(*                                                                         *)
(* The code selects identities by origin first, so the model has one       *)
(* origin; an identity is a browser key with a store id, or with AnyApp    *)
(* (StoreID "") when it comes from Dyner.  The list's order is left out:   *)
(* where the code takes the first or the latest match, any match may be    *)
(* it.  Capabilities are members of Cap; permissions.manage, which only    *)
(* the authority's own identity holds, is not one of them: the authority   *)
(* appears as the sessions in Tab that call the permissions RPC.  A        *)
(* grant's `local` is ApprovedAt > 0.                                      *)
(***************************************************************************)
EXTENDS Naturals, FiniteSets

CONSTANTS
  Key, App, Cap,
  Socket,      \* app sockets, in the direct handshake or live
  Tab,         \* authority sessions: each handles one RPC at a time
  MaxPending,  \* 32 in registerPending
  MaxDecisions, MaxSyncs, MaxRestarts, MaxFaults  \* bounds on the environment

ASSUME PendingAssumption == MaxPending \in Nat
ASSUME BoundAssumption ==
  MaxDecisions \in Nat /\ MaxSyncs \in Nat /\ MaxRestarts \in Nat /\ MaxFaults \in Nat

AnyApp == "any app"
Store == App \cup {AnyApp}
Id == Key \X Store
NoKey == "no key"
NoId == <<>>
Grant == [caps : SUBSET Cap, declared : SUBSET Cap, local : BOOLEAN]
NoGrant == [caps |-> {}, declared |-> {}, local |-> FALSE, none |-> TRUE]
Grants == [Id -> Grant \cup {NoGrant}]
NoSet == {{}}         \* absent, as opposed to an empty set of capabilities

\* The goroutines that write the config file.
SyncLoop == "sync loop"
RelayLoop == "relay loop"
Writer == Socket \cup Tab \cup {SyncLoop, RelayLoop}
NotSaving == <<>>

VARIABLES
  grants,       \* Config.BrowserIdentities
  disk,         \* config.json
  saving,       \* snapshot a writer is about to hand to SaveConfig
  shared,       \* writers whose snapshot may share its array with the live list
  preapproved,  \* permissionsState.preapproved
  sock,         \* an app socket: handshake, socketAuthentication, pendingRequest
  tab,          \* the permissions RPC of an authority session
  decided,      \* history: capabilities ever granted to a store id, or by Dyner to AnyApp
  revoked,      \* history: identities revoked since the last decision about them
  left          \* what is left of the environment's bounds

listVars == <<grants, saving, shared>>
ghosts == <<decided, revoked>>
vars == <<grants, disk, saving, shared, preapproved, sock, tab, decided, revoked, left>>

NoAuth == [caps |-> {}, stored |-> {}, store |-> AnyApp]
Open == [answer |-> "open", caps |-> {}]

\* id and held: the identity value that the handshake took from the list.
NoSocket == [pc |-> "none", key |-> NoKey, app |-> AnyApp, id |-> NoId, held |-> NoGrant,
             decl |-> {}, decision |-> Open, auth |-> NoAuth]
Idle == [pc |-> "idle", id |-> NoId, want |-> {}, held |-> NoGrant]

SocketState ==
  [pc : {"none", "sync", "resolve", "pair", "wait", "authed", "live", "busy"},
   key : Key \cup {NoKey}, app : Store, id : Id \cup {NoId}, held : Grant \cup {NoGrant},
   decl : SUBSET Cap,
   decision : [answer : {"open", "approved", "denied"}, caps : SUBSET Cap],
   auth : [caps : SUBSET Cap, stored : SUBSET Cap, store : Store]]

TypeOK ==
  /\ grants \in Grants /\ disk \in Grants
  /\ saving \in [Writer -> Grants \cup {NotSaving}] /\ shared \subseteq Writer
  /\ preapproved \in [App -> (SUBSET Cap) \cup {NoSet}]
  /\ sock \in [Socket -> SocketState]
  /\ tab \in [Tab -> [pc : {"idle", "ceiling", "close"}, id : Id \cup {NoId},
                      want : SUBSET Cap, held : Grant \cup {NoGrant}]]
  /\ decided \in [Store -> SUBSET Cap] /\ revoked \subseteq Id
  /\ left \in [decisions : 0 .. MaxDecisions, syncs : 0 .. MaxSyncs,
               restarts : 0 .. MaxRestarts, faults : 0 .. MaxFaults]

Init ==
  /\ grants = [i \in Id |-> NoGrant] /\ disk = grants
  /\ saving = [w \in Writer |-> NotSaving] /\ shared = {}
  /\ preapproved = [a \in App |-> NoSet]
  /\ sock = [s \in Socket |-> NoSocket]
  /\ tab = [t \in Tab |-> Idle]
  /\ decided = [a \in Store |-> {}] /\ revoked = {}
  /\ left = [decisions |-> MaxDecisions, syncs |-> MaxSyncs,
             restarts |-> MaxRestarts, faults |-> MaxFaults]

Spend(what) == left[what] > 0 /\ left' = [left EXCEPT ![what] = @ - 1]

-----------------------------------------------------------------------------
(* The identity list *)

Has(i) == grants[i] # NoGrant

\* upsertBrowserIdentity: replace in place or append under s.mu, then save.
upsertBrowserIdentity(w, i, g) ==
  /\ grants' = [grants EXCEPT ![i] = g]
  /\ saving' = [saving EXCEPT ![w] = grants']
  /\ shared' = shared \cup {w}

\* A writer installs a new list under s.mu, then saves.
Install(w, list) ==
  /\ grants' = list
  /\ saving' = [saving EXCEPT ![w] = list]
  /\ shared' = {w}

\* mergeSyncedIdentities: locally approved identities stay, the others are
\* replaced by the fresh list; normalizing keeps the first of a duplicate.
mergeSyncedIdentities(fresh) ==
  [i \in Id |-> IF Has(i) /\ grants[i].local THEN grants[i] ELSE fresh[i]]

\* What Dyner may answer: identities of the keys K, without a store id, with
\* the capabilities C that were decided there.
Fresh(K, C) ==
  [i \in Id |-> IF i \in K \X {AnyApp} THEN [caps |-> C, declared |-> {}, local |-> FALSE]
                ELSE NoGrant]

\* A decision that grants the identities F of store id a the capabilities C.
Decide(a, F, C) ==
  /\ decided' = [decided EXCEPT ![a] = @ \cup C]
  /\ revoked' = revoked \ F
DynerDecides(K, C) == Decide(AnyApp, K \X {AnyApp}, C)

\* SaveConfig runs after s.mu is released.  The snapshot may share its backing
\* array with the live list, so that a record replaced in place meanwhile is
\* written in either form.
SaveConfig(w) ==
  /\ saving[w] # NotSaving
  /\ \E R \in SUBSET {i \in Id : w \in shared /\ saving[w][i] # NoGrant /\ Has(i)} :
       disk' = [i \in Id |-> IF i \in R THEN grants[i] ELSE saving[w][i]]
  /\ saving' = [saving EXCEPT ![w] = NotSaving] /\ shared' = shared \ {w}
  /\ UNCHANGED <<grants, preapproved, sock, tab, ghosts, left>>

\* The write fails; callers ignore the error.
SaveConfigFails(w) ==
  /\ saving[w] # NotSaving /\ Spend("faults")
  /\ saving' = [saving EXCEPT ![w] = NotSaving] /\ shared' = shared \ {w}
  /\ UNCHANGED <<grants, disk, preapproved, sock, tab, ghosts>>

-----------------------------------------------------------------------------
(* authenticateDirectLocal, on socket s *)

Ends(s) == sock' = [sock EXCEPT ![s] = NoSocket]

\* matchDirectLocalIdentity: an identity of the key, for the app that the
\* browser names, for any app, or for whatever app if it names none.
matchDirectLocalIdentity(list, k, a) ==
  {i \in Id : i[1] = k /\ list[i] # NoGrant /\ (i[2] \in {AnyApp, a} \/ a = AnyApp)}

\* The socket of key k and app a goes on with a match in the list, or to next.
MatchOr(s, list, k, a, next) ==
  LET found == matchDirectLocalIdentity(list, k, a)
      state == [NoSocket EXCEPT !.key = k, !.app = a] IN
  \/ /\ found # {}
     /\ \E i \in found :
          sock' = [sock EXCEPT ![s] = [state EXCEPT !.pc = "resolve", !.id = i, !.held = list[i]]]
  \/ /\ found = {}
     /\ sock' = [sock EXCEPT ![s] = [state EXCEPT !.pc = next]]

\* The proof is verified against a copy of the identity list.
Prove(s, k, a) ==
  /\ sock[s].pc = "none"
  /\ MatchOr(s, grants, k, a, "sync")
  /\ UNCHANGED <<listVars, disk, preapproved, tab, ghosts, left>>

\* Unknown key: Dyner is asked first; the merged list is not saved here.
SyncForKey(s, K, C) ==
  /\ sock[s].pc = "sync" /\ Spend("syncs")
  /\ grants' = mergeSyncedIdentities(Fresh(K, C)) /\ shared' = {}
  /\ MatchOr(s, grants', sock[s].key, sock[s].app, "pair")
  /\ DynerDecides(K, C)
  /\ UNCHANGED <<disk, saving, preapproved, tab>>

SyncForKeyFails(s) ==
  /\ sock[s].pc = "sync"
  /\ sock' = [sock EXCEPT ![s].pc = "pair"]
  /\ UNCHANGED <<listVars, disk, preapproved, tab, ghosts, left>>

\* authForIdentity: the stored grant, and what of it the manifest declares.
authForIdentity(i, g, app, declared) ==
  [caps |-> g.caps \cap declared, stored |-> g.caps, store |-> IF i[2] = AnyApp THEN app ELSE i[2]]

\* The handshake succeeds with identity i and grant g.
Enter(s, i, g, app, declared) ==
  sock' = [sock EXCEPT ![s] = [NoSocket EXCEPT !.pc = "authed", !.key = i[1],
                                 !.auth = authForIdentity(i, g, app, declared)]]

StoreAndEnter(s, i, g, app, declared) ==
  upsertBrowserIdentity(s, i, g) /\ Enter(s, i, g, app, declared)

consumePreApproval(a) == preapproved' = [preapproved EXCEPT ![a] = NoSet]

\* A launch that the authority decided in advance, for manifest d.
PreApprovedGrant(a, d) == [caps |-> preapproved[a] \cap d, declared |-> d, local |-> TRUE]

\* continuePairedIdentity, once resolveApp has returned the manifest d.  The
\* identity written back is the copy taken before that call.
continuePairedIdentity(s, d, clientChanged) ==
  LET a == sock[s].app  k == sock[s].key  g == sock[s].held IN
  /\ sock[s].pc = "resolve" /\ a # AnyApp
  /\ \/ /\ preapproved[a] # NoSet
        /\ StoreAndEnter(s, IF sock[s].id[2] = AnyApp THEN <<k, a>> ELSE sock[s].id,
                         PreApprovedGrant(a, d), a, d)
        /\ consumePreApproval(a)
     \/ /\ preapproved[a] = NoSet /\ (clientChanged \/ ~(d \subseteq g.declared))
        /\ StoreAndEnter(s, sock[s].id, [g EXCEPT !.declared = @ \cup d], a, d)
        /\ UNCHANGED preapproved
     \/ /\ preapproved[a] = NoSet /\ ~clientChanged /\ d \subseteq g.declared
        /\ Enter(s, sock[s].id, g, a, d)
        /\ UNCHANGED <<listVars, preapproved>>
  /\ UNCHANGED <<disk, tab, ghosts, left>>

\* No app is named, or its manifest cannot be resolved: the saved grant
\* applies as it is.
continueUnresolved(s, clientChanged) ==
  /\ sock[s].pc = "resolve"
  /\ IF clientChanged
     THEN StoreAndEnter(s, sock[s].id, sock[s].held, AnyApp, Cap)
     ELSE Enter(s, sock[s].id, sock[s].held, AnyApp, Cap) /\ UNCHANGED listVars
  /\ UNCHANGED <<disk, preapproved, tab, ghosts, left>>

-----------------------------------------------------------------------------
(* pairUnknownIdentity, on socket s *)

Waiting == {s \in Socket : sock[s].pc = "wait"}

\* findApprovedAppGrant: a locally approved grant of another key for this app,
\* or else a grant that is not bound to an app.
findApprovedAppGrant(a) ==
  LET own == {j \in Id : j[2] = a /\ Has(j) /\ grants[j].local} IN
  IF own # {} THEN own ELSE {j \in Id : j[2] = AnyApp /\ Has(j) /\ grants[j].caps # {}}

\* Mutant: a new key is granted what the app declares.
pairWithDeclared(s, d) ==
  LET a == sock[s].app IN
  /\ sock[s].pc = "pair" /\ a # AnyApp
  /\ StoreAndEnter(s, <<sock[s].key, a>>, [caps |-> d, declared |-> d, local |-> TRUE], a, d)
  /\ UNCHANGED <<disk, preapproved, tab, ghosts, left>>

\* Once resolveApp has returned the manifest d.
pairUnknownIdentity(s, d) ==
  LET a == sock[s].app  i == <<sock[s].key, a>> IN
  /\ sock[s].pc = "pair" /\ a # AnyApp
  /\ \/ /\ preapproved[a] # NoSet
        /\ StoreAndEnter(s, i, PreApprovedGrant(a, d), a, d)
        /\ consumePreApproval(a)
     \/ /\ preapproved[a] = NoSet
        /\ \E j \in findApprovedAppGrant(a) :
             StoreAndEnter(s, i, [caps |-> grants[j].caps \cap d,
                                  declared |-> grants[j].declared \cup d, local |-> TRUE], a, d)
        /\ UNCHANGED preapproved
     \/ /\ preapproved[a] = NoSet /\ findApprovedAppGrant(a) = {}
        /\ Cardinality(Waiting) < MaxPending
        /\ sock' = [sock EXCEPT ![s].pc = "wait", ![s].decl = d]
        /\ UNCHANGED <<listVars, preapproved>>
  /\ UNCHANGED <<disk, tab, ghosts, left>>

\* Mutant: the pairing stores what was asked for, not what was decided.
DecisionIgnored(s) ==
  LET a == sock[s].app IN
  /\ sock[s].pc = "wait" /\ sock[s].decision.answer = "approved"
  /\ StoreAndEnter(s, <<sock[s].key, a>>,
                   [caps |-> sock[s].decl, declared |-> sock[s].decl, local |-> TRUE], a, sock[s].decl)
  /\ UNCHANGED <<disk, preapproved, tab, ghosts, left>>

\* awaitDecision receives an approval.
DecisionReceived(s) ==
  LET a == sock[s].app IN
  /\ sock[s].pc = "wait" /\ sock[s].decision.answer = "approved"
  /\ StoreAndEnter(s, <<sock[s].key, a>>,
                   [caps |-> sock[s].decision.caps \cap sock[s].decl,
                    declared |-> sock[s].decl, local |-> TRUE], a, sock[s].decl)
  /\ UNCHANGED <<disk, preapproved, tab, ghosts, left>>

\* Mutant: a wait without a timer ends only when the authority denies.
DeniedOnly(s) ==
  /\ sock[s].pc = "wait" /\ sock[s].decision.answer = "denied"
  /\ Ends(s)
  /\ UNCHANGED <<listVars, disk, preapproved, tab, ghosts, left>>

\* awaitDecision receives a denial, or the ten minutes are over.  select may
\* prefer the timer to a decision that has already been sent.
DeniedOrExpired(s) ==
  /\ sock[s].pc = "wait"
  /\ Ends(s)
  /\ UNCHANGED <<listVars, disk, preapproved, tab, ghosts, left>>

\* A pairing without an app or a manifest, or with 32 requests pending.
PairingRejected(s) ==
  /\ sock[s].pc = "pair"
  /\ Ends(s)
  /\ UNCHANGED <<listVars, disk, preapproved, tab, ghosts, left>>

\* The connection is lost during the handshake.
HandshakeAborted(s) ==
  /\ sock[s].pc \in {"sync", "resolve", "pair", "wait"}
  /\ Ends(s)
  /\ UNCHANGED <<listVars, disk, preapproved, tab, ghosts, left>>

\* trackLiveSocket, after upsertBrowserIdentity has saved.
trackLiveSocket(s) ==
  /\ sock[s].pc = "authed" /\ saving[s] = NotSaving
  /\ sock' = [sock EXCEPT ![s].pc = "live"]
  /\ UNCHANGED <<listVars, disk, preapproved, tab, ghosts, left>>

-----------------------------------------------------------------------------
(* The frame loop of a live socket *)

\* The identities whose grant a socket runs under.
Bound(s) == {i \in Id : i[1] = sock[s].key /\ i[2] \in {AnyApp, sock[s].auth.store} /\ Has(i)}

\* Mutant: the identity only has to be there still.
hasSomeIdentity(s) == Bound(s) # {}

hasBrowserIdentity(s) == \E i \in Bound(s) : grants[i].caps = sock[s].auth.stored

\* A frame is handled under the socket's capabilities ...
Frame(s) ==
  /\ sock[s].pc = "live" /\ hasBrowserIdentity(s)
  /\ sock' = [sock EXCEPT ![s].pc = "busy"]
  /\ UNCHANGED <<listVars, disk, preapproved, tab, ghosts, left>>

FrameDone(s) ==
  /\ sock[s].pc = "busy"
  /\ sock' = [sock EXCEPT ![s].pc = "live"]
  /\ UNCHANGED <<listVars, disk, preapproved, tab, ghosts, left>>

\* ... or finds the grant changed and closes the socket; or the browser goes.
SocketEnds(s) ==
  /\ sock[s].pc = "live"
  /\ Ends(s)
  /\ UNCHANGED <<listVars, disk, preapproved, tab, ghosts, left>>

-----------------------------------------------------------------------------
(* The permissions RPC of an authority session t *)

\* updateGrant: find the identity, then ask for the current manifest.
updateGrant(t, i, C) ==
  /\ tab[t].pc = "idle" /\ Has(i) /\ Spend("decisions")
  /\ tab' = [tab EXCEPT ![t] = [pc |-> "ceiling", id |-> i, want |-> C, held |-> grants[i]]]
  /\ UNCHANGED <<listVars, disk, preapproved, sock, ghosts>>

\* Mutant: the sentinel of "no manifest" is stored as a declaration.
updateGrantUntyped(t, d) ==
  /\ tab[t].pc = "ceiling"
  /\ upsertBrowserIdentity(t, tab[t].id, [caps |-> tab[t].want, declared |-> NoSet, local |-> TRUE])
  /\ Decide(tab[t].id[2], {tab[t].id}, tab[t].want)
  /\ tab' = [tab EXCEPT ![t] = [Idle EXCEPT !.pc = "close", !.id = tab[t].id]]
  /\ UNCHANGED <<disk, preapproved, sock, left>>

\* The grant is clamped to the reviewed and the current declaration (d is
\* empty when there is no manifest to resolve) and written back.
updateGrantWrite(t, d) ==
  /\ tab[t].pc = "ceiling" /\ (tab[t].id[2] = AnyApp => d = {})
  /\ LET ceiling == tab[t].held.declared \cup d
         caps == IF ceiling = {} THEN tab[t].want ELSE tab[t].want \cap ceiling
     IN /\ upsertBrowserIdentity(t, tab[t].id,
                                 [caps |-> caps, declared |-> ceiling \cup caps, local |-> TRUE])
        /\ Decide(tab[t].id[2], {tab[t].id}, caps)
  /\ tab' = [tab EXCEPT ![t] = [Idle EXCEPT !.pc = "close", !.id = tab[t].id]]
  /\ UNCHANGED <<disk, preapproved, sock, left>>

\* A decision in favour of i that has not been used yet.
Renewed(i) ==
  \/ i[2] \in App /\ preapproved[i[2]] # NoSet
  \/ \E s \in Waiting : <<sock[s].key, sock[s].app>> = i /\ sock[s].decision.answer = "approved"

\* revokeGrant removes the identity from the list and saves.
revokeGrant(t, i) ==
  /\ tab[t].pc = "idle" /\ Has(i) /\ Spend("decisions")
  /\ Install(t, [grants EXCEPT ![i] = NoGrant])
  /\ tab' = [tab EXCEPT ![t] = [Idle EXCEPT !.pc = "close", !.id = i]]
  /\ revoked' = IF Renewed(i) THEN revoked ELSE revoked \cup {i}
  /\ UNCHANGED <<disk, preapproved, sock, decided>>

\* closeSocketsBoundTo: every tracked socket of the identity is closed.
closeSocketsBoundTo(t) ==
  /\ tab[t].pc = "close" /\ saving[t] = NotSaving
  /\ sock' = [s \in Socket |->
       IF /\ sock[s].pc \in {"live", "busy"} /\ sock[s].key = tab[t].id[1]
          /\ tab[t].id[2] \in {AnyApp, sock[s].auth.store}
       THEN NoSocket ELSE sock[s]]
  /\ tab' = [tab EXCEPT ![t] = Idle]
  /\ UNCHANGED <<listVars, disk, preapproved, ghosts, left>>

\* decidePermissions: clamp to what the request declared, answer once.
Approve(t, s, C) ==
  /\ tab[t].pc = "idle" /\ sock[s].pc = "wait" /\ sock[s].decision = Open /\ Spend("decisions")
  /\ LET granted == C \cap sock[s].decl IN
     /\ sock' = [sock EXCEPT ![s].decision = [answer |-> "approved", caps |-> granted]]
     /\ Decide(sock[s].app, {<<sock[s].key, sock[s].app>>}, granted)
  /\ UNCHANGED <<listVars, disk, preapproved, tab>>

Deny(t, s) ==
  /\ tab[t].pc = "idle" /\ sock[s].pc = "wait" /\ sock[s].decision = Open /\ Spend("decisions")
  /\ sock' = [sock EXCEPT ![s].decision.answer = "denied"]
  /\ UNCHANGED <<listVars, disk, preapproved, tab, ghosts>>

preapprovePermissions(t, a, C) ==
  /\ tab[t].pc = "idle" /\ Spend("decisions")
  /\ preapproved' = [preapproved EXCEPT ![a] = C]
  /\ Decide(a, {i \in Id : i[2] = a}, C)
  /\ UNCHANGED <<listVars, disk, sock, tab>>

\* The pre-approval's lifetime ends.
PreApprovalExpires(a) ==
  /\ preapproved[a] # NoSet
  /\ consumePreApproval(a)
  /\ UNCHANGED <<listVars, disk, sock, tab, ghosts, left>>

-----------------------------------------------------------------------------
(* Synchronisation with Dyner, and the process *)

\* syncBrowserIdentitiesOnce, every five seconds.
syncBrowserIdentitiesOnce(K, C) ==
  /\ saving[SyncLoop] = NotSaving /\ Spend("syncs")
  /\ Install(SyncLoop, mergeSyncedIdentities(Fresh(K, C)))
  /\ DynerDecides(K, C)
  /\ UNCHANGED <<disk, preapproved, sock, tab>>

\* runRelay: the identities of a relay ticket replace the whole list.
runRelay(K, C) ==
  /\ saving[RelayLoop] = NotSaving /\ Spend("syncs")
  /\ Install(RelayLoop, Fresh(K, C))
  /\ DynerDecides(K, C)
  /\ UNCHANGED <<disk, preapproved, sock, tab>>

\* The agent stops or crashes and starts again from config.json.
Restart ==
  /\ Spend("restarts")
  /\ grants' = disk
  /\ saving' = [w \in Writer |-> NotSaving] /\ shared' = {}
  /\ preapproved' = [a \in App |-> NoSet]
  /\ sock' = [s \in Socket |-> NoSocket]
  /\ tab' = [t \in Tab |-> Idle]
  /\ UNCHANGED <<disk, ghosts>>

-----------------------------------------------------------------------------
\* What the agent does for a socket once the browser has sent its proof.
HandshakeStep(s) ==
  \/ \E K \in SUBSET Key, C \in SUBSET Cap : SyncForKey(s, K, C)
  \/ SyncForKeyFails(s)
  \/ \E d \in SUBSET Cap, changed \in BOOLEAN : continuePairedIdentity(s, d, changed)
  \/ \E changed \in BOOLEAN : continueUnresolved(s, changed)
  \/ \E d \in SUBSET Cap : pairUnknownIdentity(s, d)
  \/ PairingRejected(s)
  \/ DecisionReceived(s) \/ DeniedOrExpired(s)
  \/ trackLiveSocket(s)

SocketStep(s) ==
  \/ \E k \in Key, a \in Store : Prove(s, k, a)
  \/ HandshakeStep(s)
  \/ HandshakeAborted(s)
  \/ Frame(s) \/ FrameDone(s) \/ SocketEnds(s)

TabStep(t) ==
  \/ \E i \in Id, C \in SUBSET Cap : updateGrant(t, i, C)
  \/ \E d \in SUBSET Cap : updateGrantWrite(t, d)
  \/ \E i \in Id : revokeGrant(t, i)
  \/ closeSocketsBoundTo(t)
  \/ \E s \in Socket, C \in SUBSET Cap : Approve(t, s, C)
  \/ \E s \in Socket : Deny(t, s)
  \/ \E a \in App, C \in SUBSET Cap : preapprovePermissions(t, a, C)

SyncStep ==
  \E K \in SUBSET Key, C \in SUBSET Cap : syncBrowserIdentitiesOnce(K, C) \/ runRelay(K, C)

Next ==
  \/ \E s \in Socket : SocketStep(s)
  \/ \E t \in Tab : TabStep(t)
  \/ \E w \in Writer : SaveConfig(w) \/ SaveConfigFails(w)
  \/ \E a \in App : PreApprovalExpires(a)
  \/ SyncStep
  \/ Restart

(***************************************************************************)
(* Fairness: once the browser has sent its proof the agent goes on.  Its   *)
(* requests to Dyner return within their timeouts, the ten-minute timer of *)
(* a pending request fires and a save ends.  Browsers, the authority and   *)
(* Dyner owe nothing.                                                      *)
(***************************************************************************)
Fairness ==
  /\ \A s \in Socket : WF_vars(HandshakeStep(s))
  /\ \A w \in Writer : WF_vars(SaveConfig(w))

Spec == Init /\ [][Next]_vars /\ Fairness

-----------------------------------------------------------------------------
(* Properties *)

\* "The app cannot approve itself" (browser_identity.go:233-236): whatever
\* handshakes, reuse of another key's grant, stale writes and restarts come
\* together, no stored grant and no socket holds a capability that neither
\* the authority decided for that app nor Dyner for that browser.
DecidedFor(a) == decided[a] \cup decided[AnyApp]
NoSelfApproval ==
  /\ \A i \in Id : grants[i].caps \cup disk[i].caps \subseteq DecidedFor(i[2])
  /\ \A s \in Socket : sock[s].auth.caps \subseteq DecidedFor(sock[s].auth.store)

\* Types, and no grant beyond the decisions.
GrantsSafe == TypeOK /\ NoSelfApproval

\* A frame is handled only under capabilities that a saved grant of the
\* socket's identity holds at that moment: an update or a revocation takes
\* effect at the next frame even for a socket that was still in its handshake
\* when closeSocketsBoundTo looked (agent.go:664-667).
FramesWithinGrant ==
  \A s \in Socket : sock[s].pc = "live" /\ sock'[s].pc = "busy" =>
    \E i \in Bound(s) : sock[s].auth.caps \subseteq grants[i].caps

\* A decision is applied to the request it was made for: a pairing that comes
\* out of "wait" stores exactly what was decided, within what it declared
\* (permissions.go:409-429, browser_identity.go:247-258).
DecisionApplied ==
  \A s \in Socket : sock[s].pc = "wait" /\ sock'[s].pc = "authed" =>
    /\ sock[s].decision.answer = "approved"
    /\ grants'[<<sock[s].key, sock[s].app>>].caps = sock[s].decision.caps
    /\ sock[s].decision.caps \subseteq sock[s].decl

\* What was decided is what is stored and what frames run under.
DecisionsFollowed == [][FramesWithinGrant /\ DecisionApplied]_vars

\* Every handshake whose proof has been sent ends: admitted or refused, never
\* waiting for ever on the authority, on Dyner or on the config file.
HandshakeTerminates ==
  \A s \in Socket : sock[s].pc \in {"sync", "resolve", "pair", "wait", "authed"}
                      ~> sock[s].pc \in {"none", "live"}

\* Violated.  A revoked identity has no grant until somebody decides about it
\* again: "reconnect after revoke" finds a pending request
\* (handshake_test.go:402-404).
RevokedStaysRevoked == \A i \in revoked : ~Has(i)
=============================================================================
