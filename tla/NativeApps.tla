----------------------------- MODULE NativeApps -----------------------------
(***************************************************************************)
(* The grant of a natively installed app (shellagent/native_apps.go,       *)
(* native_host.go).  One app is modelled: its record in the configuration, *)
(* the permission prompt that its connections share, its page connections, *)
(* the review that its menu starts, and Dyner's install, uninstall, update *)
(* and revoke.  Handlers that ask the network or the user between reading  *)
(* the record and writing it keep what they read.                          *)
(***************************************************************************)
EXTENDS Naturals, FiniteSets

CONSTANTS
  Page,         \* page connections of the app
  Perm,         \* permissions that a manifest declares
  Manage,       \* permissions.manage
  MaxRevisions, \* manifests that are published after the first
  MaxGrantEdits      \* installs, updates and reviews in progress at once

ASSUME NativeAssumption == Manage \in Perm /\ MaxRevisions \in Nat /\ MaxGrantEdits \in Nat

VARIABLES
  catalog,    \* the app is the Dyner catalog: its record has Authority
  app,        \* its NativeApp record, or NoApp
  manifest,   \* the permissions that the published manifest declares
  manifests,  \* manifests published so far
  ask,        \* nativeAsks: the undecided prompt, or NoAsk
  page,       \* the page connections
  edit        \* records that install, update and review are about to write

nativeVars == <<catalog, app, manifest, manifests, ask, page, edit>>

NoApp == [caps |-> {}, declared |-> {}, approved |-> FALSE, installed |-> FALSE]
Apps == [caps : SUBSET Perm, declared : SUBSET Perm, approved : BOOLEAN, installed : {TRUE}]
NoAsk == [kind |-> "none"]
Kinds == {"pairing", "delta"}
Editors == {"install", "update", "review"}
NoEdit == [open |-> FALSE]

\* The states of a page connection: authorizeNativeApp with the record that it
\* read, the prompt, the decision, and the connection with its authentication.
ClosedPage == [pc |-> "closed"]
Pages ==
  {ClosedPage} \cup [pc : {"resolve"}, read : Apps]
    \cup [pc : {"ask"}, read : Apps, kind : Kinds, mine : SUBSET Perm, declared : SUBSET Perm]
    \cup [pc : {"decided"}, read : Apps, kind : Kinds, mine : SUBSET Perm,
          declared : SUBSET Perm, decided : BOOLEAN, granted : SUBSET Perm]
    \cup [pc : {"live"}, bound : BOOLEAN, stored : SUBSET Perm, effective : SUBSET Perm]

\* Types of the record, the prompt, the connections and the pending writes.
NativeTypeOK ==
  /\ catalog \in BOOLEAN /\ app \in Apps \cup {NoApp}
  /\ manifest \subseteq Perm /\ manifests \in 0 .. MaxRevisions
  /\ ask \in {NoAsk} \cup [kind : Kinds, set : SUBSET Perm]
  /\ page \in [Page -> Pages]
  /\ edit \in [Editors -> {NoEdit} \cup [open : {TRUE}, new : Apps, close : BOOLEAN]]

NativeInit ==
  /\ catalog \in BOOLEAN /\ app = NoApp /\ manifest \in SUBSET Perm /\ manifests = 0
  /\ ask = NoAsk /\ page = [c \in Page |-> ClosedPage]
  /\ edit = [e \in Editors |-> NoEdit]

-----------------------------------------------------------------------------
(* Records and authentications *)

\* Mutant: a manifest that declares permissions.manage is granted it.
UnmanagedKeeping(S) == S

\* subtractStrings(S, permissionsManage), where the app is not the catalog.
Unmanaged(S) == S \ {Manage}

ManagedSet(S) == IF catalog THEN S \cup {Manage} ELSE Unmanaged(S)

\* authForNative: with the current manifest, or with the stored one offline.
Effective(r, declared) ==
  LET d == IF catalog THEN declared \cup {Manage} ELSE declared IN
  IF catalog THEN (r.caps \cap d) \cup {Manage} ELSE (r.caps \cap d) \ {Manage}

Live(r, declared) ==
  [pc |-> "live", bound |-> r.installed, stored |-> r.caps,
   effective |-> Effective(r, declared)]

\* closeNativeSockets: the connections that are already tracked.
Dropped(p) == [c \in Page |-> IF p[c].pc = "live" THEN ClosedPage ELSE p[c]]

\* Mutant: any connection of an installed app passes.
HasGrantInstalled(c) == page[c].bound /\ app.installed

\* hasNativeGrant, which every frame of a connection is checked with.
HasGrant(c) == page[c].bound /\ app.installed /\ app.caps = page[c].stored

-----------------------------------------------------------------------------
(* Dyner: install, uninstall, update and revoke; the published manifest *)

PublishRevision ==
  /\ manifests < MaxRevisions /\ manifests' = manifests + 1
  /\ manifest' \in SUBSET Perm
  /\ UNCHANGED <<catalog, app, ask, page, edit>>

Stage(e, new, close) ==
  /\ ~edit[e].open /\ Cardinality({x \in Editors : edit[x].open}) < MaxGrantEdits
  /\ edit' = [edit EXCEPT ![e] = [open |-> TRUE, new |-> new, close |-> close]]

\* installNativeApp: the manifest is read, then the app is built.
InstallBegin(requested) ==
  LET declared == IF catalog THEN Unmanaged(manifest) \cup {Manage} ELSE Unmanaged(manifest) IN
  /\ Stage("install",
           [caps |-> IF catalog THEN declared ELSE requested \cap declared,
            declared |-> declared, approved |-> TRUE, installed |-> TRUE], TRUE)
  /\ UNCHANGED <<catalog, app, manifest, manifests, ask, page>>

\* declaredCeiling asks Dyner and falls back on the stored permissions; an
\* empty ceiling does not limit the request.
UpdateBegin(requested) ==
  \E ceiling \in {app.declared, app.declared \cup manifest} :
    LET limited == IF ceiling = {} THEN requested ELSE requested \cap ceiling
        caps == ManagedSet(limited) IN
    /\ app.installed
    /\ Stage("update", [caps |-> caps, declared |-> ceiling \cup caps, approved |-> TRUE,
                        installed |-> TRUE], TRUE)
    /\ UNCHANGED <<catalog, app, manifest, manifests, ask, page>>

\* reviewNativeApp: the prompt shows what is declared now; the answer replaces
\* the record that was read before it, and a refusal changes nothing.
ReviewBegin(granted) ==
  \E known \in {app.declared, app.declared \cup manifest} :
    LET declared == known \ {Manage}
        chosen == granted \cap declared
        caps == IF catalog THEN chosen \cup {Manage} ELSE chosen IN
    /\ app.installed /\ declared # {}
    /\ Stage("review", [caps |-> caps, declared |-> app.declared \cup declared,
                        approved |-> TRUE, installed |-> TRUE], caps # app.caps)
    /\ UNCHANGED <<catalog, app, manifest, manifests, ask, page>>

ReviewDeclined ==
  /\ edit["review"].open /\ edit' = [edit EXCEPT !["review"] = NoEdit]
  /\ UNCHANGED <<catalog, app, manifest, manifests, ask, page>>

\* upsertNativeApp: the record is replaced, or added when it is gone.
Commit(e) ==
  /\ edit[e].open
  /\ app' = edit[e].new
  /\ page' = IF edit[e].close THEN Dropped(page) ELSE page
  /\ edit' = [edit EXCEPT ![e] = NoEdit]
  /\ UNCHANGED <<catalog, manifest, manifests, ask>>

\* revokeNativeGrant
Revoke ==
  /\ app.installed
  /\ app' = [app EXCEPT !.caps = IF catalog THEN {Manage} ELSE {}, !.declared = {},
                        !.approved = FALSE]
  /\ page' = Dropped(page)
  /\ UNCHANGED <<catalog, manifest, manifests, ask, edit>>

\* uninstallNativeApp excludes an install by nativeInstallMu.
Uninstall ==
  /\ app.installed /\ ~edit["install"].open
  /\ app' = NoApp /\ page' = Dropped(page)
  /\ UNCHANGED <<catalog, manifest, manifests, ask, edit>>

-----------------------------------------------------------------------------
(* Page connections *)

\* serveNativeConnection finds the app and the peer is the installed one.
Hello(c) ==
  /\ page[c].pc = "closed" /\ app.installed
  /\ page' = [page EXCEPT ![c] = [pc |-> "resolve", read |-> app]]
  /\ UNCHANGED <<catalog, app, manifest, manifests, ask, edit>>

\* Dyner cannot be reached: the stored grant.
ResolveOffline(c) ==
  /\ page[c].pc = "resolve"
  /\ page' = [page EXCEPT ![c] = Live(@.read, @.read.declared)]
  /\ UNCHANGED <<catalog, app, manifest, manifests, ask, edit>>

\* What authorizeNativeApp has to ask about.
Kind(r) ==
  IF ~r.approved THEN "pairing"
  ELSE IF manifest \ {Manage} \subseteq r.declared THEN "none" ELSE "delta"
AskSet(r) == IF r.approved THEN (manifest \ {Manage}) \ r.declared ELSE manifest \ {Manage}

\* Nothing to ask: the catalog, a manifest that was reviewed, or a first
\* connection of an app that declares nothing, whose record is written.
ResolveQuiet(c) ==
  LET r == page[c].read
      done == [r EXCEPT !.approved = TRUE, !.declared = {}] IN
  /\ page[c].pc = "resolve"
  /\ \/ /\ catalog \/ Kind(r) = "none"
        /\ app' = app /\ page' = [page EXCEPT ![c] = Live(r, manifest)]
     \/ /\ ~catalog /\ Kind(r) = "pairing" /\ AskSet(r) = {}
        /\ app' = done /\ page' = [page EXCEPT ![c] = Live(done, manifest)]
  /\ UNCHANGED <<catalog, manifest, manifests, ask, edit>>

\* sharedNativeAsk: the first connection registers the prompt, and the others
\* wait for the same one.
ResolveAsks(c) ==
  LET r == page[c].read IN
  /\ page[c].pc = "resolve" /\ ~catalog /\ Kind(r) # "none" /\ AskSet(r) # {}
  /\ ask' = IF ask = NoAsk THEN [kind |-> Kind(r), set |-> AskSet(r)] ELSE ask
  /\ page' = [page EXCEPT ![c] = [pc |-> "ask", read |-> r, kind |-> Kind(r), mine |-> AskSet(r),
                                  declared |-> manifest \ {Manage}]]
  /\ UNCHANGED <<catalog, app, manifest, manifests, edit>>

\* close(shared.done): every connection that waits has the result.
AskAnswered(decided, granted) ==
  [c \in Page |->
     IF page[c].pc # "ask" THEN page[c]
     ELSE [pc |-> "decided", read |-> page[c].read, kind |-> page[c].kind,
           mine |-> page[c].mine, declared |-> page[c].declared,
           decided |-> decided, granted |-> granted]]

\* The user decides in a host's window or in Dyner; declining grants nothing.
Decide(granted) ==
  /\ ask # NoAsk /\ ask' = NoAsk
  /\ page' = AskAnswered(TRUE, granted \cap ask.set)
  /\ UNCHANGED <<catalog, app, manifest, manifests, edit>>

\* Mutant: the connections are not told that the prompt expired.
ExpireSilently ==
  /\ ask # NoAsk /\ ask' = NoAsk
  /\ UNCHANGED <<catalog, app, manifest, manifests, page, edit>>

\* awaitDecision gives up: no decision is recorded.
Expire ==
  /\ ask # NoAsk /\ ask' = NoAsk
  /\ page' = AskAnswered(FALSE, {})
  /\ UNCHANGED <<catalog, app, manifest, manifests, edit>>

\* Mutant: the whole answer is granted, also what this connection did not ask
\* for, and the reviewed permissions are not recorded.
DecidedRecordAll(r, p) ==
  [r EXCEPT !.caps = IF p.kind = "pairing" THEN p.granted ELSE @ \cup p.granted,
            !.approved = TRUE]

\* The current record with the answer; the zero record when the app is gone.
DecidedRecord(r, p) ==
  LET granted == p.granted \cap p.mine IN
  [r EXCEPT !.caps = IF p.kind = "pairing" THEN granted ELSE @ \cup granted,
            !.declared = @ \cup p.declared, !.approved = TRUE]

\* Mutant: the record is written without Validate.
CollectDecisionUnvalidated(c) ==
  /\ page[c].pc = "decided"
  /\ LET p == page[c]
         r == IF p.decided THEN DecidedRecord(app, p) ELSE p.read IN
     /\ app' = IF p.decided THEN r ELSE app
     /\ page' = [page EXCEPT ![c] = Live(r, p.declared)]
  /\ UNCHANGED <<catalog, manifest, manifests, ask, edit>>

\* awaitNativeDecision returns.  Validate refuses the zero record, so an app
\* that was uninstalled is not written; its connection is bound to no app.
CollectDecision(c) ==
  /\ page[c].pc = "decided"
  /\ LET p == page[c]
         r == IF p.decided THEN DecidedRecord(app, p) ELSE p.read IN
     /\ app' = IF p.decided /\ app.installed THEN r ELSE app
     /\ page' = [page EXCEPT ![c] = Live(r, p.declared)]
  /\ UNCHANGED <<catalog, manifest, manifests, ask, edit>>

\* The host disconnects, its reader does not drain, or a frame of a live
\* connection fails the check of its grant.
ConnectionDrops(c) ==
  /\ page[c].pc # "closed" /\ page' = [page EXCEPT ![c] = ClosedPage]
  /\ UNCHANGED <<catalog, app, manifest, manifests, ask, edit>>

NativeNext ==
  \/ \E S \in SUBSET Perm : InstallBegin(S) \/ UpdateBegin(S) \/ ReviewBegin(S) \/ Decide(S)
  \/ PublishRevision \/ ReviewDeclined \/ Revoke \/ Uninstall \/ Expire
  \/ \E e \in Editors : Commit(e)
  \/ \E c \in Page : \/ Hello(c) \/ ResolveOffline(c) \/ ResolveQuiet(c) \/ ResolveAsks(c)
                     \/ CollectDecision(c) \/ ConnectionDrops(c)

\* The prompt's timer fires and the connections that wait for it go on; the
\* user and Dyner owe nothing.
NativeFairness ==
  /\ WF_nativeVars(Expire)
  /\ \A c \in Page : WF_nativeVars(ResolveOffline(c)) /\ WF_nativeVars(CollectDecision(c))

NativeSpec == NativeInit /\ [][NativeNext]_nativeVars /\ NativeFairness

-----------------------------------------------------------------------------
(* Properties *)

\* Only the catalog ever holds permissions.manage, whatever a manifest declares
\* and whichever of install, update, review and prompt writes last.
OnlyCatalogManages ==
  ~catalog => /\ Manage \notin app.caps
              /\ \A c \in Page : page[c].pc = "live" => Manage \notin page[c].effective

\* Every permission that is granted was reviewed: it is among the declared
\* ones, so that it is not asked about again as new.
GrantReviewed == app.caps \ {Manage} \subseteq app.declared

\* A connection that passes the check of its frames has no permission that the
\* current record does not grant, although it was authorized earlier.
GrantCurrent ==
  \A c \in Page :
    page[c].pc = "live" /\ HasGrant(c) => page[c].effective \ {Manage} \subseteq app.caps

\* Whatever writes the record last, an app has what its user reviewed and
\* nothing of the catalog's, and its connections no more than that.
NativeSafe == NativeTypeOK /\ OnlyCatalogManages /\ GrantReviewed /\ GrantCurrent

\* A host that connects is not left waiting: the prompt is decided or expires,
\* and every connection that shares it goes on.
ConnectionSettles == \A c \in Page : []<>(page[c].pc \in {"live", "closed"})
=============================================================================
