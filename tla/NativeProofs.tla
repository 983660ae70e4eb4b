---------------------------- MODULE NativeProofs ----------------------------
(* Theorems about the grants of native apps (NativeApps), the handles of   *)
(* processes and watches (Sessions) and the files that apps promise to the *)
(* desktop (Promises), for every number of connections, processes and      *)
(* promises, every set of permissions, every budget and every channel.     *)
EXTENDS NativeApps, Sessions, Promises, FiniteSetTheorems, TLAPS

\* What a record of the app must be, wherever it is kept: without the
\* catalog's permission unless it is the catalog's, with every permission among
\* the reviewed ones, and without permissions before it was approved.
Sound(r) ==
  /\ ~catalog => Manage \notin r.caps
  /\ r.caps \ {Manage} \subseteq r.declared
  /\ ~r.approved => r.caps \subseteq {Manage}

\* A connection was authorized with a sound record, asks for permissions that
\* are declared, and has no more than it stored.
PageSound(p) ==
  /\ p.pc \in {"resolve", "ask", "decided"} => Sound(p.read)
  /\ p.pc \in {"ask", "decided"} => p.mine \subseteq p.declared \ {Manage}
  /\ p.pc = "live" => /\ p.effective \ {Manage} \subseteq p.stored
                      /\ ~catalog => Manage \notin p.effective

\* The inductive invariant of the native apps.
NativeInv ==
  /\ NativeTypeOK
  /\ Sound(app)
  /\ \A e \in Editors : edit[e].open => Sound(edit[e].new)
  /\ \A c \in Page : PageSound(page[c])

-----------------------------------------------------------------------------
(* Records and connections *)

\* The fields of a record, and of the one that stands for no app.
LEMMA RecordFields ==
  ASSUME NEW r \in Apps \cup {NoApp}
  PROVE  r.caps \subseteq Perm /\ r.declared \subseteq Perm
<1>1. CASE r \in Apps
  BY <1>1 DEF Apps
<1>2. CASE r = NoApp
  BY <1>2 DEF NoApp
<1> QED
  BY <1>1, <1>2

\* A record is made of its permissions.
LEMMA MakeRecord ==
  ASSUME NEW caps \in SUBSET Perm, NEW declared \in SUBSET Perm, NEW approved \in BOOLEAN
  PROVE  [caps |-> caps, declared |-> declared, approved |-> approved, installed |-> TRUE] \in Apps
  BY DEF Apps

\* No app has no permissions.
LEMMA NoAppSound == Sound(NoApp)
  BY DEF Sound, NoApp

\* The states of a connection, and what each of them keeps.
LEMMA PageFields ==
  ASSUME NEW p \in Pages
  PROVE  /\ p.pc \in {"closed", "resolve", "ask", "decided", "live"}
         /\ p.pc \in {"resolve", "ask", "decided"} => p.read \in Apps
         /\ p.pc \in {"ask", "decided"} => /\ p.kind \in Kinds
                                          /\ p.mine \subseteq Perm /\ p.declared \subseteq Perm
         /\ p.pc = "decided" => p.decided \in BOOLEAN /\ p.granted \subseteq Perm
         /\ p.pc = "live" => p.stored \subseteq Perm /\ p.effective \subseteq Perm
  BY DEF Pages, ClosedPage

\* One connection changes.
LEMMA PageMoves ==
  ASSUME NativeInv, NEW c \in Page, NEW p \in Pages, PageSound(p), UNCHANGED catalog,
         page' = [page EXCEPT ![c] = p]
  PROVE  page' \in [Page -> Pages] /\ \A d \in Page : PageSound(page[d])'
<1>1. page' \in [Page -> Pages]
  BY DEF NativeInv, NativeTypeOK
<1>2. ASSUME NEW d \in Page PROVE PageSound(page[d])'
  <2>1. page'[d] = p \/ page'[d] = page[d]
    BY DEF NativeInv, NativeTypeOK
  <2> QED
    BY <2>1 DEF NativeInv, PageSound, Sound
<1> QED
  BY <1>1, <1>2

\* Closing the live connections.
LEMMA PagesDropped ==
  ASSUME NativeInv, UNCHANGED catalog, page' = Dropped(page) \/ page' = page
  PROVE  page' \in [Page -> Pages] /\ \A d \in Page : PageSound(page[d])'
<1>1. ClosedPage \in Pages /\ PageSound(ClosedPage)
  BY DEF Pages, PageSound, ClosedPage
<1>2. page' \in [Page -> Pages]
  BY <1>1 DEF NativeInv, NativeTypeOK, Dropped
<1>3. ASSUME NEW d \in Page PROVE PageSound(page[d])'
  <2>1. page'[d] = ClosedPage \/ page'[d] = page[d]
    BY DEF Dropped
  <2> QED
    BY <1>1, <2>1 DEF NativeInv, PageSound, Sound
<1> QED
  BY <1>2, <1>3

\* A connection that is live with a sound record.
LEMMA LiveSound ==
  ASSUME NativeInv, NEW r, r.caps \subseteq Perm, r.installed \in BOOLEAN, Sound(r),
         NEW declared \in SUBSET Perm
  PROVE  Live(r, declared) \in Pages /\ PageSound(Live(r, declared))
<1>1. Effective(r, declared) \subseteq Perm
  BY NativeAssumption DEF Effective
<1>2. Live(r, declared) \in Pages
  BY <1>1 DEF Live, Pages
<1>3. PageSound(Live(r, declared))
  BY DEF PageSound, Live, Effective, Sound
<1> QED
  BY <1>2, <1>3

-----------------------------------------------------------------------------
(* The steps *)

\* The rest of the state, where a step leaves it alone.
LEMMA OthersKept ==
  ASSUME NativeInv, UNCHANGED catalog
  PROVE  /\ app' = app => Sound(app)' /\ app' \in Apps \cup {NoApp}
         /\ edit' = edit => /\ \A e \in Editors : edit'[e].open => Sound(edit[e].new)'
                            /\ edit' \in [Editors ->
                                  {NoEdit} \cup [open : {TRUE}, new : Apps, close : BOOLEAN]]
  BY DEF NativeInv, NativeTypeOK, Sound

\* Preparing a sound record for a later write.
LEMMA StageStep ==
  ASSUME NativeInv, NEW e \in Editors, NEW new \in Apps, Sound(new), NEW close \in BOOLEAN,
         Stage(e, new, close), UNCHANGED <<catalog, app, manifest, manifests, ask, page>>
  PROVE  NativeInv'
<1> DEFINE staged == [open |-> TRUE, new |-> new, close |-> close]
<1>1. staged \in [open : {TRUE}, new : Apps, close : BOOLEAN]
  OBVIOUS
<1>2. edit' = [edit EXCEPT ![e] = staged]
  BY DEF Stage
<1>3. staged.new = new
  OBVIOUS
<1> HIDE DEF staged
<1>4. NativeTypeOK'
  BY <1>1, <1>2 DEF NativeInv, NativeTypeOK
<1>5. ASSUME NEW x \in Editors, edit'[x].open PROVE Sound(edit[x].new)'
  <2>1. CASE x = e
    BY <1>2, <1>3, <2>1 DEF NativeInv, NativeTypeOK, Sound
  <2>2. CASE x # e
    BY <1>2, <1>5, <2>2 DEF NativeInv, NativeTypeOK, Sound
  <2> QED
    BY <2>1, <2>2
<1>6. Sound(app)' /\ \A c \in Page : PageSound(page[c])'
  BY DEF NativeInv, PageSound, Sound
<1> QED
  BY <1>4, <1>5, <1>6 DEF NativeInv

\* Install, update and review read the manifest, or what is on record, and
\* prepare a sound record.
LEMMA BeginStep ==
  ASSUME NativeInv, NEW S \in SUBSET Perm, InstallBegin(S) \/ UpdateBegin(S) \/ ReviewBegin(S)
  PROVE  NativeInv'
<1>1. /\ app.caps \subseteq Perm /\ app.declared \subseteq Perm /\ manifest \subseteq Perm
      /\ Manage \in Perm /\ Sound(app)
  BY RecordFields, NativeAssumption DEF NativeInv, NativeTypeOK
<1>2. CASE InstallBegin(S)
  <2> DEFINE declared == IF catalog THEN Unmanaged(manifest) \cup {Manage} ELSE Unmanaged(manifest)
             caps == IF catalog THEN declared ELSE S \cap declared
             new == [caps |-> caps, declared |-> declared, approved |-> TRUE, installed |-> TRUE]
  <2>1. caps \subseteq Perm /\ declared \subseteq Perm
    BY <1>1 DEF Unmanaged
  <2>2. new \in Apps
    BY <2>1, MakeRecord
  <2>3. Sound(new)
    BY DEF Sound, Unmanaged
  <2>4. Stage("install", new, TRUE) /\ UNCHANGED <<catalog, app, manifest, manifests, ask, page>>
    BY <1>2 DEF InstallBegin
  <2> HIDE DEF new
  <2> QED
    BY <2>2, <2>3, <2>4, StageStep DEF Editors
<1>3. CASE UpdateBegin(S)
  <2>1. PICK ceiling \in {app.declared, app.declared \cup manifest} :
          LET limited == IF ceiling = {} THEN S ELSE S \cap ceiling
              caps == ManagedSet(limited) IN
          /\ Stage("update", [caps |-> caps, declared |-> ceiling \cup caps, approved |-> TRUE,
                              installed |-> TRUE], TRUE)
          /\ UNCHANGED <<catalog, app, manifest, manifests, ask, page>>
    BY <1>3 DEF UpdateBegin
  <2> DEFINE limited == IF ceiling = {} THEN S ELSE S \cap ceiling
             caps == ManagedSet(limited)
             new == [caps |-> caps, declared |-> ceiling \cup caps, approved |-> TRUE,
                     installed |-> TRUE]
  <2>2. caps \subseteq Perm /\ ceiling \subseteq Perm
    BY <1>1 DEF ManagedSet, Unmanaged
  <2>3. new \in Apps
    BY <2>2, MakeRecord
  <2>4. Sound(new)
    BY DEF Sound, ManagedSet, Unmanaged
  <2>5. Stage("update", new, TRUE) /\ UNCHANGED <<catalog, app, manifest, manifests, ask, page>>
    BY <2>1
  <2> HIDE DEF new
  <2> QED
    BY <2>3, <2>4, <2>5, StageStep DEF Editors
<1>4. CASE ReviewBegin(S)
  <2>1. PICK known \in {app.declared, app.declared \cup manifest} :
          LET declared == known \ {Manage}
              chosen == S \cap declared
              caps == IF catalog THEN chosen \cup {Manage} ELSE chosen IN
          /\ Stage("review", [caps |-> caps, declared |-> app.declared \cup declared,
                              approved |-> TRUE, installed |-> TRUE], caps # app.caps)
          /\ UNCHANGED <<catalog, app, manifest, manifests, ask, page>>
    BY <1>4 DEF ReviewBegin
  <2> DEFINE declared == known \ {Manage}
             chosen == S \cap declared
             caps == IF catalog THEN chosen \cup {Manage} ELSE chosen
             new == [caps |-> caps, declared |-> app.declared \cup declared, approved |-> TRUE,
                     installed |-> TRUE]
             close == caps # app.caps
  <2>2. caps \subseteq Perm /\ app.declared \cup declared \subseteq Perm
    BY <1>1
  <2>3. new \in Apps
    BY <2>2, MakeRecord
  <2>4. Sound(new)
    BY DEF Sound
  <2>5. Stage("review", new, close) /\ UNCHANGED <<catalog, app, manifest, manifests, ask, page>>
    BY <2>1
  <2>6. close \in BOOLEAN
    BY Zenon
  <2> HIDE DEF new, close
  <2> QED
    BY <2>3, <2>4, <2>5, <2>6, StageStep DEF Editors
<1> QED
  BY <1>2, <1>3, <1>4

\* The writes of the record by install, update, review, revoke and uninstall.
LEMMA WriteStep ==
  ASSUME NativeInv,
         \/ \E e \in Editors : Commit(e)
         \/ ReviewDeclined \/ Revoke \/ Uninstall
  PROVE  NativeInv'
<1> DEFINE EditType == [Editors -> {NoEdit} \cup [open : {TRUE}, new : Apps, close : BOOLEAN]]
<1>1. ASSUME NEW e \in Editors, edit' = [edit EXCEPT ![e] = NoEdit], UNCHANGED catalog
      PROVE  edit' \in EditType /\ \A x \in Editors : edit'[x].open => Sound(edit[x].new)'
  <2>1. edit' \in EditType
    BY <1>1 DEF NativeInv, NativeTypeOK
  <2>2. ASSUME NEW x \in Editors, edit'[x].open PROVE Sound(edit[x].new)'
    <3>1. x # e
      BY <1>1, <2>2 DEF NativeInv, NativeTypeOK, NoEdit
    <3>2. edit'[x] = edit[x]
      BY <1>1, <3>1 DEF NativeInv, NativeTypeOK
    <3> QED
      BY <1>1, <2>2, <3>2 DEF NativeInv, Sound
  <2> QED
    BY <2>1, <2>2
<1>2. ASSUME NEW e \in Editors, Commit(e) PROVE NativeInv'
  <2>1. /\ edit[e].open /\ app' = edit[e].new /\ edit' = [edit EXCEPT ![e] = NoEdit]
        /\ UNCHANGED <<catalog, manifest, manifests, ask>>
        /\ page' = Dropped(page) \/ page' = page
    BY <1>2 DEF Commit
  <2>2. app' \in Apps /\ Sound(app)'
    <3>1. edit[e] # NoEdit
      BY <2>1 DEF NoEdit
    <3>2. edit[e] \in [open : {TRUE}, new : Apps, close : BOOLEAN]
      BY <3>1 DEF NativeInv, NativeTypeOK
    <3>3. edit[e].new \in Apps /\ Sound(edit[e].new)
      BY <2>1, <3>2 DEF NativeInv
    <3> QED
      BY <2>1, <3>3 DEF Sound
  <2> QED
    BY <1>1, <2>1, <2>2, PagesDropped DEF NativeInv, NativeTypeOK
<1>3. CASE ReviewDeclined
  <2>1. edit' = [edit EXCEPT !["review"] = NoEdit]
        /\ UNCHANGED <<catalog, app, manifest, manifests, ask, page>>
    BY <1>3 DEF ReviewDeclined
  <2>2. "review" \in Editors
    BY DEF Editors
  <2> QED
    BY <1>1, <2>1, <2>2, PagesDropped, OthersKept DEF NativeInv, NativeTypeOK
<1>4. CASE Revoke
  <2> DEFINE caps == IF catalog THEN {Manage} ELSE {}
             new == [caps |-> caps, declared |-> {}, approved |-> FALSE, installed |-> TRUE]
  <2>1. app.installed /\ app' = [app EXCEPT !.caps = caps, !.declared = {}, !.approved = FALSE]
        /\ page' = Dropped(page) /\ UNCHANGED <<catalog, manifest, manifests, ask, edit>>
    BY <1>4 DEF Revoke
  <2>2. app \in Apps
    BY <2>1 DEF NativeInv, NativeTypeOK, NoApp
  <2>3. app' \in Apps
    BY <2>1, <2>2, NativeAssumption DEF Apps
  <2>4. app'.caps = caps /\ app'.declared = {}
    BY <2>1, <2>2 DEF Apps
  <2>5. Sound(app)'
    BY <2>1, <2>4 DEF Sound
  <2> QED
    BY <2>1, <2>3, <2>5, PagesDropped, OthersKept DEF NativeInv, NativeTypeOK
<1>5. CASE Uninstall
  <2>1. app' = NoApp /\ page' = Dropped(page) /\ UNCHANGED <<catalog, manifest, manifests, ask, edit>>
    BY <1>5 DEF Uninstall
  <2>2. Sound(app)'
    BY <2>1 DEF Sound, NoApp
  <2> QED
    BY <2>1, <2>2, PagesDropped, OthersKept DEF NativeInv, NativeTypeOK
<1> QED
  BY <1>2, <1>3, <1>4, <1>5

\* A connection asks, is asked about, or is authorized; only the first
\* connection of an app without permissions and a decision write the record.
LEMMA PageStep ==
  ASSUME NativeInv, NEW c \in Page,
         \/ Hello(c) \/ ResolveOffline(c) \/ ResolveQuiet(c) \/ ResolveAsks(c)
         \/ CollectDecision(c) \/ ConnectionDrops(c)
  PROVE  NativeInv'
<1>1. page[c] \in Pages /\ PageSound(page[c]) /\ manifest \subseteq Perm /\ Sound(app)
  BY DEF NativeInv, NativeTypeOK
<1>2. CASE Hello(c)
  <2> DEFINE p == [pc |-> "resolve", read |-> app]
  <2>1. app \in Apps /\ page' = [page EXCEPT ![c] = p]
        /\ UNCHANGED <<catalog, app, manifest, manifests, ask, edit>>
    BY <1>2 DEF Hello, NativeInv, NativeTypeOK, NoApp
  <2>2. p \in Pages
    BY <2>1 DEF Pages
  <2>3. PageSound(p)
    BY <1>1 DEF PageSound
  <2> HIDE DEF p
  <2> QED
    BY <2>1, <2>2, <2>3, PageMoves, OthersKept DEF NativeInv, NativeTypeOK
<1>3. CASE ResolveOffline(c)
  <2> DEFINE r == page[c].read
  <2>1. /\ page[c].pc = "resolve" /\ page' = [page EXCEPT ![c] = Live(r, r.declared)]
        /\ UNCHANGED <<catalog, app, manifest, manifests, ask, edit>>
    BY <1>3 DEF ResolveOffline, NativeInv, NativeTypeOK
  <2>2. r \in Apps /\ Sound(r)
    BY <1>1, <2>1, PageFields DEF PageSound
  <2>3. Live(r, r.declared) \in Pages /\ PageSound(Live(r, r.declared))
    BY <2>2, RecordFields, LiveSound DEF Apps
  <2> QED
    BY <2>1, <2>3, PageMoves, OthersKept DEF NativeInv, NativeTypeOK
<1>4. CASE ResolveQuiet(c)
  <2> DEFINE r == page[c].read
             done == [r EXCEPT !.approved = TRUE, !.declared = {}]
  <2>1. page[c].pc = "resolve" /\ UNCHANGED <<catalog, manifest, manifests, ask, edit>>
    BY <1>4 DEF ResolveQuiet
  <2>2. r \in Apps /\ Sound(r)
    BY <1>1, <2>1, PageFields DEF PageSound
  <2>3. CASE app' = app /\ page' = [page EXCEPT ![c] = Live(r, manifest)]
    <3>1. Live(r, manifest) \in Pages /\ PageSound(Live(r, manifest))
      BY <1>1, <2>2, LiveSound DEF Apps
    <3> QED
      BY <2>1, <2>3, <3>1, PageMoves, OthersKept DEF NativeInv, NativeTypeOK
  <2>4. CASE /\ Kind(r) = "pairing"
             /\ app' = done /\ page' = [page EXCEPT ![c] = Live(done, manifest)]
    <3>1. ~r.approved
      BY <2>4 DEF Kind
    <3>2. done \in Apps
      BY <2>2 DEF Apps
    <3>3. done.caps = r.caps /\ done.declared = {}
      BY <2>2 DEF Apps
    <3>4. Sound(done)
      BY <2>2, <3>1, <3>3 DEF Sound
    <3> HIDE DEF done
    <3>5. Live(done, manifest) \in Pages /\ PageSound(Live(done, manifest))
      BY <1>1, <3>2, <3>4, LiveSound DEF Apps
    <3>6. Sound(app)'
      BY <2>1, <2>4, <3>4 DEF Sound
    <3> QED
      BY <2>1, <2>4, <3>2, <3>5, <3>6, PageMoves, OthersKept DEF NativeInv, NativeTypeOK
  <2> QED
    BY <1>4, <2>3, <2>4 DEF ResolveQuiet
<1>5. CASE ResolveAsks(c)
  <2> DEFINE r == page[c].read
             p == [pc |-> "ask", read |-> r, kind |-> Kind(r), mine |-> AskSet(r),
                   declared |-> manifest \ {Manage}]
  <2>1. /\ page[c].pc = "resolve" /\ Kind(r) # "none" /\ page' = [page EXCEPT ![c] = p]
        /\ ask' = IF ask = NoAsk THEN [kind |-> Kind(r), set |-> AskSet(r)] ELSE ask
        /\ UNCHANGED <<catalog, app, manifest, manifests, edit>>
    BY <1>5 DEF ResolveAsks
  <2>2. r \in Apps /\ Sound(r)
    BY <1>1, <2>1, PageFields DEF PageSound
  <2>3. Kind(r) \in Kinds /\ AskSet(r) \subseteq manifest \ {Manage}
    BY <2>1 DEF Kind, Kinds, AskSet
  <2>4. p \in Pages
    BY <1>1, <2>2, <2>3 DEF Pages
  <2>5. PageSound(p)
    BY <2>2, <2>3 DEF PageSound
  <2>6. ask' \in {NoAsk} \cup [kind : Kinds, set : SUBSET Perm]
    BY <1>1, <2>1, <2>3 DEF NativeInv, NativeTypeOK
  <2> HIDE DEF p
  <2> QED
    BY <2>1, <2>4, <2>5, <2>6, PageMoves, OthersKept DEF NativeInv, NativeTypeOK
<1>6. CASE CollectDecision(c)
  <2> DEFINE p == page[c]
             r == IF p.decided THEN DecidedRecord(app, p) ELSE p.read
  <2>1. /\ p.pc = "decided" /\ page' = [page EXCEPT ![c] = Live(r, p.declared)]
        /\ app' = IF p.decided /\ app.installed THEN r ELSE app
        /\ UNCHANGED <<catalog, manifest, manifests, ask, edit>>
    BY <1>6 DEF CollectDecision
  <2>2. /\ p.read \in Apps /\ Sound(p.read) /\ p.mine \subseteq p.declared \ {Manage}
        /\ p.mine \subseteq Perm /\ p.declared \subseteq Perm
    BY <1>1, <2>1, PageFields DEF PageSound
  <2> DEFINE granted == p.granted \cap p.mine
             d == DecidedRecord(app, p)
  <2>3. /\ d.caps = IF p.kind = "pairing" THEN granted ELSE app.caps \cup granted
        /\ d.declared = app.declared \cup p.declared /\ d.approved = TRUE
        /\ d.installed = app.installed
        /\ app \in Apps => d \in Apps
    <3>1. app.caps \subseteq Perm /\ app.declared \subseteq Perm /\ app \in Apps \cup {NoApp}
      BY RecordFields DEF NativeInv, NativeTypeOK
    <3>2. CASE app \in Apps
      BY <2>2, <3>1, <3>2 DEF DecidedRecord, Apps
    <3>3. CASE app = NoApp
      BY <2>2, <3>1, <3>3 DEF DecidedRecord, NoApp, Apps
    <3> QED
      BY <3>1, <3>2, <3>3
  <2>4. Sound(d)
    BY <1>1, <2>2, <2>3 DEF Sound
  <2>5. d.caps \subseteq Perm /\ d.installed \in BOOLEAN
    <3>1. app.caps \subseteq Perm
      BY RecordFields DEF NativeInv, NativeTypeOK
    <3>2. app.installed \in BOOLEAN
      <4>1. CASE app \in Apps
        BY <4>1 DEF Apps
      <4>2. CASE app = NoApp
        BY <4>2 DEF NoApp
      <4> QED
        BY <4>1, <4>2 DEF NativeInv, NativeTypeOK
    <3> QED
      BY <2>2, <2>3, <3>1, <3>2
  <2> HIDE DEF d
  <2>6. Live(r, p.declared) \in Pages /\ PageSound(Live(r, p.declared))
    <3>1. CASE p.decided
      BY <2>2, <2>4, <2>5, <3>1, LiveSound DEF d
    <3>2. CASE ~p.decided
      BY <2>2, <3>2, RecordFields, LiveSound DEF Apps
    <3> QED
      BY <3>1, <3>2
  <2>7. app' \in Apps \cup {NoApp} /\ Sound(app)'
    <3>1. CASE p.decided /\ app.installed
      <4>1. app' = d /\ app \in Apps
        BY <2>1, <3>1 DEF d, NativeInv, NativeTypeOK, NoApp
      <4> QED
        BY <2>1, <2>3, <2>4, <4>1 DEF Sound
    <3>2. CASE ~(p.decided /\ app.installed)
      BY <2>1, <3>2, OthersKept
    <3> QED
      BY <3>1, <3>2
  <2> QED
    BY <2>1, <2>6, <2>7, PageMoves, OthersKept DEF NativeInv, NativeTypeOK
<1>7. CASE ConnectionDrops(c)
  <2>1. page' = [page EXCEPT ![c] = ClosedPage]
        /\ UNCHANGED <<catalog, app, manifest, manifests, ask, edit>>
    BY <1>7 DEF ConnectionDrops
  <2>2. ClosedPage \in Pages /\ PageSound(ClosedPage)
    BY DEF Pages, PageSound, ClosedPage
  <2> QED
    BY <2>1, <2>2, PageMoves, OthersKept DEF NativeInv, NativeTypeOK
<1> QED
  BY <1>2, <1>3, <1>4, <1>5, <1>6, <1>7

\* The prompt is decided or expires, and everybody who waits for it is told.
LEMMA AskStep ==
  ASSUME NativeInv, (\E S \in SUBSET Perm : Decide(S)) \/ Expire
  PROVE  NativeInv'
<1>1. PICK decided \in BOOLEAN, granted \in SUBSET Perm :
        page' = AskAnswered(decided, granted)
  <2>1. CASE Expire
    BY <2>1 DEF Expire
  <2>2. ASSUME NEW S \in SUBSET Perm, Decide(S)
        PROVE  page' = AskAnswered(TRUE, S \cap ask.set) /\ S \cap ask.set \in SUBSET Perm
    BY <2>2 DEF Decide
  <2> QED
    BY <2>1, <2>2
<1>2. ask' = NoAsk /\ UNCHANGED <<catalog, app, manifest, manifests, edit>>
  BY DEF Decide, Expire
<1>3. ASSUME NEW c \in Page PROVE page'[c] \in Pages /\ PageSound(page[c])'
  <2> DEFINE p == [pc |-> "decided", read |-> page[c].read, kind |-> page[c].kind,
                   mine |-> page[c].mine, declared |-> page[c].declared,
                   decided |-> decided, granted |-> granted]
  <2>1. page[c] \in Pages /\ PageSound(page[c])
    BY DEF NativeInv, NativeTypeOK
  <2>2. CASE page[c].pc # "ask"
    <3>1. page'[c] = page[c]
      BY <1>1, <2>2 DEF AskAnswered
    <3> QED
      BY <1>2, <2>1, <3>1 DEF PageSound, Sound
  <2>3. CASE page[c].pc = "ask"
    <3>1. page'[c] = p
      BY <1>1, <2>3 DEF AskAnswered
    <3>2. page[c].read \in Apps /\ page[c].kind \in Kinds /\ page[c].mine \subseteq Perm
          /\ page[c].declared \subseteq Perm
      BY <2>1, <2>3, PageFields
    <3>3. p \in Pages
      BY <3>2 DEF Pages
    <3>4. /\ p.pc = "decided" /\ p.read = page[c].read /\ p.mine = page[c].mine
          /\ p.declared = page[c].declared
      OBVIOUS
    <3> HIDE DEF p
    <3> QED
      BY <1>2, <2>1, <2>3, <3>1, <3>3, <3>4 DEF PageSound, Sound
  <2> QED
    BY <2>2, <2>3
<1>4. page' \in [Page -> Pages]
  BY <1>1, <1>3 DEF AskAnswered
<1> QED
  BY <1>2, <1>3, <1>4, OthersKept DEF NativeInv, NativeTypeOK

\* A manifest is published.
LEMMA PublishStep ==
  ASSUME NativeInv, PublishRevision
  PROVE  NativeInv'
<1>1. /\ UNCHANGED <<catalog, app, ask, page, edit>> /\ manifest' \subseteq Perm
      /\ manifests' \in 0 .. MaxRevisions
  BY NativeAssumption DEF PublishRevision, NativeInv, NativeTypeOK
<1> QED
  BY <1>1, OthersKept, PagesDropped DEF NativeInv, NativeTypeOK

-----------------------------------------------------------------------------

\* Whichever of install, update, review, prompt, revoke and uninstall writes
\* last, with whatever it read before: only the catalog manages, what is granted
\* was reviewed, and no connection that passes the check of its frames has more
\* than the record grants (authForNative, upsertNativeApp, hasNativeGrant).
THEOREM NativeGrants == NativeSpec => []NativeSafe
<1>1. NativeInit => NativeInv
  <2> SUFFICES ASSUME NativeInit PROVE NativeInv
    OBVIOUS
  <2>1. NativeTypeOK
    <3>1. page \in [Page -> Pages]
      BY DEF NativeInit, Pages
    <3>2. edit \in [Editors -> {NoEdit} \cup [open : {TRUE}, new : Apps, close : BOOLEAN]]
      BY DEF NativeInit
    <3>3. catalog \in BOOLEAN
      BY DEF NativeInit
    <3> QED
      BY <3>1, <3>2, <3>3, NativeAssumption DEF NativeInit, NativeTypeOK
  <2>2. Sound(app)
    BY NoAppSound DEF NativeInit
  <2>3. \A e \in Editors : ~edit[e].open
    BY DEF NativeInit, NoEdit
  <2>4. \A c \in Page : PageSound(page[c])
    BY DEF NativeInit, PageSound, ClosedPage
  <2> QED
    BY <2>1, <2>2, <2>3, <2>4 DEF NativeInv
<1>2. NativeInv /\ [NativeNext]_nativeVars => NativeInv'
  <2> SUFFICES ASSUME NativeInv, [NativeNext]_nativeVars PROVE NativeInv'
    OBVIOUS
  <2>1. CASE NativeNext
    BY <2>1, BeginStep, WriteStep, PageStep, AskStep, PublishStep DEF NativeNext
  <2>2. CASE UNCHANGED nativeVars
    BY <2>2, OthersKept, PagesDropped DEF nativeVars, NativeInv, NativeTypeOK
  <2> QED
    BY <2>1, <2>2
<1>3. NativeInv => NativeSafe
  <2> SUFFICES ASSUME NativeInv PROVE NativeSafe
    OBVIOUS
  <2>1. OnlyCatalogManages /\ GrantReviewed
    BY DEF NativeInv, Sound, PageSound, OnlyCatalogManages, GrantReviewed
  <2>2. GrantCurrent
    BY DEF NativeInv, PageSound, GrantCurrent, HasGrant
  <2> QED
    BY <2>1, <2>2 DEF NativeSafe, NativeInv
<1> QED
  BY <1>1, <1>2, <1>3, PTL DEF NativeSpec

-----------------------------------------------------------------------------
(* Sessions: a process and its output *)

\* The chunks that the readers have taken from the pipes of r.
Taken(r) == r.made["stdout"] - r.pipe["stdout"] + (r.made["stderr"] - r.pipe["stderr"])

\* What was taken was sent, up to the budget; a stream that is at its end was
\* emptied after its last writer had gone, and the waiter comes after both
\* streams, unless the terminal was closed, which happens once.
OutputKept(r) ==
  /\ \A s \in Stream : r.pipe[s] <= r.made[s]
  /\ r.pty => r.made["stderr"] = 0
  /\ r.sent = IF Budget <= Taken(r) THEN Budget ELSE Taken(r)
Ended(r) ==
  /\ \A s \in Stream : r.reader[s] = "eof" => r.state = "exited" /\ ~r.held /\ r.pipe[s] = 0
  /\ r.waiter # "drain" =>
       \A s \in Stream : (s = "stdout" \/ ~r.pty) => r.reader[s] = "eof"
ProcSound(r) == r.closes <= 1 /\ OutputKept(r) /\ (r.closes = 0 => Ended(r))

ProcsSound ==
  /\ SessionsTypeOK
  /\ \A p \in DOMAIN proc : ProcSound(proc[p])
SessionsInv == ProcsSound /\ HandlesScoped

\* The smaller of two numbers.
LEMMA MinOfTwo ==
  ASSUME NEW a \in Nat, NEW b \in Nat
  PROVE  Min({a, b}) = IF a <= b THEN a ELSE b
<1> DEFINE m == IF a <= b THEN a ELSE b
<1>1. m \in {a, b} /\ \A y \in {a, b} : m <= y
  OBVIOUS
<1>2. Min({a, b}) \in {a, b} /\ \A y \in {a, b} : Min({a, b}) <= y
  BY <1>1 DEF Min
<1> QED
  BY <1>1, <1>2

\* Fields of a process.
LEMMA ProcFields ==
  ASSUME NEW r \in ProcType
  PROVE  /\ r.owner \in Tenant /\ r.pty \in BOOLEAN /\ r.held \in BOOLEAN
         /\ r.state \in {"running", "killed", "exited"}
         /\ r.pipe \in [Stream -> 0 .. MaxChunks] /\ r.made \in [Stream -> 0 .. MaxChunks]
         /\ r.reader \in [Stream -> {"copy", "eof"}] /\ r.sent \in 0 .. 2 * MaxChunks
         /\ r.waiter \in {"drain", "wait", "exit", "forget", "gone"} /\ r.closes \in 0 .. 2
  BY DEF ProcType

\* What was sent is what was made and taken, and bounded by it.
LEMMA TakenBound ==
  ASSUME NEW printed \in [Stream -> 0 .. MaxChunks], NEW pipe \in [Stream -> 0 .. MaxChunks],
         \A s \in Stream : pipe[s] <= printed[s],
         NEW sent, NEW t, t = printed["stdout"] - pipe["stdout"] + (printed["stderr"] - pipe["stderr"]),
         sent = IF Budget <= t THEN Budget ELSE t
  PROVE  t \in 0 .. 2 * MaxChunks /\ sent \in 0 .. 2 * MaxChunks
<1>1. MaxChunks \in Nat /\ Budget \in Nat
  BY SessionsAssumption
<1>2. /\ printed["stdout"] \in 0 .. MaxChunks /\ pipe["stdout"] \in 0 .. MaxChunks
      /\ printed["stderr"] \in 0 .. MaxChunks /\ pipe["stderr"] \in 0 .. MaxChunks
      /\ pipe["stdout"] <= printed["stdout"] /\ pipe["stderr"] <= printed["stderr"]
  BY DEF Stream
<1> QED
  BY <1>1, <1>2

\* A new process.
LEMMA NewProc ==
  ASSUME NEW n \in Tenant, NEW pty \in BOOLEAN, NEW r,
         r = [owner |-> n, pty |-> pty, state |-> "running", held |-> FALSE,
              pipe |-> [s \in Stream |-> 0], made |-> [s \in Stream |-> 0],
              reader |-> [s \in Stream |-> "copy"], sent |-> 0, waiter |-> "drain", closes |-> 0]
  PROVE  r \in ProcType /\ ProcSound(r) /\ r.owner = n
<1>1. MaxChunks \in Nat /\ Budget \in Nat
  BY SessionsAssumption
<1>2. r \in ProcType
  BY <1>1 DEF ProcType
<1>3. /\ r.made = [s \in Stream |-> 0] /\ r.pipe = [s \in Stream |-> 0] /\ r.sent = 0
      /\ r.reader = [s \in Stream |-> "copy"] /\ r.waiter = "drain" /\ r.closes = 0
  OBVIOUS
<1>4. Taken(r) = 0
  BY <1>3 DEF Taken, Stream
<1>5. OutputKept(r)
  BY <1>1, <1>3, <1>4 DEF OutputKept, Stream
<1>6. Ended(r)
  BY <1>3 DEF Ended
<1>7. ProcSound(r)
  BY <1>3, <1>5, <1>6 DEF ProcSound
<1> QED
  BY <1>2, <1>7

\* Closing kills, and closes a terminal once.
LEMMA ClosedSound ==
  ASSUME NEW r \in ProcType, ProcSound(r)
  PROVE  /\ Closed(r) \in ProcType /\ ProcSound(Closed(r))
         /\ Closed(r).owner = r.owner /\ Closed(r).state # "running" /\ Closed(r).waiter = r.waiter
<1> DEFINE q == Closed(r)
<1>1. q \in ProcType
  <2>1. \A st \in {"running", "killed", "exited"}, c \in 0 .. 2 :
          [r EXCEPT !.state = st, !.closes = c] \in ProcType
    BY DEF ProcType
  <2>2. /\ (IF r.state = "running" THEN "killed" ELSE r.state) \in {"running", "killed", "exited"}
        /\ (IF r.pty /\ r.closes = 0 THEN 1 ELSE r.closes) \in 0 .. 2
    BY ProcFields
  <2> QED
    BY <2>1, <2>2 DEF Closed
<1>2. /\ q.owner = r.owner /\ q.pty = r.pty /\ q.held = r.held /\ q.pipe = r.pipe
      /\ q.made = r.made /\ q.reader = r.reader /\ q.sent = r.sent /\ q.waiter = r.waiter
      /\ q.state = (IF r.state = "running" THEN "killed" ELSE r.state)
      /\ q.closes = 1 \/ q.closes = r.closes
  BY DEF Closed, ProcType
<1> HIDE DEF q
<1>3. q.closes <= 1 /\ (q.closes = 0 => r.closes = 0)
  <2>1. r.closes \in 0 .. 2 /\ r.closes <= 1
    BY ProcFields DEF ProcSound
  <2> QED
    BY <1>2, <2>1
<1>4. OutputKept(q)
  <2>1. Taken(q) = Taken(r)
    BY <1>2 DEF Taken
  <2> QED
    BY <1>2, <2>1 DEF ProcSound, OutputKept
<1>5. q.closes = 0 => Ended(q)
  BY <1>2, <1>3 DEF ProcSound, Ended
<1> QED
  BY <1>1, <1>2, <1>3, <1>4, <1>5, ProcFields DEF ProcSound, q

-----------------------------------------------------------------------------
(* Sessions: the goroutines of a process *)

\* What the invariant says of one process.
LEMMA ProcsTyped ==
  ASSUME SessionsInv, NEW p \in DOMAIN proc
  PROVE  proc[p] \in ProcType /\ ProcSound(proc[p])
  BY DEF SessionsInv, ProcsSound, SessionsTypeOK

\* One process changes, the frame loop does not.
LEMMA OneProc ==
  ASSUME SessionsInv, NEW p \in DOMAIN proc, NEW r \in ProcType, ProcSound(r),
         r.owner = proc[p].owner, r.state = "running" => proc[p].state = "running", Only(p, r)
  PROVE  SessionsInv'
<1>1. PICK n \in 0 .. MaxProcs : proc \in [1 .. n -> ProcType]
  BY DEF SessionsInv, ProcsSound, SessionsTypeOK
<1>2. /\ proc' = [proc EXCEPT ![p] = r]
      /\ UNCHANGED <<loop, session, hello, token, records, frames>>
  BY DEF Only
<1>3. /\ proc' \in [1 .. n -> ProcType] /\ DOMAIN proc' = DOMAIN proc
      /\ proc'[p] = r /\ \A q \in DOMAIN proc : q # p => proc'[q] = proc[q]
  BY <1>1, <1>2
<1>4. SessionsTypeOK'
  BY <1>1, <1>2, <1>3 DEF SessionsInv, ProcsSound, SessionsTypeOK
<1>5. \A q \in DOMAIN proc' : ProcSound(proc'[q])
  BY <1>3 DEF SessionsInv, ProcsSound
<1>6. records \subseteq DOMAIN proc
  BY DEF SessionsInv, ProcsSound, SessionsTypeOK
<1>7. HandlesScoped'
  BY <1>2, <1>3, <1>6 DEF SessionsInv, HandlesScoped
<1> QED
  BY <1>4, <1>5, <1>7 DEF SessionsInv, ProcsSound

\* A stream that is still written has a writer, so neither stream was at its end.
LEMMA WritesKeeps ==
  ASSUME SessionsInv, NEW p \in DOMAIN proc, NEW s \in Stream, Writes(p, s)
  PROVE  SessionsInv'
<1> DEFINE q == proc[p]
           r == [q EXCEPT !.made[s] = @ + 1, !.pipe[s] = @ + 1]
<1>1. /\ q.state = "running" \/ q.held
      /\ s \in Streams(p) /\ q.made[s] < MaxChunks /\ Only(p, r)
  BY DEF Writes
<1>2. q \in ProcType /\ ProcSound(q) /\ MaxChunks \in Nat
  BY ProcsTyped, SessionsAssumption
<1>3. /\ q.made \in [Stream -> 0 .. MaxChunks] /\ q.pipe \in [Stream -> 0 .. MaxChunks]
      /\ \A t \in Stream : q.pipe[t] <= q.made[t]
  BY <1>2, ProcFields DEF ProcSound, OutputKept
<1> DEFINE printed == [q.made EXCEPT ![s] = @ + 1]
           pipe == [q.pipe EXCEPT ![s] = @ + 1]
<1>4. /\ printed \in [Stream -> 0 .. MaxChunks] /\ pipe \in [Stream -> 0 .. MaxChunks]
      /\ \A t \in Stream : pipe[t] <= printed[t]
      /\ \A t \in Stream : t # s => printed[t] = q.made[t]
  BY <1>1, <1>2, <1>3
<1>5. printed["stdout"] - pipe["stdout"] + (printed["stderr"] - pipe["stderr"]) = Taken(q)
  BY <1>2, <1>3 DEF Taken, Stream
<1>6. /\ r \in ProcType /\ r.made = printed /\ r.pipe = pipe
      /\ r.owner = q.owner /\ r.pty = q.pty /\ r.held = q.held /\ r.state = q.state
      /\ r.reader = q.reader /\ r.sent = q.sent /\ r.waiter = q.waiter /\ r.closes = q.closes
  BY <1>2, <1>4 DEF ProcType
<1> HIDE DEF r, printed, pipe
<1>7. q.pty => s = "stdout"
  BY <1>1 DEF Streams
<1>8. OutputKept(r)
  <2>1. Taken(r) = Taken(q)
    BY <1>5, <1>6 DEF Taken
  <2> QED
    BY <1>2, <1>4, <1>6, <1>7, <2>1 DEF ProcSound, OutputKept, Stream
<1>9. r.closes = 0 => Ended(r)
  BY <1>1, <1>2, <1>6 DEF ProcSound, Ended, Stream
<1> QED
  BY <1>1, <1>2, <1>6, <1>8, <1>9, OneProc DEF ProcSound, r

\* A process that ends was not at the end of its output.
LEMMA ExitsKeeps ==
  ASSUME SessionsInv, NEW p \in DOMAIN proc, NEW held \in BOOLEAN, Exits(p, held)
  PROVE  SessionsInv'
<1> DEFINE q == proc[p]
           r == [q EXCEPT !.state = "exited", !.held = held]
<1>1. q.state # "exited" /\ Only(p, r)
  BY DEF Exits
<1>2. q \in ProcType /\ ProcSound(q)
  BY ProcsTyped
<1>3. /\ r \in ProcType /\ r.state = "exited"
      /\ r.owner = q.owner /\ r.pty = q.pty /\ r.made = q.made /\ r.pipe = q.pipe
      /\ r.reader = q.reader /\ r.sent = q.sent /\ r.waiter = q.waiter /\ r.closes = q.closes
  BY <1>2 DEF ProcType
<1> HIDE DEF r
<1>4. OutputKept(r)
  <2>1. Taken(r) = Taken(q)
    BY <1>3 DEF Taken
  <2> QED
    BY <1>2, <1>3, <2>1 DEF ProcSound, OutputKept
<1>5. r.closes = 0 => Ended(r)
  BY <1>1, <1>2, <1>3 DEF ProcSound, Ended, Stream
<1> QED
  BY <1>1, <1>2, <1>3, <1>4, <1>5, OneProc DEF ProcSound, r

\* A descendant that held a pipe exits.
LEMMA DescendantKeeps ==
  ASSUME SessionsInv, NEW p \in DOMAIN proc, DescendantExits(p)
  PROVE  SessionsInv'
<1> DEFINE q == proc[p]
           r == [q EXCEPT !.held = FALSE]
<1>1. Only(p, r)
  BY DEF DescendantExits
<1>2. q \in ProcType /\ ProcSound(q)
  BY ProcsTyped
<1>3. /\ r \in ProcType /\ r.held = FALSE
      /\ r.owner = q.owner /\ r.pty = q.pty /\ r.made = q.made /\ r.pipe = q.pipe
      /\ r.reader = q.reader /\ r.sent = q.sent /\ r.waiter = q.waiter /\ r.closes = q.closes
      /\ r.state = q.state
  BY <1>2 DEF ProcType
<1> HIDE DEF r
<1>4. OutputKept(r)
  <2>1. Taken(r) = Taken(q)
    BY <1>3 DEF Taken
  <2> QED
    BY <1>2, <1>3, <2>1 DEF ProcSound, OutputKept
<1>5. r.closes = 0 => Ended(r)
  BY <1>2, <1>3 DEF ProcSound, Ended
<1> QED
  BY <1>1, <1>2, <1>3, <1>4, <1>5, OneProc DEF ProcSound, r

\* A reader takes a chunk and sends it while the budget lasts.
LEMMA CopyKeeps ==
  ASSUME SessionsInv, NEW p \in DOMAIN proc, NEW s \in Stream, Copy(p, s)
  PROVE  SessionsInv'
<1> DEFINE q == proc[p]
           r == [q EXCEPT !.pipe[s] = @ - 1, !.sent = IF @ < Budget THEN @ + 1 ELSE @]
           pipe == [q.pipe EXCEPT ![s] = @ - 1]
           sent == IF q.sent < Budget THEN q.sent + 1 ELSE q.sent
<1>1. q.reader[s] = "copy" /\ q.pipe[s] > 0 /\ Only(p, r)
  BY DEF Copy
<1>2. q \in ProcType /\ ProcSound(q) /\ MaxChunks \in Nat /\ Budget \in Nat
  BY ProcsTyped, SessionsAssumption
<1>3. /\ q.made \in [Stream -> 0 .. MaxChunks] /\ q.pipe \in [Stream -> 0 .. MaxChunks]
      /\ \A t \in Stream : q.pipe[t] <= q.made[t]
      /\ q.sent = IF Budget <= Taken(q) THEN Budget ELSE Taken(q)
  BY <1>2, ProcFields DEF ProcSound, OutputKept
<1>4. /\ pipe \in [Stream -> 0 .. MaxChunks] /\ \A t \in Stream : pipe[t] <= q.made[t]
      /\ \A t \in Stream : q.pipe[t] = 0 => t # s /\ pipe[t] = 0
  BY <1>1, <1>2, <1>3
<1>5. /\ Taken(q) \in Nat
      /\ q.made["stdout"] - pipe["stdout"] + (q.made["stderr"] - pipe["stderr"]) = Taken(q) + 1
  BY <1>2, <1>3 DEF Taken, Stream
<1>6. sent = IF Budget <= Taken(q) + 1 THEN Budget ELSE Taken(q) + 1
  BY <1>2, <1>3, <1>5
<1> HIDE DEF sent, pipe
<1>7. sent \in 0 .. 2 * MaxChunks
  BY <1>3, <1>4, <1>5, <1>6, TakenBound
<1>8. /\ r \in ProcType /\ r.pipe = pipe /\ r.sent = sent
      /\ r.owner = q.owner /\ r.pty = q.pty /\ r.made = q.made /\ r.held = q.held
      /\ r.reader = q.reader /\ r.state = q.state /\ r.waiter = q.waiter /\ r.closes = q.closes
  BY <1>2, <1>4, <1>7 DEF ProcType, pipe, sent
<1> HIDE DEF r
<1>9. OutputKept(r)
  <2>1. Taken(r) = Taken(q) + 1
    BY <1>5, <1>8 DEF Taken
  <2> QED
    BY <1>2, <1>4, <1>6, <1>8, <2>1 DEF ProcSound, OutputKept
<1>10. r.closes = 0 => Ended(r)
  BY <1>2, <1>4, <1>8 DEF ProcSound, Ended
<1> QED
  BY <1>1, <1>2, <1>8, <1>9, <1>10, OneProc DEF ProcSound, r

\* A reader ends when everything has been read and nobody writes any more, or
\* when the terminal was closed under it.
LEMMA CopyEndsKeeps ==
  ASSUME SessionsInv, NEW p \in DOMAIN proc, NEW s \in Stream, CopyEnds(p, s)
  PROVE  SessionsInv'
<1> DEFINE q == proc[p]
           r == [q EXCEPT !.reader[s] = "eof"]
           reader == [q.reader EXCEPT ![s] = "eof"]
<1>1. /\ (q.state = "exited" /\ ~q.held /\ q.pipe[s] = 0) \/ q.closes > 0
      /\ Only(p, r)
  BY DEF CopyEnds
<1>2. q \in ProcType /\ ProcSound(q)
  BY ProcsTyped
<1>3. reader \in [Stream -> {"copy", "eof"}] /\ \A t \in Stream : t # s => reader[t] = q.reader[t]
  BY <1>2, ProcFields
<1>4. /\ r \in ProcType /\ r.reader = reader
      /\ r.owner = q.owner /\ r.pty = q.pty /\ r.made = q.made /\ r.pipe = q.pipe
      /\ r.held = q.held /\ r.sent = q.sent /\ r.waiter = q.waiter /\ r.closes = q.closes
      /\ r.state = q.state
  BY <1>2, <1>3 DEF ProcType
<1>5. \A t \in Stream : q.reader[t] = "eof" => reader[t] = "eof"
  BY <1>2, ProcFields
<1> HIDE DEF r, reader
<1>6. OutputKept(r)
  <2>1. Taken(r) = Taken(q)
    BY <1>4 DEF Taken
  <2> QED
    BY <1>2, <1>4, <2>1 DEF ProcSound, OutputKept
<1>7. r.closes = 0 => Ended(r)
  <2> SUFFICES ASSUME q.closes = 0 PROVE Ended(r)
    BY <1>4
  <2>1. q.state = "exited" /\ ~q.held /\ q.pipe[s] = 0 /\ Ended(q)
    BY <1>1, <1>2 DEF ProcSound
  <2> QED
    BY <1>3, <1>4, <1>5, <2>1 DEF Ended
<1> QED
  BY <1>1, <1>2, <1>4, <1>6, <1>7, OneProc DEF ProcSound, r

\* The waiter moves on, at first when the streams are at their ends.
LEMMA WaiterKeeps ==
  ASSUME SessionsInv, NEW p \in DOMAIN proc, Drained(p) \/ Waited(p) \/ SendsExit(p)
  PROVE  SessionsInv'
<1> DEFINE q == proc[p]
           r(w) == [q EXCEPT !.waiter = w]
<1>1. PICK w \in {"wait", "exit", "forget"} :
        /\ Only(p, r(w))
        /\ q.waiter # "drain" \/ \A s \in Streams(p) : q.reader[s] = "eof"
  BY DEF Drained, Waited, SendsExit
<1>2. q \in ProcType /\ ProcSound(q)
  BY ProcsTyped
<1>3. /\ r(w) \in ProcType /\ r(w).waiter = w
      /\ r(w).owner = q.owner /\ r(w).pty = q.pty /\ r(w).made = q.made /\ r(w).pipe = q.pipe
      /\ r(w).held = q.held /\ r(w).sent = q.sent /\ r(w).reader = q.reader
      /\ r(w).closes = q.closes /\ r(w).state = q.state
  BY <1>2 DEF ProcType
<1> HIDE DEF r
<1>4. OutputKept(r(w))
  <2>1. Taken(r(w)) = Taken(q)
    BY <1>3 DEF Taken
  <2> QED
    BY <1>2, <1>3, <2>1 DEF ProcSound, OutputKept
<1>5. q.closes = 0 => Ended(r(w))
  <2> SUFFICES ASSUME q.closes = 0 PROVE Ended(r(w))
    OBVIOUS
  <2>1. \A s \in Stream : (s = "stdout" \/ ~q.pty) => q.reader[s] = "eof"
    BY <1>1, <1>2 DEF ProcSound, Ended, Streams, Stream
  <2> QED
    BY <1>2, <1>3, <2>1 DEF ProcSound, Ended
<1> QED
  BY <1>1, <1>2, <1>3, <1>4, <1>5, OneProc DEF ProcSound, r

\* The handle is forgotten and the terminal closed.
LEMMA ForgetsKeeps ==
  ASSUME SessionsInv, NEW p \in DOMAIN proc, Forgets(p)
  PROVE  SessionsInv'
<1> DEFINE q == proc[p]
           c == Closed(q)
           r == [c EXCEPT !.waiter = "gone"]
<1>1. /\ q.waiter = "forget" /\ records' = records \ {p} /\ proc' = [proc EXCEPT ![p] = r]
      /\ UNCHANGED <<loop, session, hello, token, frames>>
  BY DEF Forgets
<1>2. PICK n \in 0 .. MaxProcs : proc \in [1 .. n -> ProcType]
  BY DEF SessionsInv, ProcsSound, SessionsTypeOK
<1>3. q \in ProcType /\ ProcSound(q)
  BY ProcsTyped
<1>4. /\ c \in ProcType /\ ProcSound(c)
      /\ c.owner = q.owner /\ c.state # "running" /\ c.waiter = "forget"
  BY <1>1, <1>3, ClosedSound
<1> HIDE DEF c
<1>5. /\ r \in ProcType /\ r.waiter = "gone"
      /\ r.owner = c.owner /\ r.pty = c.pty /\ r.made = c.made /\ r.pipe = c.pipe
      /\ r.held = c.held /\ r.sent = c.sent /\ r.reader = c.reader
      /\ r.closes = c.closes /\ r.state = c.state
  BY <1>4 DEF ProcType
<1> HIDE DEF r
<1>6. ProcSound(r)
  <2>1. Taken(r) = Taken(c)
    BY <1>5 DEF Taken
  <2>2. OutputKept(r)
    BY <1>4, <1>5, <2>1 DEF ProcSound, OutputKept
  <2>3. r.closes = 0 => Ended(r)
    BY <1>4, <1>5 DEF ProcSound, Ended
  <2> QED
    BY <1>4, <1>5, <2>2, <2>3 DEF ProcSound
<1>7. /\ proc' \in [1 .. n -> ProcType] /\ DOMAIN proc' = DOMAIN proc
      /\ proc'[p] = r /\ \A o \in DOMAIN proc : o # p => proc'[o] = proc[o]
  BY <1>1, <1>2, <1>5
<1>8. ProcsSound'
  BY <1>1, <1>2, <1>6, <1>7 DEF SessionsInv, ProcsSound, SessionsTypeOK
<1>9. records \subseteq DOMAIN proc
  BY DEF SessionsInv, ProcsSound, SessionsTypeOK
<1>10. HandlesScoped'
  BY <1>1, <1>4, <1>5, <1>7, <1>9 DEF SessionsInv, HandlesScoped
<1> QED
  BY <1>8, <1>10 DEF SessionsInv

-----------------------------------------------------------------------------
(* Sessions: the frame loop *)

\* All that frames can address is closed: nothing runs any more.
LEMMA AllClosed ==
  ASSUME SessionsInv, proc' = CloseAll(records), records' = {}
  PROVE  /\ \E n \in 0 .. MaxProcs : proc' \in [1 .. n -> ProcType]
         /\ \A p \in DOMAIN proc' : ProcSound(proc'[p]) /\ proc'[p].state # "running"
<1>1. PICK n \in 0 .. MaxProcs : proc \in [1 .. n -> ProcType]
  BY DEF SessionsInv, ProcsSound, SessionsTypeOK
<1>2. proc' = [p \in 1 .. n |-> IF p \in records THEN Closed(proc[p]) ELSE proc[p]]
  BY <1>1 DEF CloseAll
<1>3. ASSUME NEW p \in 1 .. n
      PROVE  proc'[p] \in ProcType /\ ProcSound(proc'[p]) /\ proc'[p].state # "running"
  <2>1. proc[p] \in ProcType /\ ProcSound(proc[p])
    BY <1>1, ProcsTyped
  <2>2. CASE p \in records
    BY <1>2, <2>1, <2>2, ClosedSound
  <2>3. CASE p \notin records
    BY <1>1, <1>2, <2>1, <2>3 DEF SessionsInv, HandlesScoped
  <2> QED
    BY <2>2, <2>3
<1>4. proc' \in [1 .. n -> ProcType] /\ DOMAIN proc' = 1 .. n
  BY <1>2, <1>3
<1> QED
  BY <1>3, <1>4

\* A frame of another session finds no process of the previous one.
LEMMA ResetKeeps ==
  ASSUME SessionsInv, NEW n \in Tenant, Frame(n), Reset(n), hello' \in BOOLEAN, token' \in BOOLEAN
  PROVE  SessionsInv'
<1>1. /\ loop = "read" /\ frames' = frames + 1 /\ frames < MaxFrames
      /\ session' = n /\ loop' = loop
  BY DEF Frame
<1>2. frames' \in 0 .. MaxFrames
  BY <1>1, SessionsAssumption DEF SessionsInv, ProcsSound, SessionsTypeOK
<1>3. CASE n = session
  BY <1>1, <1>2, <1>3 DEF Reset, SessionsInv, ProcsSound, SessionsTypeOK, HandlesScoped
<1>4. CASE n # session
  <2>1. proc' = CloseAll(records) /\ records' = {}
    BY <1>4 DEF Reset
  <2> QED
    BY <1>1, <1>2, <2>1, AllClosed DEF SessionsInv, ProcsSound, SessionsTypeOK, HandlesScoped
<1> QED
  BY <1>3, <1>4

\* The frame loop ends and closes the table.
LEMMA LoopEndsKeeps ==
  ASSUME SessionsInv, LoopEnds
  PROVE  SessionsInv'
<1>1. /\ loop' = "done" /\ proc' = CloseAll(records) /\ records' = {}
      /\ UNCHANGED <<session, hello, token, frames>>
  BY DEF LoopEnds
<1> QED
  BY <1>1, AllClosed DEF SessionsInv, ProcsSound, SessionsTypeOK, HandlesScoped

\* A process starts for the session whose frame asks for it.
LEMMA ExecKeeps ==
  ASSUME SessionsInv, NEW n \in Tenant, NEW pty \in BOOLEAN, FrameExec(n, pty)
  PROVE  SessionsInv'
<1> DEFINE r == [owner |-> n, pty |-> pty, state |-> "running", held |-> FALSE,
                 pipe |-> [s \in Stream |-> 0], made |-> [s \in Stream |-> 0],
                 reader |-> [s \in Stream |-> "copy"], sent |-> 0, waiter |-> "drain", closes |-> 0]
<1>1. PICK m \in 0 .. MaxProcs : proc \in [1 .. m -> ProcType]
  BY DEF SessionsInv, ProcsSound, SessionsTypeOK
<1>2. MaxProcs \in Nat /\ MaxFrames \in Nat /\ DOMAIN proc = 1 .. m /\ Cardinality(1 .. m) = m
  BY <1>1, FS_Interval, SessionsAssumption
<1>3. /\ HasHello(n) /\ Frame(n) /\ m + 1 <= MaxProcs
      /\ proc' = [q \in 1 .. m + 1 |-> IF q < m + 1 THEN proc[q] ELSE r]
      /\ records' = records \cup {m + 1} /\ UNCHANGED <<hello, token>>
  BY <1>2 DEF FrameExec, SessionReady
<1>4. r \in ProcType /\ ProcSound(r) /\ r.owner = n
  BY NewProc
<1> HIDE DEF r
<1>5. /\ n = session /\ session' = n /\ loop = "read" /\ loop' = loop
      /\ frames' \in 0 .. MaxFrames
  BY <1>2, <1>3 DEF HasHello, Frame, SessionsInv, ProcsSound, SessionsTypeOK
<1>6. /\ m + 1 \in 0 .. MaxProcs /\ proc' \in [1 .. m + 1 -> ProcType]
      /\ proc'[m + 1] = r /\ \A q \in 1 .. m : proc'[q] = proc[q]
  BY <1>1, <1>2, <1>3, <1>4
<1>7. DOMAIN proc' = 1 .. m + 1 /\ \A q \in 1 .. m + 1 : q = m + 1 \/ q \in 1 .. m
  BY <1>2, <1>6
<1>8. records \subseteq 1 .. m /\ records' \subseteq 1 .. m + 1
  BY <1>2, <1>3 DEF SessionsInv, ProcsSound, SessionsTypeOK
<1>9. ProcsSound'
  <2>1. \A q \in DOMAIN proc' : ProcSound(proc'[q])
    BY <1>2, <1>4, <1>6, <1>7 DEF SessionsInv, ProcsSound
  <2>2. SessionsTypeOK'
    BY <1>3, <1>5, <1>6, <1>7, <1>8 DEF SessionsInv, ProcsSound, SessionsTypeOK
  <2> QED
    BY <2>1, <2>2 DEF ProcsSound
<1>10. HandlesScoped'
  BY <1>2, <1>3, <1>4, <1>5, <1>6, <1>7, <1>8 DEF SessionsInv, HandlesScoped
<1> QED
  BY <1>9, <1>10 DEF SessionsInv

\* A signal reaches a process of the session.
LEMMA SignalKeeps ==
  ASSUME SessionsInv, NEW n \in Tenant, NEW p \in DOMAIN proc, FrameSignal(n, p)
  PROVE  SessionsInv'
<1> DEFINE q == proc[p]
           r == [q EXCEPT !.state = IF @ = "running" THEN "killed" ELSE @]
<1>1. /\ HasHello(n) /\ Frame(n) /\ proc' = [proc EXCEPT ![p] = r]
      /\ UNCHANGED <<hello, token, records>>
  BY DEF FrameSignal, SessionReady
<1>2. PICK m \in 0 .. MaxProcs : proc \in [1 .. m -> ProcType]
  BY DEF SessionsInv, ProcsSound, SessionsTypeOK
<1>3. q \in ProcType /\ ProcSound(q)
  BY ProcsTyped
<1>4. /\ r \in ProcType /\ r.state # "running" /\ (q.state = "exited" => r.state = "exited")
      /\ r.owner = q.owner /\ r.pty = q.pty /\ r.made = q.made /\ r.pipe = q.pipe
      /\ r.held = q.held /\ r.sent = q.sent /\ r.reader = q.reader
      /\ r.closes = q.closes /\ r.waiter = q.waiter
  BY <1>3 DEF ProcType
<1> HIDE DEF r
<1>5. ProcSound(r)
  <2>1. Taken(r) = Taken(q)
    BY <1>4 DEF Taken
  <2>2. OutputKept(r)
    BY <1>3, <1>4, <2>1 DEF ProcSound, OutputKept
  <2>3. r.closes = 0 => Ended(r)
    BY <1>3, <1>4 DEF ProcSound, Ended
  <2> QED
    BY <1>3, <1>4, <2>2, <2>3 DEF ProcSound
<1>6. /\ n = session /\ session' = n /\ loop' = loop
      /\ frames' \in 0 .. MaxFrames
  BY <1>1, SessionsAssumption DEF HasHello, Frame, SessionsInv, ProcsSound, SessionsTypeOK
<1>7. /\ proc' \in [1 .. m -> ProcType] /\ DOMAIN proc' = DOMAIN proc
      /\ proc'[p] = r /\ \A o \in DOMAIN proc : o # p => proc'[o] = proc[o]
  BY <1>1, <1>2, <1>4
<1>8. ProcsSound'
  <2>1. \A o \in DOMAIN proc' : ProcSound(proc'[o])
    BY <1>5, <1>7 DEF SessionsInv, ProcsSound
  <2>2. SessionsTypeOK'
    BY <1>1, <1>2, <1>6, <1>7 DEF SessionsInv, ProcsSound, SessionsTypeOK
  <2> QED
    BY <2>1, <2>2 DEF ProcsSound
<1>9. records \subseteq DOMAIN proc
  BY DEF SessionsInv, ProcsSound, SessionsTypeOK
<1>10. HandlesScoped'
  BY <1>1, <1>4, <1>6, <1>7, <1>9 DEF SessionsInv, HandlesScoped
<1> QED
  BY <1>8, <1>10 DEF SessionsInv

-----------------------------------------------------------------------------
(* Sessions: the specification *)

\* Every step keeps the invariant.
LEMMA SessionsStep == SessionsInv /\ [SessionsNext]_sessionVars => SessionsInv'
<1> SUFFICES ASSUME SessionsInv, [SessionsNext]_sessionVars PROVE SessionsInv'
  OBVIOUS
<1>1. ASSUME NEW n \in Tenant, FrameInit(n) \/ FrameHello(n) PROVE SessionsInv'
  <2>1. Frame(n) /\ Reset(n) /\ hello' \in BOOLEAN
    BY <1>1 DEF FrameInit, FrameHello
  <2>2. token' \in BOOLEAN
    BY <1>1 DEF FrameInit, FrameHello, HasToken
  <2> QED
    BY <2>1, <2>2, ResetKeeps
<1>2. CASE \E n \in Tenant, pty \in BOOLEAN : FrameExec(n, pty)
  BY <1>2, ExecKeeps
<1>3. CASE \E n \in Tenant, p \in DOMAIN proc : FrameSignal(n, p)
  BY <1>3, SignalKeeps
<1>4. CASE LoopEnds
  BY <1>4, LoopEndsKeeps
<1>5. ASSUME NEW p \in DOMAIN proc,
             \/ \E s \in Stream : Writes(p, s)
             \/ (\E held \in BOOLEAN : Exits(p, held)) \/ DescendantExits(p)
      PROVE  SessionsInv'
  BY <1>5, WritesKeeps, ExitsKeeps, DescendantKeeps
<1>6. ASSUME NEW p \in DOMAIN proc, Reader(p) PROVE SessionsInv'
  BY <1>6, CopyKeeps, CopyEndsKeeps DEF Reader
<1>7. ASSUME NEW p \in DOMAIN proc, Waiter(p) PROVE SessionsInv'
  BY <1>7, WaiterKeeps, ForgetsKeeps DEF Waiter
<1>8. CASE UNCHANGED sessionVars
  BY <1>8 DEF sessionVars, SessionsInv, ProcsSound, SessionsTypeOK, HandlesScoped
<1> QED
  BY <1>1, <1>2, <1>3, <1>4, <1>5, <1>6, <1>7, <1>8 DEF SessionsNext

\* Emptied streams have sent all that was written, up to the budget.
LEMMA SessionsEnough == SessionsInv => SessionsSafe
<1> SUFFICES ASSUME SessionsInv PROVE SessionsSafe
  OBVIOUS
<1>1. ASSUME NEW p \in DOMAIN proc, proc[p].waiter = "forget", proc[p].closes = 0
      PROVE  proc[p].sent = Min({Budget, proc[p].made["stdout"] + proc[p].made["stderr"]})
  <2> DEFINE q == proc[p]
  <2>1. q \in ProcType /\ ProcSound(q) /\ MaxChunks \in Nat /\ Budget \in Nat
    BY ProcsTyped, SessionsAssumption
  <2>2. OutputKept(q) /\ Ended(q)
    BY <1>1, <2>1 DEF ProcSound
  <2>3. /\ q.made \in [Stream -> 0 .. MaxChunks] /\ q.pipe \in [Stream -> 0 .. MaxChunks]
        /\ q.pty \in BOOLEAN
    BY <2>1, ProcFields
  <2>4. q.pipe["stdout"] = 0
    BY <1>1, <2>2 DEF Ended, Stream
  <2>5. q.pipe["stderr"] = 0
    <3>1. CASE q.pty
      BY <2>1, <2>2, <2>3, <3>1 DEF OutputKept, Stream
    <3>2. CASE ~q.pty
      BY <1>1, <2>2, <3>2 DEF Ended, Stream
    <3> QED
      BY <3>1, <3>2
  <2>6. Taken(q) = q.made["stdout"] + q.made["stderr"] /\ Taken(q) \in Nat
    BY <2>1, <2>3, <2>4, <2>5 DEF Taken, Stream
  <2> QED
    BY <2>1, <2>2, <2>6, MinOfTwo DEF OutputKept
<1>2. ExitAfterOutput
  BY <1>1 DEF ExitAfterOutput
<1>3. TerminalClosedOnce
  BY ProcsTyped DEF TerminalClosedOnce, ProcSound
<1> QED
  BY <1>2, <1>3 DEF SessionsInv, ProcsSound, SessionsSafe

\* The initial states have the invariant.
LEMMA SessionsInitial == SessionsInit => SessionsInv
<1> SUFFICES ASSUME SessionsInit PROVE SessionsInv
  OBVIOUS
<1>1. 0 \in 0 .. MaxProcs /\ 0 \in 0 .. MaxFrames /\ 1 .. 0 = {}
  BY SessionsAssumption
<1>2. proc \in [1 .. 0 -> ProcType] /\ DOMAIN proc = {}
  BY <1>1 DEF SessionsInit
<1> QED
  BY <1>1, <1>2 DEF SessionsInit, SessionsInv, ProcsSound, SessionsTypeOK, HandlesScoped

\* A handle reaches only processes of the session that is being served, none of
\* an earlier session runs on, a terminal is closed once, and exec-exit comes
\* after everything that was written, up to the budget.
THEOREM HandlesStayScoped == SessionsSpec => []SessionsSafe
<1>1. SessionsInit /\ [][SessionsNext]_sessionVars => []SessionsInv
  BY SessionsInitial, SessionsStep, PTL
<1> QED
  BY <1>1, SessionsEnough, PTL DEF SessionsSpec

-----------------------------------------------------------------------------
(* Promised files *)

\* Types, in parts.  Promises, files and deliveries belong to ids that were
\* given.
Given == 1 .. made
TableTyped ==
  /\ made \in 0 .. MaxPromises
  /\ promises \in [DOMAIN promises -> Record] /\ DOMAIN promises \subseteq Given
  /\ handle \in [DOMAIN handle -> {"open", "closed"}] /\ DOMAIN handle \subseteq Given
DiskTyped ==
  /\ disk \in [DOMAIN disk -> Length] /\ DOMAIN disk \subseteq Path
  /\ delivered \in [DOMAIN delivered -> Path] /\ DOMAIN delivered \subseteq Given
HelperTyped ==
  /\ bridge \in BOOLEAN /\ helper \in BOOLEAN /\ crashed \in BOOLEAN
  /\ offered \subseteq Given /\ waiting \subseteq offered
  /\ ~helper => offered = {}

\* What a handler remembers: an id that was given, the path of a copy, a
\* promise that was pasted.
JobSound(j) ==
  /\ j \in Jobs
  /\ j.op = "send" => j.id \in Given
  /\ j.op = "open" => j.path[1] = "copy"
  /\ j.op = "finish" => Started(j.id)
JobsSound == \A c \in Client : JobSound(job[c])

\* The path that the desktop chose for a promise is that of no other one.
PathsOwn ==
  \A id \in DOMAIN promises : promises[id].path[1] = "drop" => promises[id].path = <<"drop", id>>

\* What was delivered is not listed any more, and is there.
DeliveredKept ==
  \A id \in DOMAIN delivered :
    /\ id \notin DOMAIN promises
    /\ delivered[id][1] = "drop" => delivered[id] = <<"drop", id>> /\ delivered[id] \in DOMAIN disk

\* What the desktop waits for is being written, or will be told.
Served ==
  \A id \in waiting :
    \/ id \in DOMAIN promises /\ Started(id)
    \/ \E c \in Client : job[c].op = "tell" /\ id \in job[c].ids

\* The inductive invariant of the promised files.
PromisesInv ==
  /\ TableTyped /\ DiskTyped /\ HelperTyped
  /\ job \in [Client -> Jobs] /\ JobsSound
  /\ PathsOwn /\ NoOpenFileLost /\ Served /\ DeliveredKept

\* The handlers' steps: what is left alone by all that does not paste.
LEMMA JobMoves ==
  ASSUME job \in [Client -> Jobs], JobsSound, NEW c \in Client, NEW j, JobSound(j)', Begin(c, j),
         Given \subseteq Given', DOMAIN handle \subseteq DOMAIN handle'
  PROVE  job' \in [Client -> Jobs] /\ JobsSound'
<1>1. job' \in [Client -> Jobs] /\ job'[c] = j /\ \A d \in Client : d # c => job'[d] = job[d]
  BY DEF Begin, JobSound, Jobs
<1>2. ASSUME NEW d \in Client PROVE JobSound(job[d])'
  <2>1. CASE d = c
    BY <1>1, <2>1 DEF JobSound, Started
  <2>2. CASE d # c
    BY <1>1, <2>2 DEF JobsSound, JobSound, Started, Jobs
  <2> QED
    BY <2>1, <2>2
<1> QED
  BY <1>1, <1>2 DEF JobsSound

\* Handlers that do not move keep what they know while promises are added.
LEMMA JobsStay ==
  ASSUME JobsSound, UNCHANGED job, Given \subseteq Given', DOMAIN handle \subseteq DOMAIN handle'
  PROVE  JobsSound'
BY DEF JobsSound, JobSound, Started, Jobs

\* A handler that is idle knows nothing.
LEMMA IdleSound == JobSound(Idle)'
BY DEF JobSound, Idle, Jobs

\* Who tells the helper still does when another handler, or one that does not
\* tell, moves.
LEMMA TellersStay ==
  ASSUME job \in [Client -> Jobs], NEW c \in Client, NEW j, Begin(c, j), job[c].op # "tell"
  PROVE  \A d \in Client : job[d].op = "tell" => job'[d] = job[d]
BY DEF Begin

\* Handlers that look, choose and decide change nothing but their job.
LEMMA HandlerStep ==
  ASSUME PromisesInv, NEW c \in Client,
         \/ ChoosePath(c)
         \/ \E id \in Promise : AppRequest(c, id) \/ FinishBegin(c, id)
  PROVE  PromisesInv'
<1>1. /\ TableTyped /\ DiskTyped /\ HelperTyped /\ job \in [Client -> Jobs] /\ JobsSound
      /\ PathsOwn /\ NoOpenFileLost /\ Served /\ DeliveredKept
  BY DEF PromisesInv
<1>2. UNCHANGED <<made, promises, handle, disk, bridge, helper, offered, waiting, delivered, crashed>>
  BY DEF ChoosePath, AppRequest, FinishBegin, files, helperSide
<1>3. PICK j : Begin(c, j) /\ JobSound(j) /\ job[c].op # "tell"
  <2>1. CASE ChoosePath(c)
    <3>1. job[c].op = "choose" /\ job[c] \in Jobs
      BY <1>1, <2>1 DEF ChoosePath
    <3>2. job[c].id \in Promise
      BY <3>1 DEF Jobs, Idle
    <3>3. \/ Begin(c, Idle)
          \/ \E n \in FreeCopies : Begin(c, [op |-> "open", id |-> job[c].id, path |-> <<"copy", n>>])
      BY <2>1 DEF ChoosePath, End
    <3>4. JobSound(Idle)
      BY DEF JobSound, Idle, Jobs
    <3>5. ASSUME NEW n \in FreeCopies
          PROVE  JobSound([op |-> "open", id |-> job[c].id, path |-> <<"copy", n>>])
      <4>1. <<"copy", n>> \in Path /\ <<"copy", n>>[1] = "copy"
        BY DEF FreeCopies, Path
      <4> QED
        BY <3>2, <4>1 DEF JobSound, Jobs
    <3> QED
      BY <3>1, <3>3, <3>4, <3>5
  <2>2. ASSUME NEW id \in Promise, AppRequest(c, id)
        PROVE  \E j : Begin(c, j) /\ JobSound(j) /\ job[c].op # "tell"
    <3>1. Begin(c, [op |-> "choose", id |-> id]) /\ job[c] = Idle
      BY <2>2 DEF AppRequest, Free
    <3>2. JobSound([op |-> "choose", id |-> id])
      BY DEF JobSound, Jobs
    <3> QED
      BY <3>1, <3>2 DEF Idle
  <2>3. ASSUME NEW id \in Promise, FinishBegin(c, id)
        PROVE  \E j : Begin(c, j) /\ JobSound(j) /\ job[c].op # "tell"
    <3>1. Begin(c, [op |-> "finish", id |-> id]) /\ job[c] = Idle /\ Started(id)
      BY <2>3 DEF FinishBegin, Owned, Free
    <3>2. JobSound([op |-> "finish", id |-> id])
      BY <3>1 DEF JobSound, Jobs
    <3> QED
      BY <3>1, <3>2 DEF Idle
  <2> QED
    BY <2>1, <2>2, <2>3
<1>4. JobSound(j)'
  BY <1>2, <1>3 DEF JobSound, Given, Started
<1>5. job' \in [Client -> Jobs] /\ JobsSound'
  BY <1>1, <1>2, <1>3, <1>4, JobMoves DEF Given
<1>6. \A d \in Client : job[d].op = "tell" => job'[d] = job[d]
  BY <1>1, <1>3, TellersStay
<1>7. Served'
  BY <1>1, <1>2, <1>6 DEF Served, Started
<1>8. TableTyped' /\ DiskTyped'
  BY <1>1, <1>2 DEF TableTyped, DiskTyped, Given
<1>9. HelperTyped'
  BY <1>1, <1>2 DEF HelperTyped, Given
<1>10. PathsOwn' /\ NoOpenFileLost' /\ DeliveredKept'
  BY <1>1, <1>2 DEF PathsOwn, NoOpenFileLost, DeliveredKept
<1> QED
  BY <1>5, <1>7, <1>8, <1>9, <1>10 DEF PromisesInv

\* A new offer.
LEMMA PublishPromises ==
  ASSUME PromisesInv, NEW c \in Client, NEW s \in Services, NEW n \in {0, Unknown}, Publish(c, s, n)
  PROVE  PromisesInv'
<1>1. /\ TableTyped /\ DiskTyped /\ HelperTyped /\ job \in [Client -> Jobs] /\ JobsSound
      /\ PathsOwn /\ NoOpenFileLost /\ Served /\ DeliveredKept
  BY DEF PromisesInv
<1> DEFINE r == [service |-> s, size |-> n, path |-> NoPath, socket |-> c]
           kept == Drop(promises, Replaced(s))
<1>2. PICK new : /\ new = made + 1 /\ made' = new /\ promises' = Mapped(kept, new, r)
                 /\ Begin(c, [op |-> "send", id |-> new, attempt |-> 0])
  BY DEF Publish
<1> DEFINE j == [op |-> "send", id |-> new, attempt |-> 0]
<1>3. /\ made < MaxPromises /\ job[c] = Idle
      /\ UNCHANGED <<handle, disk, bridge, helper, offered, waiting, delivered, crashed>>
  BY DEF Publish, Free, helperSide
<1>4. /\ new \in Promise /\ new \notin Given /\ Given \subseteq Given' /\ new \in Given'
      /\ made' \in 0 .. MaxPromises
  BY <1>1, <1>2, <1>3, PromisesAssumption DEF TableTyped, Given, Promise
<1>5. r \in Record /\ r.path[1] # "drop"
  BY PromisesAssumption DEF Record, NoPath, Unknown, Length
<1>6. Begin(c, j) /\ JobSound(j)'
  BY <1>2, <1>4 DEF JobSound, Jobs
<1> HIDE DEF r, j
<1>7. /\ DOMAIN kept = DOMAIN promises \ Replaced(s) /\ kept \in [DOMAIN kept -> Record]
      /\ \A id \in DOMAIN kept : kept[id] = promises[id]
  BY <1>1 DEF TableTyped, Drop, Restrict
<1> HIDE DEF kept
<1>8. /\ DOMAIN promises' = DOMAIN kept \cup {new} /\ promises' \in [DOMAIN promises' -> Record]
      /\ promises'[new] = r
      /\ \A id \in DOMAIN kept : id # new => promises'[id] = kept[id]
  BY <1>2, <1>5, <1>7 DEF Mapped
<1>9. new \notin DOMAIN promises /\ new \notin DOMAIN handle /\ new \notin DOMAIN delivered
  BY <1>1, <1>4 DEF TableTyped, DiskTyped
<1>10. \A id \in DOMAIN handle : id \in DOMAIN promises' <=> id \in DOMAIN promises
  BY <1>7, <1>8, <1>9 DEF Replaced, Started
<1>11. TableTyped'
  <2>1. DOMAIN promises' \subseteq Given' /\ DOMAIN handle' \subseteq Given'
    BY <1>1, <1>3, <1>4, <1>7, <1>8 DEF TableTyped
  <2>2. handle' \in [DOMAIN handle' -> {"open", "closed"}]
    BY <1>1, <1>3 DEF TableTyped
  <2> QED
    BY <1>4, <1>8, <2>1, <2>2 DEF TableTyped
<1>12. DiskTyped'
  BY <1>1, <1>3, <1>4 DEF DiskTyped
<1>13. HelperTyped'
  BY <1>1, <1>3, <1>4 DEF HelperTyped
<1>14. job' \in [Client -> Jobs] /\ JobsSound' /\ PathsOwn' /\ NoOpenFileLost'
  <2>1. job' \in [Client -> Jobs] /\ JobsSound'
    BY <1>1, <1>3, <1>4, <1>6, JobMoves
  <2>2. PathsOwn'
    BY <1>1, <1>5, <1>7, <1>8 DEF PathsOwn
  <2>3. NoOpenFileLost'
    BY <1>1, <1>3, <1>10 DEF NoOpenFileLost
  <2> QED
    BY <2>1, <2>2, <2>3
<1>15. Served'
  <2>1. \A d \in Client : job[d].op = "tell" => job'[d] = job[d]
    BY <1>1, <1>3, <1>6, TellersStay DEF Idle
  <2>2. \A id \in DOMAIN handle : id \in DOMAIN promises => id \in DOMAIN promises'
    BY <1>10
  <2> QED
    BY <1>1, <1>3, <2>1, <2>2 DEF Served, Started
<1>16. DeliveredKept'
  BY <1>1, <1>3, <1>7, <1>8, <1>9 DEF DeliveredKept
<1> QED
  BY <1>11, <1>12, <1>13, <1>14, <1>15, <1>16 DEF PromisesInv

\* The offer reaches the helper, or does not.
LEMMA SendStep ==
  ASSUME PromisesInv, NEW c \in Client, PublishSend(c)
  PROVE  PromisesInv'
<1>1. /\ TableTyped /\ DiskTyped /\ HelperTyped /\ job \in [Client -> Jobs] /\ JobsSound
      /\ PathsOwn /\ NoOpenFileLost /\ Served /\ DeliveredKept
  BY DEF PromisesInv
<1>2. /\ job[c].op = "send"
      /\ UNCHANGED <<made, promises, handle, disk, waiting, delivered, crashed>>
  BY DEF PublishSend, files
<1>3. job[c] \in Jobs /\ job[c].id \in Given
  BY <1>1, <1>2 DEF JobsSound, JobSound
<1>4. PICK j : Begin(c, j) /\ JobSound(j)
  <2>1. Begin(c, Idle) \/ Begin(c, [job[c] EXCEPT !.attempt = 1])
    BY DEF PublishSend, End
  <2>2. JobSound(Idle)
    BY DEF JobSound, Idle, Jobs
  <2>3. job[c] \in [op : {"send"}, id : Promise, attempt : 0 .. 1]
    BY <1>2, <1>3 DEF Jobs, Idle
  <2>4. [job[c] EXCEPT !.attempt = 1] \in [op : {"send"}, id : Promise, attempt : 0 .. 1]
    BY <2>3
  <2>5. [job[c] EXCEPT !.attempt = 1].id = job[c].id
    BY <2>3
  <2>6. JobSound([job[c] EXCEPT !.attempt = 1])
    BY <1>3, <2>4, <2>5 DEF JobSound, Jobs
  <2> QED
    BY <2>1, <2>2, <2>6
<1>5. JobSound(j)'
  BY <1>2, <1>4 DEF JobSound, Given, Started
<1>6. job' \in [Client -> Jobs] /\ JobsSound'
  BY <1>1, <1>2, <1>4, <1>5, JobMoves DEF Given
<1>7. HelperTyped'
  <2>1. /\ offered' \subseteq Given /\ waiting \subseteq offered' /\ (~helper' => offered' = {})
        /\ bridge' \in BOOLEAN /\ helper' \in BOOLEAN
    <3>1. CASE bridge' = TRUE /\ helper' = TRUE /\ offered' = offered \cup {job[c].id}
      BY <1>1, <1>3, <3>1 DEF HelperTyped
    <3>2. CASE bridge /\ ~helper /\ bridge' = FALSE /\ helper' = FALSE /\ offered' = {}
      BY <1>1, <3>2 DEF HelperTyped
    <3>3. CASE UNCHANGED <<bridge, helper, offered>>
      BY <1>1, <3>3 DEF HelperTyped
    <3> QED
      BY <3>1, <3>2, <3>3 DEF PublishSend, helperSide
  <2>2. Given' = Given
    BY <1>2 DEF Given
  <2>3. crashed' \in BOOLEAN
    BY <1>1, <1>2 DEF HelperTyped
  <2> QED
    BY <1>2, <2>1, <2>2, <2>3, Zenon DEF HelperTyped
<1>8. \A d \in Client : job[d].op = "tell" => job'[d] = job[d]
  BY <1>1, <1>2, <1>4, TellersStay
<1>9. Served'
  BY <1>1, <1>2, <1>8 DEF Served, Started
<1>10. TableTyped' /\ DiskTyped'
  BY <1>1, <1>2 DEF TableTyped, DiskTyped, Given
<1>11. PathsOwn' /\ NoOpenFileLost' /\ DeliveredKept'
  BY <1>1, <1>2 DEF PathsOwn, NoOpenFileLost, DeliveredKept
<1> QED
  BY <1>6, <1>7, <1>9, <1>10, <1>11 DEF PromisesInv

\* A promise is pasted: its file is created, the promise has its path.
LEMMA PasteStep ==
  ASSUME PromisesInv, NEW id, Active(id), NEW path \in Path, OpenAt(id, path),
         path[1] = "drop" => path = <<"drop", id>>,
         UNCHANGED <<made, delivered>>
  PROVE  /\ TableTyped' /\ DiskTyped' /\ PathsOwn' /\ NoOpenFileLost' /\ DeliveredKept'
         /\ DOMAIN handle \subseteq DOMAIN handle'
         /\ \A o \in DOMAIN promises : Started(o) => o \in DOMAIN promises' /\ Started(o)'
         /\ id \in DOMAIN promises' /\ Started(id)'
<1>1. /\ TableTyped /\ DiskTyped /\ HelperTyped /\ job \in [Client -> Jobs] /\ JobsSound
      /\ PathsOwn /\ NoOpenFileLost /\ Served /\ DeliveredKept
  BY DEF PromisesInv
<1>2. id \in DOMAIN promises /\ id \notin DOMAIN handle
  BY DEF Active, Started
<1>3. promises[id] \in Record
  BY <1>1, <1>2 DEF TableTyped
<1>4. /\ DOMAIN promises' = DOMAIN promises /\ promises' \in [DOMAIN promises' -> Record]
      /\ promises'[id].path = path
      /\ \A o \in DOMAIN promises : o # id => promises'[o] = promises[o]
  BY <1>1, <1>2, <1>3 DEF OpenAt, TableTyped, Record
<1>5. /\ DOMAIN handle' = DOMAIN handle \cup {id} /\ handle' \in [DOMAIN handle' -> {"open", "closed"}]
      /\ handle'[id] = "open"
      /\ \A o \in DOMAIN handle : handle'[o] = handle[o]
  BY <1>1, <1>2 DEF OpenAt, Mapped, TableTyped
<1>6. DOMAIN disk' = DOMAIN disk \cup {path} /\ disk' \in [DOMAIN disk' -> Length]
  BY <1>1, PromisesAssumption DEF OpenAt, Mapped, DiskTyped, Length
<1>7. TableTyped'
  BY <1>1, <1>2, <1>4, <1>5 DEF TableTyped, Given
<1>8. DiskTyped'
  BY <1>1, <1>6 DEF DiskTyped, Given
<1>9. PathsOwn'
  BY <1>1, <1>4 DEF PathsOwn
<1>10. NoOpenFileLost'
  BY <1>1, <1>2, <1>4, <1>5 DEF NoOpenFileLost
<1>11. DeliveredKept'
  BY <1>1, <1>4, <1>6 DEF DeliveredKept
<1> QED
  BY <1>2, <1>4, <1>5, <1>7, <1>8, <1>9, <1>10, <1>11 DEF Started

\* A paste in Finder or Explorer asks for a file.
LEMMA HelperRequests ==
  ASSUME PromisesInv, NEW id \in Promise, HelperRequest(id)
  PROVE  PromisesInv'
<1>1. /\ TableTyped /\ DiskTyped /\ HelperTyped /\ job \in [Client -> Jobs] /\ JobsSound
      /\ PathsOwn /\ NoOpenFileLost /\ Served /\ DeliveredKept
  BY DEF PromisesInv
<1>2. /\ helper /\ id \in offered
      /\ UNCHANGED <<made, job, bridge, helper, offered, delivered, crashed>>
  BY DEF HelperRequest, helperSide
<1>3. HelperTyped'
  <2>1. waiting' \subseteq offered
    BY <1>1, <1>2 DEF HelperRequest, HelperTyped
  <2> QED
    BY <1>1, <1>2, <2>1 DEF HelperTyped, Given
<1>4. CASE Active(id) /\ waiting' = waiting \cup {id} /\ OpenAt(id, <<"drop", id>>)
  <2>1. /\ TableTyped' /\ DiskTyped' /\ PathsOwn' /\ NoOpenFileLost' /\ DeliveredKept'
        /\ DOMAIN handle \subseteq DOMAIN handle'
        /\ \A o \in DOMAIN promises : Started(o) => o \in DOMAIN promises' /\ Started(o)'
        /\ id \in DOMAIN promises' /\ Started(id)'
    <3>1. <<"drop", id>> \in Path
      BY DEF Path
    <3> QED
      BY <1>2, <1>4, <3>1, PasteStep
  <2>2. JobsSound' /\ job' \in [Client -> Jobs]
    BY <1>1, <1>2, <2>1, JobsStay DEF Given
  <2>3. Served'
    BY <1>1, <1>2, <1>4, <2>1 DEF Served
  <2> QED
    BY <1>3, <2>1, <2>2, <2>3 DEF PromisesInv
<1>5. CASE waiting' = waiting \ {id} /\ UNCHANGED files
  <2>1. UNCHANGED <<promises, handle, disk>>
    BY <1>5 DEF files
  <2>2. TableTyped' /\ DiskTyped' /\ job' \in [Client -> Jobs] /\ JobsSound'
    BY <1>1, <1>2, <2>1, JobsStay DEF TableTyped, DiskTyped, Given
  <2>3. PathsOwn' /\ NoOpenFileLost' /\ DeliveredKept'
    BY <1>1, <1>2, <2>1 DEF PathsOwn, NoOpenFileLost, DeliveredKept
  <2>4. Served'
    BY <1>1, <1>2, <1>5, <2>1 DEF Served, Started
  <2> QED
    BY <1>3, <2>2, <2>3, <2>4 DEF PromisesInv
<1> QED
  BY <1>4, <1>5 DEF HelperRequest

\* A caller opens a promise.
LEMMA OpenStepApp ==
  ASSUME PromisesInv, NEW c \in Client, OpenPromise(c)
  PROVE  PromisesInv'
<1>1. /\ TableTyped /\ DiskTyped /\ HelperTyped /\ job \in [Client -> Jobs] /\ JobsSound
      /\ PathsOwn /\ NoOpenFileLost /\ Served /\ DeliveredKept
  BY DEF PromisesInv
<1>2. /\ job[c].op = "open" /\ Begin(c, Idle)
      /\ UNCHANGED <<made, bridge, helper, offered, waiting, delivered, crashed>>
  BY DEF OpenPromise, End, helperSide
<1>3. HelperTyped'
  BY <1>1, <1>2 DEF HelperTyped, Given
<1>4. \A d \in Client : job[d].op = "tell" => job'[d] = job[d]
  BY <1>1, <1>2, TellersStay
<1>5. CASE Active(job[c].id) /\ OpenAt(job[c].id, job[c].path)
  <2>1. job[c].path \in Path /\ job[c].path[1] = "copy"
    BY <1>1, <1>2 DEF JobsSound, JobSound, Jobs, Idle
  <2>2. /\ TableTyped' /\ DiskTyped' /\ PathsOwn' /\ NoOpenFileLost' /\ DeliveredKept'
        /\ DOMAIN handle \subseteq DOMAIN handle'
        /\ \A o \in DOMAIN promises : Started(o) => o \in DOMAIN promises' /\ Started(o)'
    BY <1>2, <1>5, <2>1, PasteStep
  <2>3. job' \in [Client -> Jobs] /\ JobsSound'
    BY <1>1, <1>2, <2>2, JobMoves, IdleSound DEF Given
  <2>4. Served'
    BY <1>1, <1>2, <1>4, <2>2 DEF Served
  <2> QED
    BY <1>3, <2>2, <2>3, <2>4 DEF PromisesInv
<1>6. CASE UNCHANGED files
  <2>1. UNCHANGED <<promises, handle, disk>>
    BY <1>6 DEF files
  <2>2. job' \in [Client -> Jobs] /\ JobsSound'
    BY <1>1, <1>2, <2>1, JobMoves, IdleSound DEF Given
  <2>3. TableTyped' /\ DiskTyped'
    BY <1>1, <1>2, <2>1 DEF TableTyped, DiskTyped, Given
  <2>4. PathsOwn' /\ NoOpenFileLost' /\ DeliveredKept' /\ Served'
    BY <1>1, <1>2, <1>4, <2>1 DEF PathsOwn, NoOpenFileLost, DeliveredKept, Served, Started
  <2> QED
    BY <1>3, <2>2, <2>3, <2>4 DEF PromisesInv
<1> QED
  BY <1>5, <1>6 DEF OpenPromise

\* The app writes a chunk or declares the size.
LEMMA WriteSizeStep ==
  ASSUME PromisesInv, NEW c \in Client, NEW id \in Promise,
         WriteChunk(c, id) \/ \E n \in 1 .. MaxLength : SetSize(c, id, n)
  PROVE  PromisesInv'
<1>1. /\ TableTyped /\ DiskTyped /\ HelperTyped /\ job \in [Client -> Jobs] /\ JobsSound
      /\ PathsOwn /\ NoOpenFileLost /\ Served /\ DeliveredKept
  BY DEF PromisesInv
<1>2. /\ id \in DOMAIN promises
      /\ UNCHANGED <<made, handle, job, bridge, helper, offered, waiting, delivered, crashed>>
  BY DEF WriteChunk, SetSize, Owned, helperSide
<1>3. DiskTyped' /\ DOMAIN disk' = DOMAIN disk
  <2>1. CASE WriteChunk(c, id)
    <3> DEFINE path == promises[id].path
    <3>1. path \in DOMAIN disk /\ disk[path] < MaxLength /\ disk' = [disk EXCEPT ![path] = @ + 1]
      BY <2>1 DEF WriteChunk
    <3> HIDE DEF path
    <3>2. disk[path] + 1 \in Length
      BY <1>1, <3>1, PromisesAssumption DEF DiskTyped, Length
    <3> QED
      BY <1>1, <1>2, <3>1, <3>2 DEF DiskTyped, Given
  <2>2. CASE UNCHANGED disk
    BY <1>1, <1>2, <2>2 DEF DiskTyped, Given
  <2> QED
    BY <2>1, <2>2 DEF SetSize
<1>4. /\ promises' \in [DOMAIN promises' -> Record] /\ DOMAIN promises' = DOMAIN promises
      /\ \A o \in DOMAIN promises : promises'[o].path = promises[o].path
  <2>1. ASSUME NEW n \in 1 .. MaxLength, SetSize(c, id, n)
        PROVE  /\ promises' \in [DOMAIN promises' -> Record] /\ DOMAIN promises' = DOMAIN promises
               /\ \A o \in DOMAIN promises : promises'[o].path = promises[o].path
    <3>1. n \in Length /\ promises[id] \in Record
      BY <1>1, <1>2, PromisesAssumption DEF Length, TableTyped
    <3>2. [promises[id] EXCEPT !.size = n] \in Record
      BY <3>1 DEF Record
    <3> QED
      BY <1>1, <1>2, <2>1, <3>1, <3>2 DEF SetSize, TableTyped, Record
  <2>2. CASE UNCHANGED promises
    BY <1>1, <2>2 DEF TableTyped
  <2> QED
    BY <2>1, <2>2 DEF WriteChunk
<1>5. TableTyped'
  BY <1>1, <1>2, <1>4 DEF TableTyped, Given
<1>6. HelperTyped'
  BY <1>1, <1>2 DEF HelperTyped, Given
<1>7. job' \in [Client -> Jobs] /\ JobsSound'
  BY <1>1, <1>2, JobsStay DEF Given
<1>8. PathsOwn' /\ NoOpenFileLost' /\ Served'
  BY <1>1, <1>2, <1>4 DEF PathsOwn, NoOpenFileLost, Served, Started
<1>9. DeliveredKept'
  BY <1>1, <1>2, <1>3, <1>4 DEF DeliveredKept
<1> QED
  BY <1>3, <1>5, <1>6, <1>7, <1>8, <1>9 DEF PromisesInv

\* Promises of a set S end: they are listed, their files are closed and no file
\* but theirs is removed.
LEMMA PromisesEnd ==
  ASSUME TableTyped, DiskTyped, PathsOwn, NoOpenFileLost, DeliveredKept,
         NEW S, S \subseteq DOMAIN promises,
         DOMAIN promises' = DOMAIN promises \ S,
         \A id \in DOMAIN promises' : promises'[id] = promises[id],
         promises' \in [DOMAIN promises' -> Record],
         DOMAIN handle' = DOMAIN handle, handle' \in [DOMAIN handle' -> {"open", "closed"}],
         \A id \in DOMAIN handle : handle'[id] = IF id \in S THEN "closed" ELSE handle[id],
         DOMAIN disk' \subseteq DOMAIN disk, disk' \in [DOMAIN disk' -> Length],
         \A path \in DOMAIN disk \ DOMAIN disk' : \E id \in S : path = promises[id].path,
         made' = made
  PROVE  /\ TableTyped' /\ PathsOwn' /\ NoOpenFileLost'
         /\ delivered' = delivered => DiskTyped' /\ DeliveredKept'
<1>1. TableTyped' /\ (delivered' = delivered => DiskTyped')
  BY DEF TableTyped, DiskTyped, Given
<1>2. PathsOwn' /\ NoOpenFileLost'
  BY DEF PathsOwn, NoOpenFileLost
<1>3. ASSUME NEW id \in DOMAIN delivered, delivered[id][1] = "drop"
      PROVE  delivered[id] \in DOMAIN disk'
  <2>1. id \notin DOMAIN promises /\ delivered[id] = <<"drop", id>> /\ delivered[id] \in DOMAIN disk
    BY <1>3 DEF DeliveredKept
  <2>2. ASSUME NEW o \in S, delivered[id] = promises[o].path
        PROVE  FALSE
    <3>1. promises[o].path = <<"drop", o>>
      BY <1>3, <2>2 DEF PathsOwn
    <3>2. o = id
      BY <2>1, <2>2, <3>1
    <3> QED
      BY <2>1, <3>2
  <2> QED
    BY <2>1, <2>2
<1>4. delivered' = delivered => DeliveredKept'
  BY <1>3 DEF DeliveredKept
<1> QED
  BY <1>1, <1>2, <1>4

\* A new delivery of a promise that is not listed any more.
LEMMA Delivers ==
  ASSUME NEW id, NEW path, PathsOwn, DeliveredKept, id \in DOMAIN promises,
         path = promises[id].path, path \in DOMAIN disk, disk' = disk,
         DOMAIN promises' = DOMAIN promises \ {id},
         delivered' = Mapped(delivered, id, path)
  PROVE  DeliveredKept'
<1>1. ASSUME NEW o \in DOMAIN delivered'
      PROVE  /\ o \notin DOMAIN promises'
             /\ delivered'[o][1] = "drop" =>
                  delivered'[o] = <<"drop", o>> /\ delivered'[o] \in DOMAIN disk'
  <2>1. CASE o = id
    <3>1. delivered'[o] = path
      BY <1>1, <2>1 DEF Mapped
    <3> QED
      BY <2>1, <3>1 DEF PathsOwn
  <2>2. CASE o # id
    <3>1. o \in DOMAIN delivered /\ delivered'[o] = delivered[o]
      BY <1>1, <2>2 DEF Mapped
    <3> QED
      BY <3>1 DEF DeliveredKept
  <2> QED
    BY <2>1, <2>2
<1> QED
  BY <1>1 DEF DeliveredKept

\* The app finishes a promise, or reports that it failed.
LEMMA FinishStep ==
  ASSUME PromisesInv, NEW c \in Client, Finish(c)
  PROVE  PromisesInv'
<1>1. /\ TableTyped /\ DiskTyped /\ HelperTyped /\ job \in [Client -> Jobs] /\ JobsSound
      /\ PathsOwn /\ NoOpenFileLost /\ Served /\ DeliveredKept
  BY DEF PromisesInv
<1>2. /\ job[c].op = "finish" /\ Begin(c, Idle)
      /\ UNCHANGED <<made, bridge, helper, offered, crashed>>
  BY DEF Finish, End, helperSide
<1>3. \A d \in Client : job[d].op = "tell" => job'[d] = job[d]
  BY <1>1, <1>2, TellersStay
<1>4. PICK id : id = job[c].id
  OBVIOUS
<1>5. Started(id)
  BY <1>1, <1>2, <1>4 DEF JobsSound, JobSound
<1>6. CASE id \notin DOMAIN promises
  <2>1. UNCHANGED <<promises, handle, disk, waiting, delivered>>
    BY <1>4, <1>6 DEF Finish
  <2>2. job' \in [Client -> Jobs] /\ JobsSound'
    BY <1>1, <1>2, <2>1, JobMoves, IdleSound DEF Given
  <2>3. TableTyped' /\ DiskTyped'
    BY <1>1, <1>2, <2>1 DEF TableTyped, DiskTyped, Given
  <2>4. HelperTyped'
    BY <1>1, <1>2, <2>1 DEF HelperTyped, Given
  <2>5. PathsOwn' /\ NoOpenFileLost' /\ DeliveredKept' /\ Served'
    BY <1>1, <1>2, <1>3, <2>1 DEF PathsOwn, NoOpenFileLost, DeliveredKept, Served, Started
  <2> QED
    BY <2>2, <2>3, <2>4, <2>5 DEF PromisesInv
<1>7. CASE id \in DOMAIN promises
  <2> DEFINE path == promises[id].path
  <2>1. /\ handle' = [handle EXCEPT ![id] = "closed"]
        /\ promises' = Drop(promises, {id}) /\ waiting' = waiting \ {id}
        /\ \/ path \in DOMAIN disk /\ disk' = disk /\ delivered' = Mapped(delivered, id, path)
           \/ disk' = Drop(disk, {path}) /\ delivered' = delivered
    BY <1>4, <1>7 DEF Finish, Told
  <2>2. id \in DOMAIN handle /\ id \in Given
    BY <1>1, <1>5, <1>7 DEF Started, TableTyped
  <2>3. PICK S : S = {id} /\ S \subseteq DOMAIN promises
    BY <1>7
  <2>4. /\ DOMAIN promises' = DOMAIN promises \ S /\ promises' \in [DOMAIN promises' -> Record]
        /\ \A o \in DOMAIN promises' : promises'[o] = promises[o]
    BY <1>1, <2>1, <2>3 DEF TableTyped, Drop, Restrict
  <2>5. /\ DOMAIN handle' = DOMAIN handle /\ handle' \in [DOMAIN handle' -> {"open", "closed"}]
        /\ \A o \in DOMAIN handle : handle'[o] = IF o \in S THEN "closed" ELSE handle[o]
    BY <1>1, <2>1, <2>2, <2>3 DEF TableTyped
  <2>6. /\ DOMAIN disk' \subseteq DOMAIN disk /\ disk' \in [DOMAIN disk' -> Length]
        /\ \A q \in DOMAIN disk \ DOMAIN disk' : \E o \in S : q = promises[o].path
    BY <1>1, <2>1, <2>3 DEF DiskTyped, Drop, Restrict
  <2>7. /\ TableTyped' /\ PathsOwn' /\ NoOpenFileLost'
        /\ delivered' = delivered => DiskTyped' /\ DeliveredKept'
    <3>1. TableTyped /\ DiskTyped /\ PathsOwn /\ NoOpenFileLost /\ DeliveredKept /\ made' = made
      BY <1>1, <1>2
    <3>2. S \subseteq DOMAIN promises
      BY <2>3
    <3> QED
      BY <2>4, <2>5, <2>6, <3>1, <3>2, PromisesEnd
  <2>8. DiskTyped' /\ DeliveredKept'
    <3>1. CASE delivered' = delivered
      BY <2>7, <3>1
    <3>2. CASE path \in DOMAIN disk /\ disk' = disk /\ delivered' = Mapped(delivered, id, path)
      <4>1. DeliveredKept'
        BY <1>1, <1>7, <2>3, <2>4, <3>2, Delivers
      <4>2. path \in Path
        BY <1>1, <3>2 DEF DiskTyped
      <4> HIDE DEF path
      <4>3. /\ delivered' \in [DOMAIN delivered' -> Path]
            /\ DOMAIN delivered' = DOMAIN delivered \cup {id}
        BY <1>1, <3>2, <4>2 DEF DiskTyped, Mapped
      <4>4. DiskTyped'
        BY <1>1, <1>2, <2>2, <3>2, <4>3 DEF DiskTyped, Given
      <4> QED
        BY <4>1, <4>4
    <3> QED
      BY <2>1, <3>1, <3>2
  <2>9. job' \in [Client -> Jobs] /\ JobsSound'
    BY <1>1, <1>2, <2>5, JobMoves, IdleSound DEF Given
  <2>10. HelperTyped'
    BY <1>1, <1>2, <2>1 DEF HelperTyped, Given
  <2>11. Served'
    BY <1>1, <1>3, <2>1, <2>3, <2>4, <2>5 DEF Served, Started
  <2> QED
    BY <2>7, <2>8, <2>9, <2>10, <2>11 DEF PromisesInv
<1> QED
  BY <1>6, <1>7

\* The offers of a service are cancelled.
LEMMA CancelStep ==
  ASSUME PromisesInv, NEW c \in Client, NEW s \in Services, Cancel(c, s)
  PROVE  PromisesInv'
<1>1. /\ TableTyped /\ DiskTyped /\ HelperTyped /\ job \in [Client -> Jobs] /\ JobsSound
      /\ PathsOwn /\ NoOpenFileLost /\ Served /\ DeliveredKept
  BY DEF PromisesInv
<1>2. PICK S : S = {id \in DOMAIN promises : promises[id].service = s}
  OBVIOUS
<1>3. /\ job[c] = Idle /\ promises' = Drop(promises, S) /\ handle' = ClosedOnCancel(S)
      /\ disk' = Drop(disk, {promises[id].path : id \in S})
      /\ Begin(c, IF S = {} THEN Idle ELSE [op |-> "tell", ids |-> S])
      /\ UNCHANGED <<made, bridge, helper, offered, waiting, delivered, crashed>>
  BY <1>2 DEF Cancel, Free, helperSide
<1>4. /\ DOMAIN promises' = DOMAIN promises \ S /\ promises' \in [DOMAIN promises' -> Record]
      /\ \A o \in DOMAIN promises' : promises'[o] = promises[o]
  BY <1>1, <1>3 DEF TableTyped, Drop, Restrict
<1>5. /\ DOMAIN handle' = DOMAIN handle /\ handle' \in [DOMAIN handle' -> {"open", "closed"}]
      /\ \A o \in DOMAIN handle : handle'[o] = IF o \in S THEN "closed" ELSE handle[o]
  BY <1>1, <1>3 DEF TableTyped, ClosedOnCancel
<1>6. /\ DOMAIN disk' \subseteq DOMAIN disk /\ disk' \in [DOMAIN disk' -> Length]
      /\ \A q \in DOMAIN disk \ DOMAIN disk' : \E o \in S : q = promises[o].path
  BY <1>1, <1>3 DEF DiskTyped, Drop, Restrict
<1>7. TableTyped' /\ PathsOwn' /\ NoOpenFileLost' /\ DiskTyped' /\ DeliveredKept'
  <2>1. S \subseteq DOMAIN promises
    BY <1>2
  <2> QED
    BY <1>1, <1>3, <1>4, <1>5, <1>6, <2>1, PromisesEnd
<1>8. PICK j : /\ Begin(c, j) /\ JobSound(j)'
               /\ S # {} => j.op = "tell" /\ j.ids = S
  <2>1. CASE S = {}
    BY <1>3, <2>1, IdleSound
  <2>2. CASE S # {}
    <3>1. S \in SUBSET Promise
      BY <1>1, <1>2, PromisesAssumption DEF TableTyped, Given, Promise
    <3>2. JobSound([op |-> "tell", ids |-> S])'
      BY <3>1 DEF JobSound, Jobs
    <3> QED
      BY <1>3, <2>2, <3>2
  <2> QED
    BY <2>1, <2>2
<1>9. job' \in [Client -> Jobs] /\ JobsSound'
  BY <1>1, <1>3, <1>5, <1>8, JobMoves DEF Given
<1>10. HelperTyped'
  BY <1>1, <1>3 DEF HelperTyped, Given
<1>11. Served'
  <2>1. \A d \in Client : job[d].op = "tell" => job'[d] = job[d]
    BY <1>1, <1>3, <1>8, TellersStay DEF Idle
  <2>2. S # {} => job'[c].op = "tell" /\ job'[c].ids = S
    BY <1>1, <1>8 DEF Begin
  <2> QED
    BY <1>1, <1>3, <1>4, <1>5, <2>1, <2>2 DEF Served, Started
<1> QED
  BY <1>7, <1>9, <1>10, <1>11 DEF PromisesInv

\* The caller of a cancellation tells the helper.
LEMMA TellStep ==
  ASSUME PromisesInv, NEW c \in Client, CancelTell(c)
  PROVE  PromisesInv'
<1>1. /\ TableTyped /\ DiskTyped /\ HelperTyped /\ job \in [Client -> Jobs] /\ JobsSound
      /\ PathsOwn /\ NoOpenFileLost /\ Served /\ DeliveredKept
  BY DEF PromisesInv
<1>2. /\ job[c].op = "tell" /\ Begin(c, Idle) /\ waiting' = waiting \ job[c].ids
      /\ UNCHANGED <<made, promises, handle, disk, bridge, helper, offered, delivered>>
  BY DEF CancelTell, End, Told, files, helperSide
<1>3. crashed' \in BOOLEAN
  BY Zenon DEF CancelTell
<1>4. HelperTyped'
  BY <1>1, <1>2, <1>3 DEF HelperTyped, Given
<1>5. job' \in [Client -> Jobs] /\ JobsSound'
  BY <1>1, <1>2, JobMoves, IdleSound DEF Given
<1>6. Served'
  <2>1. \A d \in Client : d # c => job'[d] = job[d]
    BY <1>1, <1>2 DEF Begin
  <2> QED
    BY <1>1, <1>2, <2>1 DEF Served, Started
<1>7. TableTyped' /\ DiskTyped'
  BY <1>1, <1>2 DEF TableTyped, DiskTyped, Given
<1>8. PathsOwn' /\ NoOpenFileLost' /\ DeliveredKept'
  BY <1>1, <1>2 DEF PathsOwn, NoOpenFileLost, DeliveredKept
<1> QED
  BY <1>4, <1>5, <1>6, <1>7, <1>8 DEF PromisesInv

\* The helper ends a drag, dies, and is forgotten.
LEMMA HelperMoves ==
  ASSUME PromisesInv, DragEnd \/ HelperDies \/ HelperReaped
  PROVE  PromisesInv'
<1>1. /\ TableTyped /\ DiskTyped /\ HelperTyped /\ job \in [Client -> Jobs] /\ JobsSound
      /\ PathsOwn /\ NoOpenFileLost /\ Served /\ DeliveredKept
  BY DEF PromisesInv
<1>2. CASE DragEnd
  <2> DEFINE S == offered \cap Replaced("drag")
  <2>1. /\ promises' = Drop(promises, S)
        /\ UNCHANGED <<made, handle, disk, job, bridge, helper, offered, waiting, delivered, crashed>>
    BY <1>2 DEF DragEnd, helperSide
  <2>2. S \subseteq DOMAIN promises /\ \A id \in S : ~Started(id)
    BY DEF Replaced
  <2> HIDE DEF S
  <2>3. /\ DOMAIN promises' = DOMAIN promises \ S /\ promises' \in [DOMAIN promises' -> Record]
        /\ \A o \in DOMAIN promises' : promises'[o] = promises[o]
    BY <1>1, <2>1 DEF TableTyped, Drop, Restrict
  <2>4. TableTyped' /\ PathsOwn' /\ NoOpenFileLost' /\ DeliveredKept'
    BY <1>1, <2>1, <2>2, <2>3
       DEF TableTyped, Given, PathsOwn, NoOpenFileLost, DeliveredKept, Started
  <2>5. DiskTyped' /\ job' \in [Client -> Jobs] /\ JobsSound'
    BY <1>1, <2>1, JobsStay DEF DiskTyped, Given
  <2>6. HelperTyped'
    BY <1>1, <2>1 DEF HelperTyped, Given
  <2>7. Served'
    BY <1>1, <2>1, <2>2, <2>3 DEF Served, Started
  <2> QED
    BY <2>4, <2>5, <2>6, <2>7 DEF PromisesInv
<1>3. CASE HelperDies \/ HelperReaped
  <2>1. UNCHANGED <<made, promises, handle, disk, job, delivered, crashed>>
    BY <1>3 DEF HelperDies, HelperReaped, files
  <2>2. waiting' \subseteq waiting
    BY <1>3 DEF HelperDies, HelperReaped
  <2>3. HelperTyped'
    <3>1. CASE HelperDies
      BY <1>1, <2>1, <3>1 DEF HelperDies, HelperTyped, Given
    <3>2. CASE HelperReaped
      BY <1>1, <2>1, <3>2 DEF HelperReaped, HelperTyped, Given
    <3> QED
      BY <1>3, <3>1, <3>2
  <2>4. TableTyped' /\ DiskTyped' /\ job' \in [Client -> Jobs] /\ JobsSound'
    BY <1>1, <2>1, JobsStay DEF TableTyped, DiskTyped, Given
  <2>5. PathsOwn' /\ NoOpenFileLost' /\ DeliveredKept' /\ Served'
    BY <1>1, <2>1, <2>2 DEF PathsOwn, NoOpenFileLost, DeliveredKept, Served, Started
  <2> QED
    BY <2>3, <2>4, <2>5 DEF PromisesInv
<1> QED
  BY <1>2, <1>3

\* The initial states have the invariant.
LEMMA PromisesStart == PromisesInit => PromisesInv
<1> SUFFICES ASSUME PromisesInit
             PROVE  PromisesInv
  OBVIOUS
<1>1. /\ made = 0 /\ promises = <<>> /\ handle = <<>> /\ disk = <<>> /\ delivered = <<>>
      /\ job = [c \in Client |-> Idle] /\ offered = {} /\ waiting = {}
  BY DEF PromisesInit
<1>2. bridge \in BOOLEAN /\ helper \in BOOLEAN /\ crashed \in BOOLEAN
  BY Zenon DEF PromisesInit
<1>3. DOMAIN <<>> = {} /\ \A S : <<>> \in [{} -> S]
  OBVIOUS
<1>4. TableTyped /\ DiskTyped
  BY <1>1, <1>3, PromisesAssumption DEF TableTyped, DiskTyped
<1>5. HelperTyped
  BY <1>1, <1>2 DEF HelperTyped
<1>6. job \in [Client -> Jobs] /\ JobsSound
  BY <1>1 DEF JobsSound, JobSound, Idle, Jobs
<1>7. PathsOwn /\ NoOpenFileLost /\ Served /\ DeliveredKept
  BY <1>1, <1>3 DEF PathsOwn, NoOpenFileLost, Served, DeliveredKept
<1> QED
  BY <1>4, <1>5, <1>6, <1>7 DEF PromisesInv

\* Every step keeps the invariant.
LEMMA PromisesStep == PromisesInv /\ [PromisesNext]_promiseVars => PromisesInv'
<1>1. ASSUME PromisesInv, UNCHANGED promiseVars \/ \E c \in Client : SocketCloses(c)
      PROVE  PromisesInv'
  <2>1. UNCHANGED <<made, promises, handle, disk, job, bridge, helper, offered, waiting, delivered,
                   crashed>>
    BY <1>1 DEF promiseVars, SocketCloses, files, helperSide
  <2>2. /\ TableTyped /\ DiskTyped /\ HelperTyped /\ job \in [Client -> Jobs] /\ JobsSound
        /\ PathsOwn /\ NoOpenFileLost /\ Served /\ DeliveredKept
    BY <1>1 DEF PromisesInv
  <2>3. TableTyped' /\ DiskTyped' /\ job' \in [Client -> Jobs] /\ JobsSound'
    BY <2>1, <2>2, JobsStay DEF TableTyped, DiskTyped, Given
  <2>4. HelperTyped'
    BY <2>1, <2>2 DEF HelperTyped, Given
  <2>5. PathsOwn' /\ NoOpenFileLost' /\ Served' /\ DeliveredKept'
    BY <2>1, <2>2 DEF PathsOwn, NoOpenFileLost, Served, DeliveredKept, Started
  <2> QED
    BY <2>3, <2>4, <2>5 DEF PromisesInv
<1> QED
  BY <1>1, PublishPromises, SendStep, HandlerStep, OpenStepApp, FinishStep, WriteSizeStep,
     CancelStep, TellStep, HelperRequests, HelperMoves DEF PromisesNext, AgentNext

\* Sockets that have closed are sockets of the app.
LEMMA GoneTyped == gone \subseteq Client /\ [PromisesNext]_promiseVars => (gone \subseteq Client)'
BY DEF PromisesNext, SocketCloses, promiseVars

\* The invariant says what the run checks.
LEMMA PromisesAreSafe == PromisesInv /\ gone \subseteq Client => PromisesSafe
<1> SUFFICES ASSUME PromisesInv, gone \subseteq Client
             PROVE  PromisesSafe
  OBVIOUS
<1>1. /\ TableTyped /\ DiskTyped /\ HelperTyped /\ job \in [Client -> Jobs] /\ JobsSound
      /\ PathsOwn /\ NoOpenFileLost /\ Served /\ DeliveredKept
  BY DEF PromisesInv
<1>2. /\ Given \subseteq Promise /\ made \in 0 .. MaxPromises
  BY <1>1, PromisesAssumption DEF TableTyped, Given, Promise
<1>3. /\ DOMAIN promises \subseteq Promise /\ Range(promises) \subseteq Record
      /\ DOMAIN handle \subseteq Promise /\ Range(handle) \subseteq {"open", "closed"}
  BY <1>1, <1>2 DEF TableTyped, Range
<1>4. /\ DOMAIN disk \subseteq Path /\ Range(disk) \subseteq Length
      /\ DOMAIN delivered \subseteq Promise /\ Range(delivered) \subseteq Path
  BY <1>1, <1>2 DEF DiskTyped, Range
<1>5. /\ {bridge, helper, crashed} \subseteq BOOLEAN
  BY <1>1, Zenon DEF HelperTyped
<1>6. offered \subseteq Promise /\ waiting \subseteq offered
  BY <1>1, <1>2 DEF HelperTyped
<1>7. PromisesTypeOK
  BY <1>1, <1>2, <1>3, <1>4, <1>5, <1>6, Zenon DEF PromisesTypeOK
<1>8. PasteHasWriter
  BY <1>1
  DEF Served, Started, NoOpenFileLost, PasteHasWriter, BeingWritten, Orphaned, AnswerComes
<1>9. DeliveredStays
  BY <1>1 DEF DeliveredKept, DeliveredStays
<1> QED
  BY <1>1, <1>7, <1>8, <1>9 DEF PromisesSafe

\* Every promise has one end: its file is closed, whoever waits for it has a
\* writer or is told as long as the socket that offered it lasts, and what was
\* delivered is not removed by a finish or a cancel that raced with the delivery
\* (finishClipboardPromise, cancelFilePromises).
THEOREM PromisesEndOnce == PromisesSpec => []PromisesSafe
<1>1. PromisesInit => gone \subseteq Client
  BY DEF PromisesInit
<1> QED
  BY <1>1, PromisesStart, PromisesStep, GoneTyped, PromisesAreSafe, PTL DEF PromisesSpec

\* The declared size of a promise never changes (setFilePromiseSize).
THEOREM SizesFixed == PromisesSpec => [][SizeFixed]_promiseVars
<1>1. ASSUME PromisesInv, [PromisesNext]_promiseVars
      PROVE  [SizeFixed]_promiseVars
  <2> SUFFICES ASSUME NEW id \in DOMAIN promises \cap DOMAIN promises'
               PROVE  promises[id].size # Unknown => promises'[id].size = promises[id].size
    BY DEF SizeFixed
  <2>1. /\ promises \in [DOMAIN promises -> Record] /\ id \in Given /\ made + 1 # id
        /\ promises[id] \in Record
    BY <1>1 DEF PromisesInv, TableTyped, Given
  <2>2. ASSUME NEW c \in Client, NEW o \in Promise, NEW n \in 1 .. MaxLength, SetSize(c, o, n)
        PROVE  promises[id].size # Unknown => promises'[id] = promises[id]
    BY <2>1, <2>2 DEF SetSize
  <2>3. ASSUME NEW c \in Client, NEW s \in Services, NEW n \in {0, Unknown}, Publish(c, s, n)
        PROVE  promises'[id] = promises[id]
    BY <2>1, <2>3 DEF Publish, Mapped, Drop, Restrict
  <2>4. ASSUME NEW o, NEW path, OpenAt(o, path)
        PROVE  promises'[id].size = promises[id].size
    BY <2>1, <2>4 DEF OpenAt, Record
  <2>5. ASSUME NEW S, promises' = Drop(promises, S)
        PROVE  promises'[id] = promises[id]
    BY <2>1, <2>5 DEF Drop, Restrict
  <2>6. CASE \E c \in Client : Finish(c) \/ OpenPromise(c) \/ \E s \in Services : Cancel(c, s)
    BY <2>4, <2>5, <2>6 DEF Finish, OpenPromise, Cancel, files
  <2>7. CASE DragEnd \/ \E o \in Promise : HelperRequest(o)
    BY <2>4, <2>5, <2>7 DEF DragEnd, HelperRequest, files
  <2>8. CASE UNCHANGED promises
    BY <2>8
  <2>9. CASE \/ HelperDies \/ HelperReaped
             \/ \E c \in Client :
                  \/ PublishSend(c) \/ ChoosePath(c) \/ CancelTell(c)
                  \/ \E o \in Promise : AppRequest(c, o) \/ WriteChunk(c, o) \/ FinishBegin(c, o)
    BY <2>9 DEF HelperDies, HelperReaped, PublishSend, ChoosePath, CancelTell, AppRequest,
                WriteChunk, FinishBegin, files
  <2>10. UNCHANGED promiseVars \/ (\E c \in Client : SocketCloses(c)) => UNCHANGED promises
    BY DEF promiseVars, SocketCloses, files
  <2> QED
    BY <1>1, <2>2, <2>3, <2>6, <2>7, <2>8, <2>9, <2>10 DEF PromisesNext, AgentNext
<1> QED
  BY <1>1, PromisesStart, PromisesStep, PTL DEF PromisesSpec
=============================================================================
