---------------------------- MODULE RemoteProofs ----------------------------
(* Theorems about Remote, for every number of environments, relay           *)
(* goroutines and settings requests.                                        *)
EXTENDS Remote, TLAPS

\* Cancelling a relay goroutine keeps the table of goroutines well-formed.
LEMMA CancelType ==
  ASSUME loop \in [Loop -> LoopType], NEW l, Cancel(l)
  PROVE  loop' \in [Loop -> LoopType]
<1>1. ASSUME NEW m \in Loop PROVE loop'[m] \in LoopType
  <2>1. (loop[m].pc # "none") \in BOOLEAN
    BY Zenon
  <2>2. CASE m = l
    <3>1. loop'[m] = [loop[m] EXCEPT !.cancelled = (loop[m].pc # "none")]
      BY <2>2 DEF Cancel
    <3>2. CASE loop[m].pc # "none"
      BY <3>1, <3>2 DEF LoopType
    <3>3. CASE loop[m].pc = "none"
      BY <3>1, <3>3 DEF LoopType
    <3> QED
      BY <3>2, <3>3
  <2>3. CASE m # l
    BY <2>3 DEF Cancel
  <2> QED
    BY <2>2, <2>3
<1> QED
  BY <1>1 DEF Cancel

\* Every action of the environment, the relay goroutines and the sync loop
\* keeps the types.
LEMMA TypeOthers ==
  ASSUME TypeOK,
         \/ \E e \in Env : RevokeRemoteEnvironment(e)
         \/ RelayRequested \/ Tick
         \/ \E l \in Loop : LoopStep(l) \/ noteRelayActivity(l)
         \/ SyncAsks \/ SyncFails \/ applyRelayRequest \/ startRelay \/ SyncStops
  PROVE  TypeOK'
<1> USE BoundAssumption, NoneAssumption DEF TypeOK, lanVars, relayVars, dynerVars, Old, SyncType
<1>1. CASE \E e \in Env : RevokeRemoteEnvironment(e)
  BY <1>1 DEF RevokeRemoteEnvironment, Spend
<1>2. CASE RelayRequested
  BY <1>2 DEF RelayRequested
<1>3. CASE Tick
  BY <1>3 DEF Tick
<1>4. ASSUME NEW l \in Loop, LoopStep(l) \/ noteRelayActivity(l)
      PROVE  TypeOK'
  <2>1. CASE RelayDial(l)
    BY <2>1 DEF RelayDial, LoopType
  <2>2. CASE RelayFails(l)
    BY <2>2 DEF RelayFails, LoopType
  <2>3. CASE RelayReturns(l)
    BY <2>3 DEF RelayReturns, LoopType
  <2>4. CASE noteRelayActivity(l)
    BY <2>4 DEF noteRelayActivity
  <2> QED
    BY <1>4, <2>1, <2>2, <2>3, <2>4 DEF LoopStep
<1>5. CASE SyncAsks
  BY <1>5 DEF SyncAsks, Ticket, Config
<1>6. CASE SyncFails
  BY <1>6 DEF SyncFails, IdleSync
<1>7. CASE applyRelayRequest
  BY <1>7 DEF applyRelayRequest, IdleSync
<1>8. CASE startRelay
  <2>1. Ticket(cfg) \in Env \cup {None}
    BY DEF Ticket, Config
  <2>2. loop' \in [Loop -> LoopType] /\ relayCancel' \in Loop \cup {None}
    <3>1. ASSUME NEW l \in Loop, relayCancel' = l,
                 loop' = [loop EXCEPT ![l] = [pc |-> "dial", env |-> Ticket(cfg), cancelled |-> FALSE]]
          PROVE  loop' \in [Loop -> LoopType] /\ relayCancel' \in Loop \cup {None}
      <4>1. [pc |-> "dial", env |-> Ticket(cfg), cancelled |-> FALSE] \in LoopType
        BY <2>1 DEF LoopType
      <4> QED
        BY <3>1, <4>1 DEF LoopType
    <3>2. CASE UNCHANGED <<relayCancel, loop>>
      BY <3>2 DEF LoopType
    <3> QED
      BY <1>8, <3>1, <3>2 DEF startRelay
  <2> QED
    BY <1>8, <2>2 DEF startRelay, IdleSync, LoopType
<1>9. CASE SyncStops
  <2>1. loop' \in [Loop -> LoopType]
    BY <1>9, CancelType DEF SyncStops, LoopType
  <2> QED
    BY <1>9, <2>1 DEF SyncStops, IdleSync, LoopType
<1>10. QED
  BY <1>1, <1>2, <1>3, <1>4, <1>5, <1>6, <1>7, <1>8, <1>9

\* Moving a settings request to another label, or ending it, keeps the table
\* of requests well-formed.
LEMMA GotoType ==
  ASSUME tab \in [Tab -> TabType], NEW t \in Tab, NEW label \in Label
  PROVE  /\ Goto(t, label) => tab' \in [Tab -> TabType]
         /\ Done(t) => tab' \in [Tab -> TabType]
         /\ Saved(t, label) => tab' \in [Tab -> TabType]
<1>1. IdleTab \in TabType
  BY DEF IdleTab, TabType, Blank, Config, Label
<1>2. Done(t) => tab' \in [Tab -> TabType]
  BY <1>1 DEF Done
<1>3. Goto(t, label) => tab' \in [Tab -> TabType]
  BY DEF Goto, TabType
<1> QED
  BY <1>2, <1>3 DEF Saved

\* The fields of a settings request.
LEMMA TabFields ==
  ASSUME tab \in [Tab -> TabType], NEW t \in Tab
  PROVE  /\ tab[t].pc \in Label /\ tab[t].want \in {"off", "on"} /\ tab[t].c \in Config
         /\ tab[t].target \in Env \cup {None} /\ tab[t].cancel \in Loop \cup {None}
BY DEF TabType

\* A settings request that starts or asks Dyner keeps the types.
LEMMA TypeHosted ==
  ASSUME TypeOK, NEW t \in Tab,
         \/ \E want \in {"off", "on"} : SetRelay(t, want) \/ setListener(t, want)
         \/ HostedTarget(t) \/ HostedMerge(t) \/ HostedInstall(t)
         \/ stopRelay(t) \/ stopRelayCancels(t) \/ startIdentitySync(t) \/ RequestFails(t)
  PROVE  TypeOK'
<1> USE BoundAssumption, NoneAssumption DEF TypeOK, lanVars, relayVars, dynerVars
<1>0. tab[t] \in TabType
  BY DEF TypeOK
<1>1. ASSUME NEW want \in {"off", "on"}, SetRelay(t, want) \/ setListener(t, want)
      PROVE  TypeOK'
  <2>1. cfg' \in Config
    BY <1>1 DEF SetRelay, setListener, Config
  <2>2. ASSUME NEW label \in Label, NEW d \in Config
        PROVE  [IdleTab EXCEPT !.pc = label, !.want = want, !.c = d] \in TabType
    BY <2>2, <1>1 DEF IdleTab, TabType
  <2>3. [IdleTab EXCEPT !.pc = "lan", !.want = want] \in TabType
    BY <1>1 DEF IdleTab, TabType, Blank, Config, Label
  <2>4. tab' \in [Tab -> TabType]
    <3>1. CASE SetRelay(t, want)
      BY <3>1, <2>2 DEF SetRelay, Label
    <3>2. CASE setListener(t, want)
      <4>1. Done(t) => tab' \in [Tab -> TabType]
        BY GotoType DEF Label
      <4> QED
        BY <3>2, <2>3, <4>1 DEF setListener
    <3> QED
      BY <1>1, <3>1, <3>2
  <2>5. left' \in [requests : 0 .. MaxRequests, removes : 0 .. MaxRemoves]
    BY <1>1 DEF SetRelay, setListener, Spend
  <2> QED
    BY <1>1, <2>1, <2>4, <2>5 DEF SetRelay, setListener
<1>2. CASE HostedTarget(t)
  <2>1. tab' \in [Tab -> TabType] /\ remote' \in [Env -> {"unused", "live", "gone"}]
    <3>1. PICK e \in Env, label \in {"merge", "install"} :
            tab' = [tab EXCEPT ![t].target = e, ![t].pc = label]
      BY <1>2 DEF HostedTarget
    <3>4. [tab[t] EXCEPT !.target = e, !.pc = label] \in TabType
      BY <1>0, <3>1 DEF TabType, Label
    <3>2. tab' \in [Tab -> TabType]
      BY <3>1, <3>4
    <3>3. remote' \in [Env -> {"unused", "live", "gone"}]
      BY <1>2 DEF HostedTarget, Register
    <3> QED
      BY <3>2, <3>3
  <2> QED
    BY <1>2, <2>1 DEF HostedTarget
<1>3. CASE HostedMerge(t)
  <2>1. tab' \in [Tab -> TabType]
    BY <1>3, GotoType DEF HostedMerge, Label
  <2> QED
    BY <1>3, <2>1 DEF HostedMerge, Merge
<1>4. CASE HostedInstall(t)
  <2>1. tab' \in [Tab -> TabType]
    BY <1>4, GotoType DEF HostedInstall, Label
  <2>2. cfg' \in Config
    <3>1. CASE tab[t].want = "on"
      BY <1>4, <3>1, TabFields DEF HostedInstall, Config
    <3>2. CASE tab[t].want = "off"
      BY <1>4, <3>2, TabFields DEF HostedInstall, Config
    <3> QED
      BY <3>1, <3>2, TabFields
  <2> QED
    BY <1>4, <2>1, <2>2 DEF HostedInstall
<1>5. CASE stopRelay(t)
  <2>1. tab' \in [Tab -> TabType]
    <3>1. tab' = [tab EXCEPT ![t].pc = "cancel", ![t].cancel = relayCancel]
      BY <1>5 DEF stopRelay
    <3>2. relayCancel \in Loop \cup {None}
      BY DEF TypeOK
    <3>3. [tab[t] EXCEPT !.pc = "cancel", !.cancel = relayCancel] \in TabType
      BY <1>0, <3>2 DEF TabType, Label
    <3> QED
      BY <3>1, <3>3
  <2> QED
    BY <1>5, <2>1 DEF stopRelay
<1>6. CASE stopRelayCancels(t)
  <2>1. loop' \in [Loop -> LoopType]
    BY <1>6, CancelType DEF stopRelayCancels
  <2>2. tab' \in [Tab -> TabType]
    <3>1. [tab EXCEPT ![t].pc = "syncing", ![t].cancel = None] \in [Tab -> TabType]
      BY <1>0 DEF TabType, Label
    <3> QED
      BY <1>6, <3>1, GotoType DEF stopRelayCancels, Label
  <2> QED
    BY <1>6, <2>1, <2>2 DEF stopRelayCancels
<1>7. CASE startIdentitySync(t)
  <2>1. tab' \in [Tab -> TabType]
    BY <1>7, GotoType DEF startIdentitySync, Label
  <2>2. syncing' \in BOOLEAN
    BY <1>7, Zenon DEF startIdentitySync
  <2> QED
    BY <1>7, <2>1, <2>2 DEF startIdentitySync
<1>8. CASE RequestFails(t)
  <2>1. tab' \in [Tab -> TabType]
    BY <1>8, GotoType DEF RequestFails, Label
  <2> QED
    BY <1>8, <2>1 DEF RequestFails
<1> QED
  BY <1>1, <1>2, <1>3, <1>4, <1>5, <1>6, <1>7, <1>8

\* The listener's part of a settings request keeps the types.
LEMMA TypeListener ==
  ASSUME TypeOK, NEW t \in Tab,
         \/ restartLAN(t) \/ closeLAN(t) \/ startLAN(t) \/ LANStarted(t)
         \/ ListenerOff(t) \/ ListenerRevoke(t) \/ ListenerForgets(t)
         \/ ensureListenerRegistration(t) \/ ListenerUpdate(t)
         \/ \E e \in Env : ListenerCreate(t, e)
         \/ ListenerEnrol(t) \/ ListenerMerge(t) \/ LegacyForgotten(t)
  PROVE  TypeOK'
<1> USE NoneAssumption DEF TypeOK, lanVars, relayVars, dynerVars
<1>0. tab[t] \in TabType
  BY DEF TypeOK
<1>1. CASE restartLAN(t)
  <2>1. [tab[t] EXCEPT !.pc = "close", !.held = lanClose, !.c = cfg] \in TabType
    BY <1>0 DEF TabType, Label
  <2>2. tab' \in [Tab -> TabType]
    BY <1>1, <2>1 DEF restartLAN
  <2> QED
    BY <1>1, <2>2 DEF restartLAN
<1>2. CASE closeLAN(t)
  <2>1. PICK label \in Label : tab' = [tab EXCEPT ![t].held = FALSE, ![t].pc = label]
    BY <1>2 DEF closeLAN, AfterLAN, Label
  <2>2. [tab[t] EXCEPT !.held = FALSE, !.pc = label] \in TabType
    BY <1>0, <2>1 DEF TabType
  <2>3. tab' \in [Tab -> TabType]
    BY <2>1, <2>2
  <2>4. lan' \in BOOLEAN
    BY <1>2, Zenon DEF closeLAN
  <2> QED
    BY <1>2, <2>3, <2>4 DEF closeLAN
<1>3. CASE startLAN(t)
  <2>1. tab' \in [Tab -> TabType]
    BY <1>3, GotoType DEF startLAN, Label
  <2> QED
    BY <1>3, <2>1 DEF startLAN
<1>4. CASE LANStarted(t)
  <2>1. AfterLAN(t) \in Label
    BY DEF AfterLAN, Label
  <2>2. tab' \in [Tab -> TabType]
    BY <1>4, <2>1, GotoType DEF LANStarted
  <2> QED
    BY <1>4, <2>2 DEF LANStarted
<1>5. CASE ListenerOff(t)
  <2>1. cfg.env \in Env \cup {None}
    BY DEF Config
  <2>2. [tab[t] EXCEPT !.pc = "revoke", !.target = cfg.env] \in TabType
    BY <1>0, <2>1 DEF TabType, Label
  <2>3. tab' \in [Tab -> TabType]
    BY <1>5, <2>2, GotoType DEF ListenerOff, Label
  <2> QED
    BY <1>5, <2>3 DEF ListenerOff
<1>6. CASE ListenerRevoke(t)
  <2>1. tab' \in [Tab -> TabType]
    BY <1>6, GotoType DEF ListenerRevoke, Label
  <2> QED
    BY <1>6, <2>1 DEF ListenerRevoke
<1>7. CASE ListenerForgets(t)
  <2>1. tab' \in [Tab -> TabType]
    BY <1>7, GotoType DEF ListenerForgets, Label
  <2>2. cfg' \in Config
    BY <1>7 DEF ListenerForgets, Config
  <2> QED
    BY <1>7, <2>1, <2>2 DEF ListenerForgets
<1>8. CASE ensureListenerRegistration(t)
  <2>1. PICK label \in Label : tab' = [tab EXCEPT ![t].c = cfg, ![t].pc = label]
    BY <1>8 DEF ensureListenerRegistration, Label
  <2>2. [tab[t] EXCEPT !.c = cfg, !.pc = label] \in TabType
    BY <1>0, <2>1 DEF TabType
  <2>3. tab' \in [Tab -> TabType]
    BY <2>1, <2>2
  <2> QED
    BY <1>8, <2>3 DEF ensureListenerRegistration
<1>9. CASE ListenerUpdate(t)
  <2>1. tab[t].c.env \in Env \cup {None}
    BY TabFields DEF Config
  <2>2. ASSUME NEW label \in Label PROVE [tab[t] EXCEPT !.target = tab[t].c.env, !.pc = label] \in TabType
    BY <1>0, <2>1, <2>2 DEF TabType
  <2>3. tab' \in [Tab -> TabType]
    BY <1>9, <2>2, GotoType DEF ListenerUpdate, Label
  <2>4. cfg' \in Config
    BY <1>9 DEF ListenerUpdate, Config
  <2> QED
    BY <1>9, <2>3, <2>4 DEF ListenerUpdate
<1>10. ASSUME NEW e \in Env, ListenerCreate(t, e) PROVE TypeOK'
  <2>1. [tab[t] EXCEPT !.pc = "enrol", !.target = e] \in TabType
    BY <1>0 DEF TabType, Label
  <2>2. tab' \in [Tab -> TabType]
    BY <1>10, <2>1 DEF ListenerCreate
  <2> QED
    BY <1>10, <2>2 DEF ListenerCreate, Register
<1>11. CASE ListenerEnrol(t)
  <2>1. ASSUME NEW label \in Label
        PROVE  [tab[t] EXCEPT !.c.hosted = cfg.hosted, !.pc = label] \in TabType
    <3>1. [tab[t].c EXCEPT !.hosted = cfg.hosted] \in Config
      BY TabFields DEF Config
    <3> QED
      BY <1>0, <2>1, <3>1 DEF TabType
  <2>2. tab' \in [Tab -> TabType]
    <3>1. Done(t) => tab' \in [Tab -> TabType]
      BY GotoType DEF Label
    <3>2. ASSUME NEW label \in Label, tab' = [tab EXCEPT ![t].c.hosted = cfg.hosted, ![t].pc = label]
          PROVE  tab' \in [Tab -> TabType]
      BY <3>2, <2>1
    <3> QED
      BY <1>11, <3>1, <3>2 DEF ListenerEnrol, Label
  <2>3. cfg' \in Config
    BY <1>11, TabFields DEF ListenerEnrol, Config
  <2> QED
    BY <1>11, <2>2, <2>3 DEF ListenerEnrol
<1>12. CASE ListenerMerge(t)
  <2>1. tab' \in [Tab -> TabType]
    BY <1>12, GotoType DEF ListenerMerge, Label
  <2> QED
    BY <1>12, <2>1 DEF ListenerMerge, Merge
<1>13. CASE LegacyForgotten(t)
  <2>1. tab' \in [Tab -> TabType]
    BY <1>13, GotoType DEF LegacyForgotten, Label
  <2>2. cfg' \in Config
    BY <1>13 DEF LegacyForgotten, Config
  <2> QED
    BY <1>13, <2>1, <2>2 DEF LegacyForgotten
<1> QED
  BY <1>1, <1>2, <1>3, <1>4, <1>5, <1>6, <1>7, <1>8, <1>9, <1>10, <1>11, <1>12, <1>13

\* Every step keeps the types.
LEMMA StepTypes == TypeOK /\ [Next]_vars => TypeOK'
<1> SUFFICES ASSUME TypeOK, [Next]_vars PROVE TypeOK'
  OBVIOUS
<1>1. CASE UNCHANGED vars
  BY <1>1 DEF vars, TypeOK
<1>2. ASSUME NEW t \in Tab, TabStep(t) PROVE TypeOK'
  BY <1>2, TypeHosted, TypeListener DEF TabStep
<1>3. ASSUME NEW t \in Tab, NEW want \in {"off", "on"}, SetRelay(t, want) \/ setListener(t, want)
      PROVE  TypeOK'
  BY <1>3, TypeHosted
<1> QED
  BY <1>1, <1>2, <1>3, TypeOthers DEF Next

\* A started agent satisfies the type invariant.
LEMMA InitTypes == Init => TypeOK
<1> SUFFICES ASSUME Init PROVE TypeOK
  OBVIOUS
<1> USE NoneAssumption, LegacyAssumption, BoundAssumption DEF Init
<1>1. cfg \in Config
  <2>1. PICK on \in {FALSE, Legacy # None} : cfg = [Blank EXCEPT !.hosted = Legacy, !.relay = on]
    BY Zenon
  <2>2. on \in BOOLEAN
    BY Zenon
  <2> QED
    BY <2>1, <2>2 DEF Blank, Config
<1>2. syncing \in BOOLEAN
  BY Zenon
<1>3. IdleTab \in TabType
  BY DEF IdleTab, TabType, Blank, Config, Label
<1>4. tab \in [Tab -> TabType] /\ loop \in [Loop -> LoopType]
  BY <1>3 DEF LoopType
<1>5. remote \in [Env -> {"unused", "live", "gone"}] /\ sync \in SyncType
  BY DEF SyncType, IdleSync
<1>6. asking \in BOOLEAN /\ lan \in BOOLEAN /\ lanClose \in BOOLEAN
  BY Zenon
<1>7. /\ relayCancel \in Loop \cup {None} /\ wanted \in 0 .. Old /\ activity \in 0 .. Old
      /\ left \in [requests : 0 .. MaxRequests, removes : 0 .. MaxRemoves]
  BY DEF Old
<1> QED
  BY <1>1, <1>2, <1>4, <1>5, <1>6, <1>7, Zenon DEF TypeOK

(***************************************************************************)
(* TypeOK is inductive.  The values that settings requests, syncs and      *)
(* relay goroutines hand to each other are of the sets they are meant for  *)
(* (agent.go:291-441, registration.go:189-357, lan_rpc.go:200-256).        *)
(***************************************************************************)
THEOREM TypeCorrect == Spec => []TypeOK
BY InitTypes, StepTypes, PTL DEF Spec

-----------------------------------------------------------------------------
(* The relay *)

\* A request holds a cancel function only between the two halves of stopRelay.
CancelHeld == \A t \in Tab : tab[t].cancel # None => tab[t].pc = "cancel"

RelayInv == CancelHeld /\ RelayUnderControl /\ RelayOffStops

\* A step does not bring the request u into stopRelay or out of it.
Beside(u) ==
  \/ tab'[u].pc = tab[u].pc
  \/ tab[u].pc \notin {"stop", "cancel"} /\ tab'[u].pc \notin {"stop", "cancel"}

\* What a step leaves alone that has nothing to do with the relay.
RelayAlone ==
  /\ UNCHANGED <<relayCancel, loop>> /\ cfg'.relay = cfg.relay
  /\ \A u \in Tab : /\ tab'[u].cancel = tab[u].cancel
                    /\ Beside(u)

\* A step that leaves the relay alone keeps the relay invariant.
LEMMA AloneKeeps == RelayInv /\ RelayAlone => RelayInv'
BY DEF RelayInv, RelayAlone, Beside, CancelHeld, RelayUnderControl, RelayOffStops, Kept, Running

\* The steps of a settings request outside stopRelay and HostedInstall.
LEMMA TabAlone ==
  ASSUME TypeOK, CancelHeld, NEW t \in Tab,
         \/ \E want \in {"off", "on"} : SetRelay(t, want) \/ setListener(t, want)
         \/ HostedTarget(t) \/ HostedMerge(t) \/ startIdentitySync(t) \/ RequestFails(t)
         \/ restartLAN(t) \/ closeLAN(t) \/ startLAN(t) \/ LANStarted(t)
         \/ ListenerOff(t) \/ ListenerRevoke(t) \/ ListenerForgets(t)
         \/ ensureListenerRegistration(t) \/ ListenerUpdate(t)
         \/ \E e \in Env : ListenerCreate(t, e)
         \/ ListenerEnrol(t) \/ ListenerMerge(t) \/ LegacyForgotten(t)
  PROVE  RelayAlone
<1>0. tab \in [Tab -> TabType] /\ cfg \in Config
  BY DEF TypeOK
<1>1. UNCHANGED <<relayCancel, loop>>
  BY DEF SetRelay, setListener, HostedTarget, HostedMerge, startIdentitySync, RequestFails,
         restartLAN, closeLAN, startLAN, LANStarted, ListenerOff, ListenerRevoke, ListenerForgets,
         ensureListenerRegistration, ListenerUpdate, ListenerCreate, ListenerEnrol, ListenerMerge,
         LegacyForgotten, relayVars
<1>2. cfg'.relay = cfg.relay
  BY <1>0 DEF SetRelay, setListener, HostedTarget, HostedMerge, startIdentitySync, RequestFails,
         restartLAN, closeLAN, startLAN, LANStarted, ListenerOff, ListenerRevoke, ListenerForgets,
         ensureListenerRegistration, ListenerUpdate, ListenerCreate, ListenerEnrol, ListenerMerge,
         LegacyForgotten, Config
<1>3. \A u \in Tab : /\ tab'[u].cancel = tab[u].cancel
                    /\ Beside(u)
  <2> SUFFICES ASSUME NEW u \in Tab PROVE tab'[u].cancel = tab[u].cancel /\ Beside(u)
    OBVIOUS
  <2> USE <1>0 DEF TabType, CancelHeld, Beside
  <2>1. ASSUME NEW want \in {"off", "on"}, SetRelay(t, want) \/ setListener(t, want)
        PROVE  tab'[u].cancel = tab[u].cancel /\ Beside(u)
    <3>1. CASE u # t
      BY <2>1, <3>1 DEF SetRelay, setListener, Done
    <3>2. CASE u = t
      <4>1. tab[t].cancel = None /\ tab[t].pc = "idle"
        BY <2>1 DEF SetRelay, setListener
      <4>2. tab'[t].cancel = None /\ tab'[t].pc \in {"hosted", "lan", "idle"}
        <5>1. CASE SetRelay(t, want)
          <6>1. tab'[t] = [IdleTab EXCEPT !.pc = "hosted", !.want = want, !.c = cfg]
            BY <5>1 DEF SetRelay
          <6> QED
            BY <6>1 DEF IdleTab
        <5>2. CASE setListener(t, want)
          <6>1. tab'[t] = [IdleTab EXCEPT !.pc = "lan", !.want = want] \/ tab'[t] = IdleTab
            BY <5>2 DEF setListener, Done
          <6>2. CASE tab'[t] = IdleTab
            BY <6>2 DEF IdleTab
          <6>3. CASE tab'[t] = [IdleTab EXCEPT !.pc = "lan", !.want = want]
            BY <6>3 DEF IdleTab
          <6> QED
            BY <6>1, <6>2, <6>3
        <5> QED
          BY <2>1, <5>1, <5>2
      <4> QED
        BY <3>2, <4>1, <4>2
    <3> QED
      BY <3>1, <3>2
  <2>2. CASE HostedTarget(t)
    <3>1. PICK e \in Env, label \in {"merge", "install"} :
            tab' = [tab EXCEPT ![t].target = e, ![t].pc = label]
      BY <2>2 DEF HostedTarget
    <3>2. tab[t].pc = "hosted"
      BY <2>2 DEF HostedTarget
    <3> QED
      BY <3>1, <3>2
  <2>3. CASE HostedMerge(t) \/ startIdentitySync(t) \/ RequestFails(t) \/ startLAN(t)
    BY <2>3 DEF HostedMerge, startIdentitySync, RequestFails, startLAN, Goto, Done, IdleTab
  <2>4. CASE restartLAN(t) \/ closeLAN(t) \/ LANStarted(t)
    BY <2>4 DEF restartLAN, closeLAN, LANStarted, Goto, AfterLAN
  <2>5. CASE ListenerOff(t) \/ ListenerRevoke(t) \/ ListenerForgets(t)
    BY <2>5 DEF ListenerOff, ListenerRevoke, ListenerForgets, Goto
  <2>6. CASE ensureListenerRegistration(t) \/ ListenerUpdate(t)
    BY <2>6 DEF ensureListenerRegistration, ListenerUpdate, Goto
  <2>7. ASSUME NEW e \in Env, ListenerCreate(t, e)
        PROVE  tab'[u].cancel = tab[u].cancel /\ Beside(u)
    BY <2>7 DEF ListenerCreate
  <2>8. CASE ListenerEnrol(t)
    BY <2>8 DEF ListenerEnrol, Done, IdleTab
  <2>9. CASE ListenerMerge(t) \/ LegacyForgotten(t)
    BY <2>9 DEF ListenerMerge, LegacyForgotten, Saved, Goto, Done, IdleTab
  <2> QED
    BY <2>1, <2>2, <2>3, <2>4, <2>5, <2>6, <2>7, <2>8, <2>9
<1> QED
  BY <1>1, <1>2, <1>3 DEF RelayAlone

\* Every step keeps the relay invariant.
LEMMA StepRelay == TypeOK /\ RelayInv /\ [Next]_vars => RelayInv'
<1> SUFFICES ASSUME TypeOK, RelayInv, [Next]_vars PROVE RelayInv'
  OBVIOUS
<1> USE DEF lanVars, dynerVars
<1>0. /\ tab \in [Tab -> TabType] /\ loop \in [Loop -> LoopType]
      /\ relayCancel \in Loop \cup {None} /\ None \notin Loop
  BY NoneAssumption DEF TypeOK
<1>1. CASE UNCHANGED vars
  BY <1>1, AloneKeeps DEF vars, RelayAlone, Beside
<1>2. CASE \/ \E e \in Env : RevokeRemoteEnvironment(e)
           \/ RelayRequested \/ Tick \/ SyncAsks \/ SyncFails \/ applyRelayRequest
           \/ \E l \in Loop : noteRelayActivity(l)
  <2>1. RelayAlone
    BY <1>2 DEF RevokeRemoteEnvironment, RelayRequested, Tick, SyncAsks, SyncFails,
                applyRelayRequest, noteRelayActivity, relayVars, RelayAlone, Beside
  <2> QED
    BY <2>1, AloneKeeps
\* A goroutine that dials, loses its socket or returns is not started anew.
<1>3. ASSUME NEW l \in Loop, LoopStep(l) PROVE RelayInv'
  <2>1. UNCHANGED <<cfg, tab, relayCancel>>
    BY <1>3 DEF LoopStep, RelayDial, RelayFails, RelayReturns
  <2>2. Kept' \subseteq Kept
    <3>1. \A m \in Loop : Running(m)' => Running(m)
      BY <1>0, <1>3 DEF LoopStep, RelayDial, RelayFails, RelayReturns, Running, LoopType
    <3> QED
      BY <2>1, <3>1 DEF Kept
  <2> QED
    BY <2>1, <2>2 DEF RelayInv, CancelHeld, RelayUnderControl, RelayOffStops
\* The server holds no cancel function, so no goroutine is left to be lost.
<1>4. CASE startRelay
  <2>1. UNCHANGED <<cfg, tab>>
    BY <1>4 DEF startRelay
  <2>2. CASE UNCHANGED <<relayCancel, loop>>
    BY <2>1, <2>2, AloneKeeps DEF RelayAlone, Beside
  <2>3. ASSUME relayCancel = None, cfg.relay, NEW l \in Loop, relayCancel' = l,
               loop' = [loop EXCEPT ![l] = [pc |-> "dial", env |-> Ticket(cfg), cancelled |-> FALSE]]
        PROVE  RelayInv'
    <3>1. Kept = {}
      BY <1>0, <2>3 DEF RelayInv, RelayUnderControl, Kept
    <3>2. Kept' \subseteq {l}
      BY <1>0, <2>1, <2>3, <3>1 DEF Kept, Running
    <3> QED
      BY <2>1, <2>3, <3>2 DEF RelayInv, CancelHeld, RelayUnderControl, RelayOffStops
  <2> QED
    BY <1>4, <2>2, <2>3 DEF startRelay
\* The one goroutine that runs is the one that is cancelled.
<1>5. CASE SyncStops
  <2>1. UNCHANGED <<cfg, tab>> /\ Cancel(relayCancel)
    BY <1>5 DEF SyncStops
  <2>2. Kept' = {}
    BY <1>0, <2>1 DEF RelayInv, RelayUnderControl, Kept, Running, Cancel, LoopType
  <2> QED
    BY <2>1, <2>2 DEF RelayInv, CancelHeld, RelayUnderControl, RelayOffStops
<1>6. ASSUME NEW t \in Tab, HostedInstall(t) PROVE RelayInv'
  <2>1. UNCHANGED <<loop, relayCancel>> /\ tab' = [tab EXCEPT ![t].pc = "stop"]
    BY <1>6 DEF HostedInstall, Goto, relayVars
  <2>2. tab[t].pc = "install"
    BY <1>6 DEF HostedInstall
  <2>3. tab'[t].pc = "stop" /\ \A u \in Tab : tab'[u].cancel = tab[u].cancel
    BY <1>0, <2>1 DEF TabType
  <2>4. CancelHeld'
    BY <1>0, <2>1, <2>2 DEF RelayInv, CancelHeld, TabType
  <2>5. Kept' = Kept
    BY <2>1, <2>3 DEF Kept, Running
  <2> QED
    BY <2>1, <2>3, <2>4, <2>5 DEF RelayInv, RelayUnderControl, RelayOffStops
\* The goroutine changes hands, from the server to the request.
<1>7. ASSUME NEW t \in Tab, stopRelay(t) PROVE RelayInv'
  <2>1. /\ UNCHANGED <<loop, cfg>> /\ relayCancel' = None
        /\ tab' = [tab EXCEPT ![t].pc = "cancel", ![t].cancel = relayCancel]
    BY <1>7 DEF stopRelay
  <2>2. tab[t].cancel = None
    BY <1>7 DEF stopRelay, RelayInv, CancelHeld
  <2>3. /\ tab'[t].cancel = relayCancel /\ tab'[t].pc = "cancel"
        /\ \A u \in Tab \ {t} : tab'[u] = tab[u]
    BY <1>0, <2>1 DEF TabType
  <2>4. Kept' = {}
    BY <1>0, <2>1, <2>2, <2>3 DEF RelayInv, RelayUnderControl, Kept, Running
  <2>5. CancelHeld'
    BY <2>3 DEF RelayInv, CancelHeld
  <2> QED
    BY <2>4, <2>5 DEF RelayInv, RelayUnderControl, RelayOffStops
<1>8. ASSUME NEW t \in Tab, stopRelayCancels(t) PROVE RelayInv'
  <2>1. UNCHANGED <<cfg, relayCancel>> /\ Cancel(tab[t].cancel) /\ tab[t].pc = "cancel"
    BY <1>8 DEF stopRelayCancels
  <2>2. /\ tab'[t].cancel = None /\ tab'[t].pc \in {"syncing", "idle"}
        /\ \A u \in Tab \ {t} : tab'[u] = tab[u]
    BY <1>0, <1>8 DEF stopRelayCancels, Done, IdleTab, TabType
  <2>3. Kept' \subseteq Kept
    BY <1>0, <2>1, <2>2 DEF Kept, Running, Cancel, LoopType
  <2>4. CancelHeld'
    BY <2>2 DEF RelayInv, CancelHeld
  <2> QED
    BY <2>1, <2>2, <2>3, <2>4 DEF RelayInv, RelayUnderControl, RelayOffStops
<1>9. ASSUME NEW t \in Tab, TabStep(t), ~HostedInstall(t), ~stopRelay(t), ~stopRelayCancels(t)
      PROVE  RelayInv'
  BY <1>9, TabAlone, AloneKeeps DEF TabStep, RelayInv
<1>10. ASSUME NEW t \in Tab, NEW want \in {"off", "on"}, SetRelay(t, want) \/ setListener(t, want)
       PROVE  RelayInv'
  BY <1>10, TabAlone, AloneKeeps DEF RelayInv
<1> QED
  BY <1>1, <1>2, <1>3, <1>4, <1>5, <1>6, <1>7, <1>8, <1>9, <1>10 DEF Next

\* No goroutine runs in an agent that has just started.
LEMMA InitRelay == Init => RelayInv
BY DEF Init, IdleTab, RelayInv, CancelHeld, RelayUnderControl, RelayOffStops, Kept, Running

(***************************************************************************)
(* The relay loop that runs is the one the server can stop                 *)
(* (agent.go:291-316), for any number of overlapping settings requests.    *)
(***************************************************************************)
THEOREM RelayControlled == Spec => []RelayUnderControl
<1>1. TypeOK /\ RelayInv /\ [Next]_vars => (TypeOK /\ RelayInv)'
  BY StepTypes, StepRelay
<1>2. RelayInv => RelayUnderControl
  BY DEF RelayInv
<1> QED
  BY <1>1, <1>2, InitTypes, InitRelay, PTL DEF Spec

(***************************************************************************)
(* Turning the relay off stops it, whatever the sync loop had decided      *)
(* before (agent.go:298-301, registration.go:338-348).                     *)
(***************************************************************************)
THEOREM RelayStopped == Spec => []RelayOffStops
<1>1. TypeOK /\ RelayInv /\ [Next]_vars => (TypeOK /\ RelayInv)'
  BY StepTypes, StepRelay
<1>2. RelayInv => RelayOffStops
  BY DEF RelayInv
<1> QED
  BY <1>1, <1>2, InitTypes, InitRelay, PTL DEF Spec

-----------------------------------------------------------------------------
(* The LAN listener *)

\* The request t has the bound listener in hand: it is about to close it, or
\* has bound it and not yet stored the close function.
Holds(t) == tab[t].pc = "keep" \/ (tab[t].pc = "close" /\ tab[t].held = TRUE)

\* A bound listener is in exactly one place: the server's lanClose, or the
\* hands of one request.
LANInv ==
  /\ lanClose = TRUE => lan = TRUE /\ \A t \in Tab : ~Holds(t)
  /\ \A t \in Tab : Holds(t) => lan = TRUE
  /\ \A t, u \in Tab : Holds(t) /\ Holds(u) => t = u
  /\ lan = TRUE => lanClose = TRUE \/ \E t \in Tab : Holds(t)

\* A step that does not touch the listener keeps the invariant.
LEMMA LANAlone ==
  ASSUME LANInv, UNCHANGED lanVars, \A u \in Tab : Holds(u)' <=> Holds(u)
  PROVE  LANInv'
BY DEF LANInv, lanVars

\* A request that is elsewhere before and after the step holds nothing.
LEMMA ElsewhereAlone ==
  ASSUME NEW t \in Tab, tab[t].pc \notin {"close", "keep"}, tab'[t].pc \notin {"close", "keep"},
         \A u \in Tab \ {t} : tab'[u] = tab[u]
  PROVE  \A u \in Tab : Holds(u)' <=> Holds(u)
BY DEF Holds

\* The steps of a settings request that are not the listener's.
LEMMA TabElsewhere ==
  ASSUME TypeOK, LANInv, NEW t \in Tab,
         \/ \E want \in {"off", "on"} : SetRelay(t, want) \/ setListener(t, want)
         \/ HostedTarget(t) \/ HostedMerge(t) \/ HostedInstall(t) \/ stopRelay(t)
         \/ stopRelayCancels(t) \/ startIdentitySync(t) \/ RequestFails(t)
         \/ ListenerOff(t) \/ ListenerRevoke(t) \/ ListenerForgets(t)
         \/ ensureListenerRegistration(t) \/ ListenerUpdate(t)
         \/ \E e \in Env : ListenerCreate(t, e)
         \/ ListenerEnrol(t) \/ ListenerMerge(t) \/ LegacyForgotten(t)
  PROVE  LANInv'
<1>0. tab \in [Tab -> TabType]
  BY DEF TypeOK
<1> DEFINE Elsewhere == /\ UNCHANGED lanVars
                        /\ tab[t].pc \notin {"close", "keep"} /\ tab'[t].pc \notin {"close", "keep"}
                        /\ \A u \in Tab \ {t} : tab'[u] = tab[u]
<1> SUFFICES Elsewhere
  BY LANAlone, ElsewhereAlone
<1> USE <1>0 DEF TabType
<1>1. ASSUME NEW want \in {"off", "on"}, SetRelay(t, want) PROVE Elsewhere
  <2>1. tab'[t] = [IdleTab EXCEPT !.pc = "hosted", !.want = want, !.c = cfg]
    BY <1>1 DEF SetRelay
  <2>2. tab'[t].pc = "hosted"
    BY <2>1 DEF IdleTab
  <2> QED
    BY <1>1, <2>2 DEF SetRelay
<1>2. ASSUME NEW want \in {"off", "on"}, setListener(t, want) PROVE Elsewhere
  <2>1. tab'[t] = [IdleTab EXCEPT !.pc = "lan", !.want = want] \/ tab'[t] = IdleTab
    BY <1>2 DEF setListener, Done
  <2>2. [IdleTab EXCEPT !.pc = "lan", !.want = want].pc = "lan" /\ IdleTab.pc = "idle"
    BY DEF IdleTab
  <2> QED
    BY <1>2, <2>1, <2>2 DEF setListener, Done
<1>3. CASE HostedTarget(t)
  <2>1. PICK e \in Env, label \in {"merge", "install"} :
          tab' = [tab EXCEPT ![t].target = e, ![t].pc = label]
    BY <1>3 DEF HostedTarget
  <2>2. tab'[t].pc = label /\ \A u \in Tab \ {t} : tab'[u] = tab[u]
    BY <2>1
  <2>3. tab[t].pc = "hosted" /\ UNCHANGED lanVars
    BY <1>3 DEF HostedTarget
  <2> QED
    BY <2>2, <2>3
<1>4. CASE HostedMerge(t) \/ HostedInstall(t) \/ stopRelay(t)
  BY <1>4 DEF HostedMerge, HostedInstall, stopRelay, Goto
<1>5. CASE stopRelayCancels(t) \/ startIdentitySync(t) \/ RequestFails(t)
  BY <1>5 DEF stopRelayCancels, startIdentitySync, RequestFails, Done, IdleTab
<1>6. CASE ListenerOff(t) \/ ListenerRevoke(t) \/ ListenerForgets(t)
  BY <1>6 DEF ListenerOff, ListenerRevoke, ListenerForgets, Goto
<1>7. CASE ensureListenerRegistration(t) \/ ListenerUpdate(t)
  BY <1>7 DEF ensureListenerRegistration, ListenerUpdate, Goto
<1>8. ASSUME NEW e \in Env, ListenerCreate(t, e) PROVE Elsewhere
  BY <1>8 DEF ListenerCreate
<1>9. CASE ListenerEnrol(t)
  BY <1>9 DEF ListenerEnrol, Done, IdleTab
<1>10. CASE ListenerMerge(t) \/ LegacyForgotten(t)
  BY <1>10 DEF ListenerMerge, LegacyForgotten, Saved, Goto, Done, IdleTab
<1> QED
  BY <1>1, <1>2, <1>3, <1>4, <1>5, <1>6, <1>7, <1>8, <1>9, <1>10

\* Every step keeps the listener's invariant.
LEMMA StepLAN == TypeOK /\ LANInv /\ [Next]_vars => LANInv'
<1> SUFFICES ASSUME TypeOK, LANInv, [Next]_vars PROVE LANInv'
  OBVIOUS
<1>0. tab \in [Tab -> TabType] /\ lan \in BOOLEAN /\ lanClose \in BOOLEAN
  BY DEF TypeOK
<1>1. CASE \/ \E e \in Env : RevokeRemoteEnvironment(e)
           \/ RelayRequested \/ Tick
           \/ \E l \in Loop : LoopStep(l) \/ noteRelayActivity(l)
           \/ SyncAsks \/ SyncFails \/ applyRelayRequest \/ startRelay \/ SyncStops
           \/ UNCHANGED vars
  <2>1. UNCHANGED <<lanVars, tab>>
    BY <1>1 DEF RevokeRemoteEnvironment, RelayRequested, Tick, LoopStep, RelayDial, RelayFails,
                RelayReturns, noteRelayActivity, SyncAsks, SyncFails, applyRelayRequest, startRelay,
                SyncStops, vars, lanVars
  <2> QED
    BY <2>1, LANAlone DEF Holds
\* The close function goes from the server to the request.
<1>2. ASSUME NEW t \in Tab, restartLAN(t) PROVE LANInv'
  <2>1. lan' = lan /\ lanClose' = FALSE /\ ~Holds(t)
    BY <1>2 DEF restartLAN, Holds
  <2>2. /\ tab'[t].pc = "close" /\ tab'[t].held = lanClose
        /\ \A u \in Tab \ {t} : tab'[u] = tab[u]
    BY <1>0, <1>2 DEF restartLAN, TabType
  <2>3. /\ Holds(t)' <=> lanClose = TRUE
        /\ \A u \in Tab \ {t} : Holds(u)' <=> Holds(u)
    BY <2>2 DEF Holds
  <2> QED
    BY <2>1, <2>3 DEF LANInv
\* The request that held the listener closes it.
<1>3. ASSUME NEW t \in Tab, closeLAN(t) PROVE LANInv'
  <2>1. /\ ~Holds(t)' /\ (Holds(t) <=> tab[t].held = TRUE)
        /\ \A u \in Tab \ {t} : Holds(u)' <=> Holds(u)
    BY <1>0, <1>3 DEF closeLAN, AfterLAN, Holds, TabType
  <2>2. lanClose' = lanClose /\ lan' = (lan /\ ~tab[t].held)
    BY <1>3 DEF closeLAN
  <2>3. tab[t].held \in BOOLEAN
    BY <1>0 DEF TabType
  <2>4. CASE tab[t].held = TRUE
    BY <1>0, <2>1, <2>2, <2>4 DEF LANInv
  <2>5. CASE tab[t].held = FALSE
    <3>1. lan' = lan
      <4>1. CASE lan = TRUE
        BY <2>2, <2>5, <4>1
      <4>2. CASE lan = FALSE
        BY <2>2, <2>5, <4>2
      <4> QED
        BY <1>0, <4>1, <4>2
    <3>2. \A u \in Tab : Holds(u)' <=> Holds(u)
      <4>1. ~Holds(t) /\ ~Holds(t)'
        BY <2>1, <2>5
      <4> QED
        BY <2>1, <4>1
    <3> QED
      BY <2>2, <3>1, <3>2, LANAlone DEF lanVars
  <2> QED
    BY <2>3, <2>4, <2>5
\* The port is free, so nobody holds a listener.
<1>4. ASSUME NEW t \in Tab, startLAN(t) PROVE LANInv'
  <2>1. /\ lanClose' = lanClose /\ ~Holds(t)
        /\ \A u \in Tab \ {t} : Holds(u)' <=> Holds(u)
    BY <1>0, <1>4 DEF startLAN, Holds, Goto, Done, TabType
  <2>2. \/ lan = FALSE /\ lan' = TRUE
        \/ lan' = lan /\ ~Holds(t)'
    BY <1>0, <1>4 DEF startLAN, Holds, Goto, Done, IdleTab, TabType
  <2>3. lan = FALSE /\ lan' = TRUE => Holds(t)' \/ lan' = lan
    BY <1>0, <1>4 DEF startLAN, Holds, Goto, TabType
  <2> QED
    BY <1>0, <2>1, <2>2, <2>3 DEF LANInv
<1>5. ASSUME NEW t \in Tab, LANStarted(t) PROVE LANInv'
  <2>1. /\ lan' = lan /\ lanClose' = TRUE /\ Holds(t) /\ ~Holds(t)'
        /\ \A u \in Tab \ {t} : Holds(u)' <=> Holds(u)
    BY <1>0, <1>5 DEF LANStarted, AfterLAN, Holds, Goto, TabType
  <2> QED
    BY <2>1 DEF LANInv
<1>6. ASSUME NEW t \in Tab, TabStep(t), ~restartLAN(t), ~closeLAN(t), ~startLAN(t), ~LANStarted(t)
      PROVE  LANInv'
  BY <1>6, TabElsewhere DEF TabStep
<1>7. ASSUME NEW t \in Tab, NEW want \in {"off", "on"}, SetRelay(t, want) \/ setListener(t, want)
      PROVE  LANInv'
  BY <1>7, TabElsewhere
<1> QED
  BY <1>1, <1>2, <1>3, <1>4, <1>5, <1>6, <1>7 DEF Next

(***************************************************************************)
(* A bound LAN listener can be closed by the server between settings       *)
(* requests (agent.go:349-369), for any number of them at once.            *)
(***************************************************************************)
THEOREM ListenerControlled == Spec => []ListenerUnderControl
<1>1. Init => LANInv
  BY DEF Init, LANInv, Holds, IdleTab
<1>2. TypeOK /\ LANInv /\ [Next]_vars => (TypeOK /\ LANInv)'
  BY StepTypes, StepLAN
<1>3. TypeOK /\ LANInv => ListenerUnderControl
  BY DEF TypeOK, LANInv, Holds, ListenerUnderControl
<1> QED
  BY <1>1, <1>2, <1>3, InitTypes, PTL DEF Spec

(***************************************************************************)
(* Settings requests and syncs, however many overlap, leave no relay loop  *)
(* and no listener that the server could not stop, and a relay that was    *)
(* turned off stops (agent.go:292-316 and 349-369).                        *)
(***************************************************************************)
THEOREM ControlKept == Spec => []ServerInControl
<1>1. RelayUnderControl /\ RelayOffStops /\ ListenerUnderControl => ServerInControl
  BY DEF ServerInControl
<1> QED
  BY <1>1, RelayControlled, RelayStopped, ListenerControlled, PTL

-----------------------------------------------------------------------------
(* The grace period *)

\* A sync that has decided to close the relay did so on an old request, and
\* nobody else renews it before the relay is closed.
DecidedOld == sync.pc = "stop" => wanted = Old

\* Every step keeps it.
LEMMA StepDecided == TypeOK /\ DecidedOld /\ [Next]_vars => DecidedOld'
<1> SUFFICES ASSUME TypeOK, DecidedOld, [Next]_vars PROVE DecidedOld'
  OBVIOUS
<1> USE DEF DecidedOld, relayVars
<1>0. sync \in SyncType
  BY DEF TypeOK
<1>1. CASE Tick
  BY <1>1 DEF Tick
<1>2. CASE SyncAsks \/ SyncFails \/ startRelay \/ SyncStops
  BY <1>2 DEF SyncAsks, SyncFails, startRelay, SyncStops, IdleSync
<1>3. CASE applyRelayRequest
  BY <1>0, <1>3 DEF applyRelayRequest, IdleSync, SyncType
<1>4. CASE UNCHANGED <<sync, wanted>>
  BY <1>4
<1>5. ASSUME NEW t \in Tab, TabStep(t) PROVE UNCHANGED <<sync, wanted>>
  BY <1>5 DEF TabStep, HostedTarget, HostedMerge, HostedInstall, stopRelay, stopRelayCancels,
     startIdentitySync, RequestFails, restartLAN, closeLAN, startLAN, LANStarted, ListenerOff,
     ListenerRevoke, ListenerForgets, ensureListenerRegistration, ListenerUpdate, ListenerCreate,
     ListenerEnrol, ListenerMerge, LegacyForgotten
<1>6. CASE \/ \E e \in Env : RevokeRemoteEnvironment(e)
           \/ RelayRequested
           \/ \E l \in Loop : LoopStep(l) \/ noteRelayActivity(l)
           \/ \E t \in Tab, want \in {"off", "on"} : SetRelay(t, want) \/ setListener(t, want)
           \/ UNCHANGED vars
  <2>1. UNCHANGED <<sync, wanted>>
    BY <1>6 DEF RevokeRemoteEnvironment, RelayRequested, LoopStep, RelayDial, RelayFails,
       RelayReturns, noteRelayActivity, SetRelay, setListener, vars
  <2> QED
    BY <2>1
<1> QED
  BY <1>1, <1>2, <1>3, <1>4, <1>5, <1>6 DEF Next

(***************************************************************************)
(* The sync loop closes the relay only when no request was reported for    *)
(* relayIdleGrace, up to the moment it closes it (agent.go:405-433).       *)
(***************************************************************************)
THEOREM GraceRespected == Spec => IdleStopAfterGrace
<1>1. Init => DecidedOld
  BY DEF Init, DecidedOld, IdleSync
<1>2. TypeOK /\ DecidedOld /\ [Next]_vars => (TypeOK /\ DecidedOld)'
  BY StepTypes, StepDecided
<1>3. DecidedOld => (sync.pc = "stop" /\ relayCancel # None /\ relayCancel' = None
                       /\ (\A t \in Tab : tab[t].pc # "stop") => wanted = Old)
  BY DEF DecidedOld
<1> QED
  BY <1>1, <1>2, <1>3, InitTypes, PTL DEF Spec, IdleStopAfterGrace
=============================================================================
