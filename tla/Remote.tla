------------------------------- MODULE Remote -------------------------------
(***************************************************************************)
(* Remote access: the registration of this machine with Dyner              *)
(* (shellagent/registration.go), the settings requests that change it      *)
(* (settings_http.go, lan_rpc.go), the LAN listener, the sync loop and the *)
(* relay connection that it opens and closes on demand (agent.go, relay.go).*)
(*                                                                         *)
(* An environment is a record at Dyner together with the credential that   *)
(* the agent holds for it.  Time is kept as ages of one bit: an age is 0   *)
(* until a tick later than relayIdleGrace.  Saving the configuration is    *)
(* part of the step that changes it (Grants.tla has the save on its own);  *)
(* when it fails and the code returns the error, the request ends there.   *)
(***************************************************************************)
EXTENDS Naturals, FiniteSets

CONSTANTS
  Env,         \* environments that Dyner may create
  Loop,        \* goroutines of runRelay
  Tab,         \* settings requests served at the same time
  None,        \* no environment, no loop
  Legacy,      \* the hosted environment of an older configuration, or None
  MaxRequests, \* settings requests in all
  MaxRemoves   \* environments that the account owner deletes at Dyner

ASSUME NoneAssumption == None \notin Env /\ None \notin Loop
ASSUME LegacyAssumption == Legacy \in Env \cup {None}
ASSUME BoundAssumption == MaxRequests \in Nat /\ MaxRemoves \in Nat

VARIABLES
  cfg,          \* Config: RelayEnabled, ListenerMode, EnvironmentID, HostedEnvironmentID
  remote,       \* Dyner's records
  asking,       \* Dyner reports relayRequested
  lan,          \* a LAN listener is bound
  lanClose,     \* Server.lanClose is set
  syncing,      \* Server.identitySyncCancel is set
  sync,         \* syncBrowserIdentitiesOnce
  relayCancel,  \* the loop whose cancel function the server holds
  loop,         \* the relay goroutines
  wanted,       \* age of relayWantedAt
  activity,     \* age of relayActivityAt
  tab,          \* the settings requests
  left          \* what is left of the bounds

vars == <<cfg, remote, asking, lan, lanClose, syncing, sync, relayCancel, loop, wanted, activity,
          tab, left>>
lanVars == <<lan, lanClose>>
relayVars == <<relayCancel, loop, wanted, activity>>
dynerVars == <<remote, asking>>

Old == 1  \* the age beyond relayIdleGrace

Config == [relay : BOOLEAN, mode : {"off", "on"}, env : Env \cup {None}, hosted : Env \cup {None}]

\* relayTicketConfig: the legacy hosted credential comes first.
Ticket(c) == IF c.hosted # None THEN c.hosted ELSE c.env

Blank == [relay |-> FALSE, mode |-> "off", env |-> None, hosted |-> None]
IdleSync == [pc |-> "idle", env |-> None, relay |-> FALSE]
\* want: what is asked for; c: its copy of the configuration; target: the
\* environment it works on; cancel, held: what it took from the server.
IdleTab == [pc |-> "idle", want |-> "off", c |-> Blank, target |-> None, cancel |-> None,
            held |-> FALSE]

Label == {"idle", "hosted", "merge", "install", "stop", "cancel", "syncing", "lan", "close", "bind",
          "keep", "off", "revoke", "unenrol", "register", "update", "create", "enrol", "legacy",
          "forget"}
TabType == [pc : Label, want : {"off", "on"}, c : Config, target : Env \cup {None},
            cancel : Loop \cup {None}, held : BOOLEAN]
LoopType == [pc : {"none", "dial", "socket"}, env : Env \cup {None}, cancelled : BOOLEAN]
SyncType == [pc : {"idle", "asked", "start", "stop"}, env : Env \cup {None}, relay : BOOLEAN]

TypeOK ==
  /\ cfg \in Config
  /\ remote \in [Env -> {"unused", "live", "gone"}] /\ asking \in BOOLEAN
  /\ lan \in BOOLEAN /\ lanClose \in BOOLEAN /\ syncing \in BOOLEAN
  /\ sync \in SyncType
  /\ relayCancel \in Loop \cup {None}
  /\ loop \in [Loop -> LoopType]
  /\ wanted \in 0 .. Old /\ activity \in 0 .. Old
  /\ tab \in [Tab -> TabType]
  /\ left \in [requests : 0 .. MaxRequests, removes : 0 .. MaxRemoves]

\* An agent that has been signed in and is started, perhaps with a hosted
\* environment of an older version.
Init ==
  /\ \E on \in {FALSE, Legacy # None} : cfg = [Blank EXCEPT !.hosted = Legacy, !.relay = on]
  /\ remote = [e \in Env |-> IF e = Legacy THEN "live" ELSE "unused"] /\ asking = FALSE
  /\ lan = FALSE /\ lanClose = FALSE
  /\ syncing = (Legacy # None) /\ sync = IdleSync
  /\ relayCancel = None
  /\ loop = [l \in Loop |-> [pc |-> "none", env |-> None, cancelled |-> FALSE]]
  /\ wanted = Old /\ activity = Old
  /\ tab = [t \in Tab |-> IdleTab]
  /\ left = [requests |-> MaxRequests, removes |-> MaxRemoves]

Spend(what) == left[what] > 0 /\ left' = [left EXCEPT ![what] = @ - 1]
Goto(t, label) == tab' = [tab EXCEPT ![t].pc = label]
Done(t) == tab' = [tab EXCEPT ![t] = IdleTab]
\* The configuration is saved, or the request ends with the error.
Saved(t, label) == Goto(t, label) \/ Done(t)

-----------------------------------------------------------------------------
(* The account owner, the browsers and the clock *)

\* handleSettingsRemove, or the account page: the record goes, the agent's
\* configuration stays.
RevokeRemoteEnvironment(e) ==
  /\ remote[e] = "live" /\ Spend("removes")
  /\ remote' = [remote EXCEPT ![e] = "gone"]
  /\ UNCHANGED <<cfg, asking, lanVars, syncing, sync, relayVars, tab>>

\* A browser asks Dyner for the relay, or its request expires.
RelayRequested ==
  /\ asking' = ~asking
  /\ UNCHANGED <<cfg, remote, lanVars, syncing, sync, relayVars, tab, left>>

Tick ==
  /\ wanted' = Old /\ activity' = Old
  /\ UNCHANGED <<cfg, dynerVars, lanVars, syncing, sync, relayCancel, loop, tab, left>>

-----------------------------------------------------------------------------
(* runRelay *)

Running(l) == loop[l].pc # "none" /\ ~loop[l].cancelled

\* IssueRelayTicket and the dial succeed, with the configuration that the
\* loop was started with.  A failure is retried after relayReconnectDelay.
RelayDial(l) ==
  /\ Running(l) /\ loop[l].pc = "dial" /\ remote[loop[l].env] = "live"
  /\ loop' = [loop EXCEPT ![l].pc = "socket"]
  /\ UNCHANGED <<cfg, dynerVars, lanVars, syncing, sync, relayCancel, wanted, activity, tab, left>>

\* The relay socket ends.
RelayFails(l) ==
  /\ loop[l].pc = "socket"
  /\ loop' = [loop EXCEPT ![l].pc = "dial"]
  /\ UNCHANGED <<cfg, dynerVars, lanVars, syncing, sync, relayCancel, wanted, activity, tab, left>>

\* The context is done.
RelayReturns(l) ==
  /\ loop[l].pc = "dial" /\ loop[l].cancelled
  /\ loop' = [loop EXCEPT ![l] = [pc |-> "none", env |-> None, cancelled |-> FALSE]]
  /\ UNCHANGED <<cfg, dynerVars, lanVars, syncing, sync, relayCancel, wanted, activity, tab, left>>

\* noteRelayActivity: a frame of a browser arrives.
noteRelayActivity(l) ==
  /\ Running(l) /\ loop[l].pc = "socket"
  /\ activity' = 0
  /\ UNCHANGED <<cfg, dynerVars, lanVars, syncing, sync, relayCancel, loop, wanted, tab, left>>

-----------------------------------------------------------------------------
(* The sync loop, every five seconds *)

\* syncBrowserIdentitiesOnce copies the configuration and asks Dyner.
SyncAsks ==
  /\ syncing /\ sync.pc = "idle"
  /\ sync' = [pc |-> "asked", env |-> Ticket(cfg), relay |-> cfg.relay]
  /\ UNCHANGED <<cfg, dynerVars, lanVars, syncing, relayVars, tab, left>>

SyncFails ==
  /\ sync.pc = "asked"
  /\ sync' = IdleSync
  /\ UNCHANGED <<cfg, dynerVars, lanVars, syncing, relayVars, tab, left>>

Answered == sync.pc = "asked" /\ sync.env # None /\ remote[sync.env] = "live"

\* Mutant: a relay that is idle on one account only is closed.
applyEitherOld ==
  /\ Answered
  /\ wanted' = IF sync.relay /\ asking THEN 0 ELSE wanted
  /\ sync' = IF ~sync.relay THEN IdleSync
             ELSE IF asking THEN [sync EXCEPT !.pc = "start"]
             ELSE IF relayCancel # None /\ (wanted = Old \/ activity = Old)
                  THEN [sync EXCEPT !.pc = "stop"] ELSE IdleSync
  /\ UNCHANGED <<cfg, dynerVars, lanVars, syncing, relayCancel, loop, activity, tab, left>>

\* Mutant: a relay that nobody wants any more is left open.
applyNeverIdle ==
  /\ Answered
  /\ wanted' = IF sync.relay /\ asking THEN 0 ELSE wanted
  /\ sync' = IF sync.relay /\ asking THEN [sync EXCEPT !.pc = "start"] ELSE IdleSync
  /\ UNCHANGED <<cfg, dynerVars, lanVars, syncing, relayCancel, loop, activity, tab, left>>

\* applyRelayRequest with Dyner's answer: what it decides under s.mu.
applyRelayRequest ==
  /\ Answered
  /\ wanted' = IF sync.relay /\ asking THEN 0 ELSE wanted
  /\ sync' = IF ~sync.relay THEN IdleSync
             ELSE IF asking THEN [sync EXCEPT !.pc = "start"]
             ELSE IF relayCancel # None /\ wanted = Old /\ activity = Old
                  THEN [sync EXCEPT !.pc = "stop"] ELSE IdleSync
  /\ UNCHANGED <<cfg, dynerVars, lanVars, syncing, relayCancel, loop, activity, tab, left>>

\* Mutant: the configuration that the sync copied decides.
startRelayStale ==
  /\ sync.pc = "start" /\ sync' = IdleSync
  /\ \/ /\ relayCancel = None
        /\ \E l \in Loop :
             /\ loop[l].pc = "none"
             /\ loop' = [loop EXCEPT ![l] = [pc |-> "dial", env |-> sync.env, cancelled |-> FALSE]]
             /\ relayCancel' = l
     \/ relayCancel # None /\ UNCHANGED <<relayCancel, loop>>
  /\ UNCHANGED <<cfg, dynerVars, lanVars, syncing, wanted, activity, tab, left>>

\* startRelay, under s.mu: one loop at a time, while the relay is enabled.
startRelay ==
  /\ sync.pc = "start" /\ sync' = IdleSync
  /\ \/ /\ relayCancel = None /\ cfg.relay /\ Ticket(cfg) # None
        /\ \E l \in Loop :
             /\ loop[l].pc = "none"
             /\ loop' = [loop EXCEPT ![l] = [pc |-> "dial", env |-> Ticket(cfg), cancelled |-> FALSE]]
             /\ relayCancel' = l
     \/ /\ relayCancel # None \/ ~cfg.relay \/ Ticket(cfg) = None
        /\ UNCHANGED <<relayCancel, loop>>
  /\ UNCHANGED <<cfg, dynerVars, lanVars, syncing, wanted, activity, tab, left>>

\* Cancelling nothing, or the loop l.
Cancel(l) == loop' = [m \in Loop |-> IF m = l THEN [loop[m] EXCEPT !.cancelled = loop[m].pc # "none"]
                                    ELSE loop[m]]

\* stopRelay of the sync loop.  Only this goroutine starts relays, so nothing
\* happens between forgetting the cancel function and calling it.
SyncStops ==
  /\ sync.pc = "stop" /\ sync' = IdleSync
  /\ relayCancel' = None /\ Cancel(relayCancel)
  /\ UNCHANGED <<cfg, dynerVars, lanVars, syncing, wanted, activity, tab, left>>

-----------------------------------------------------------------------------
(* What a settings request t asks of Dyner *)

\* RegisterRemoteEnvironment creates the record e.
Register(e) == remote[e] = "unused" /\ remote' = [remote EXCEPT ![e] = "live"]

\* MergeRemoteEnvironment: the record that was superseded is gone.
Merge(target, source) ==
  /\ remote[target] = "live" /\ remote[source] = "live"
  /\ remote' = [remote EXCEPT ![source] = "gone"]

\* Without its listener the environment stays for the relay.
RelayOnly == cfg.relay /\ cfg.env # None

\* A request of t to Dyner fails, or the certificate cannot be read, and with
\* it the settings request.
RequestFails(t) ==
  /\ \/ tab[t].pc \in {"hosted", "merge", "register", "update", "create", "legacy"}
     \/ tab[t].pc = "off" /\ RelayOnly
  /\ Done(t)
  /\ UNCHANGED <<cfg, dynerVars, lanVars, syncing, sync, relayVars, left>>

-----------------------------------------------------------------------------
(* handleSettingsSetRelay: ensureHostedRegistration *)

SetRelay(t, want) ==
  /\ tab[t].pc = "idle" /\ Spend("requests")
  /\ tab' = [tab EXCEPT ![t] = [IdleTab EXCEPT !.pc = "hosted", !.want = want, !.c = cfg]]
  /\ UNCHANGED <<cfg, dynerVars, lanVars, syncing, sync, relayVars>>

\* The record that is registered already is updated; without one, create it.
HostedTarget(t) ==
  LET c == tab[t].c  known == IF c.env # None THEN c.env ELSE c.hosted IN
  /\ tab[t].pc = "hosted"
  /\ \E e \in Env :
       /\ IF known = None THEN Register(e) ELSE e = known /\ remote[e] = "live" /\ UNCHANGED remote
       /\ tab' = [tab EXCEPT ![t].target = e,
                             ![t].pc = IF c.hosted \notin {None, e} THEN "merge" ELSE "install"]
  /\ UNCHANGED <<cfg, asking, lanVars, syncing, sync, relayVars, left>>

HostedMerge(t) ==
  /\ tab[t].pc = "merge" /\ Merge(tab[t].target, tab[t].c.hosted)
  /\ Goto(t, "install")
  /\ UNCHANGED <<cfg, asking, lanVars, syncing, sync, relayVars, left>>

\* The configuration is changed under s.mu ...
HostedInstall(t) ==
  /\ tab[t].pc = "install"
  /\ cfg' = [cfg EXCEPT !.relay = (tab[t].want = "on"), !.env = tab[t].target, !.hosted = None]
  /\ Goto(t, "stop")
  /\ UNCHANGED <<dynerVars, lanVars, syncing, sync, relayVars, left>>

\* Mutant: the cancel function is forgotten, not called.
stopRelayForgets(t) ==
  /\ tab[t].pc = "stop"
  /\ Goto(t, "cancel")
  /\ relayCancel' = None
  /\ UNCHANGED <<cfg, dynerVars, lanVars, syncing, sync, loop, wanted, activity, left>>

\* ... stopRelay forgets the cancel function under s.mu ...
stopRelay(t) ==
  /\ tab[t].pc = "stop"
  /\ tab' = [tab EXCEPT ![t].pc = "cancel", ![t].cancel = relayCancel]
  /\ relayCancel' = None
  /\ UNCHANGED <<cfg, dynerVars, lanVars, syncing, sync, loop, wanted, activity, left>>

\* ... and calls it; then the request saves the configuration.
stopRelayCancels(t) ==
  /\ tab[t].pc = "cancel"
  /\ Cancel(tab[t].cancel)
  /\ tab' = [tab EXCEPT ![t].pc = "syncing", ![t].cancel = None] \/ Done(t)
  /\ UNCHANGED <<cfg, dynerVars, lanVars, syncing, sync, relayCancel, wanted, activity, left>>

\* startIdentitySync, the last thing a request does: one loop, once enrolled.
startIdentitySync(t) ==
  /\ tab[t].pc = "syncing"
  /\ syncing' = (syncing \/ Ticket(cfg) # None)
  /\ Done(t)
  /\ UNCHANGED <<cfg, dynerVars, lanVars, sync, relayVars, left>>

-----------------------------------------------------------------------------
(* handleSettingsSetServer: setListener *)

\* Mutant: a mode that the request left out is stored as it came.
setListenerRaw(t, mode) ==
  /\ tab[t].pc = "idle" /\ Spend("requests")
  /\ cfg' = [cfg EXCEPT !.mode = IF mode = "off" THEN "off" ELSE ""]
  /\ tab' = [tab EXCEPT ![t] = [IdleTab EXCEPT !.pc = "lan", !.want = mode]] \/ Done(t)
  /\ UNCHANGED <<dynerVars, lanVars, syncing, sync, relayVars>>

\* The listener is off, or on for this machine or for the network.
setListener(t, mode) ==
  /\ tab[t].pc = "idle" /\ Spend("requests")
  /\ cfg' = [cfg EXCEPT !.mode = mode]
  /\ tab' = [tab EXCEPT ![t] = [IdleTab EXCEPT !.pc = "lan", !.want = mode]] \/ Done(t)
  /\ UNCHANGED <<dynerVars, lanVars, syncing, sync, relayVars>>

\* restartLAN takes the close function and the configuration under s.mu ...
restartLAN(t) ==
  /\ tab[t].pc = "lan"
  /\ tab' = [tab EXCEPT ![t].pc = "close", ![t].held = lanClose, ![t].c = cfg]
  /\ lanClose' = FALSE
  /\ UNCHANGED <<cfg, dynerVars, lan, syncing, sync, relayVars, left>>

AfterLAN(t) == IF tab[t].want = "off" THEN "off" ELSE "register"

\* ... closes the old listener ...
closeLAN(t) ==
  /\ tab[t].pc = "close"
  /\ lan' = (lan /\ ~tab[t].held)
  /\ tab' = [tab EXCEPT ![t].held = FALSE,
                        ![t].pc = IF tab[t].c.mode = "on" THEN "bind" ELSE AfterLAN(t)]
  /\ UNCHANGED <<cfg, dynerVars, lanClose, syncing, sync, relayVars, left>>

\* ... binds the port, unless it is taken ...
startLAN(t) ==
  /\ tab[t].pc = "bind"
  /\ \/ ~lan /\ lan' = TRUE /\ Goto(t, "keep")
     \/ UNCHANGED lan /\ Done(t)
  /\ UNCHANGED <<cfg, dynerVars, lanClose, syncing, sync, relayVars, left>>

\* Mutant: the new close function is not stored.
LANStartedUnkept(t) ==
  /\ tab[t].pc = "keep"
  /\ Goto(t, AfterLAN(t))
  /\ UNCHANGED <<cfg, dynerVars, lanVars, syncing, sync, relayVars, left>>

\* ... and stores the new close function.
LANStarted(t) ==
  /\ tab[t].pc = "keep"
  /\ lanClose' = TRUE
  /\ Goto(t, AfterLAN(t))
  /\ UNCHANGED <<cfg, dynerVars, lan, syncing, sync, relayVars, left>>

\* Listener off: the record is updated for the relay, or else revoked (a
\* failure is ignored) and forgotten.
ListenerOff(t) ==
  /\ tab[t].pc = "off"
  /\ \/ RelayOnly /\ remote[cfg.env] = "live" /\ Goto(t, "syncing")
     \/ ~RelayOnly /\ tab' = [tab EXCEPT ![t].pc = "revoke", ![t].target = cfg.env]
  /\ UNCHANGED <<cfg, dynerVars, lanVars, syncing, sync, relayVars, left>>

ListenerRevoke(t) ==
  /\ tab[t].pc = "revoke"
  /\ \/ remote' = [e \in Env |-> IF e = tab[t].target THEN "gone" ELSE remote[e]]
     \/ UNCHANGED remote
  /\ Goto(t, "unenrol")
  /\ UNCHANGED <<cfg, asking, lanVars, syncing, sync, relayVars, left>>

ListenerForgets(t) ==
  /\ tab[t].pc = "unenrol"
  /\ cfg' = [cfg EXCEPT !.env = None]
  /\ Goto(t, "syncing")
  /\ UNCHANGED <<dynerVars, lanVars, syncing, sync, relayVars, left>>

-----------------------------------------------------------------------------
(* ensureListenerRegistration *)

ensureListenerRegistration(t) ==
  /\ tab[t].pc = "register"
  /\ tab' = [tab EXCEPT ![t].c = cfg,
                        ![t].pc = IF cfg.mode = "off" THEN "syncing"
                                  ELSE IF cfg.env # None THEN "update" ELSE "create"]
  /\ UNCHANGED <<cfg, dynerVars, lanVars, syncing, sync, relayVars, left>>

\* The saved record is updated; one that is gone is forgotten.
ListenerUpdate(t) ==
  LET c == tab[t].c IN
  /\ tab[t].pc = "update"
  /\ \/ /\ remote[c.env] = "live"
        /\ tab' = [tab EXCEPT ![t].target = c.env,
                     ![t].pc = IF c.relay /\ c.hosted \notin {None, c.env} THEN "legacy" ELSE "syncing"]
        /\ UNCHANGED cfg
     \/ /\ remote[c.env] = "gone"
        /\ cfg' = [cfg EXCEPT !.env = None]
        /\ Goto(t, "create")
  /\ UNCHANGED <<dynerVars, lanVars, syncing, sync, relayVars, left>>

ListenerCreate(t, e) ==
  /\ tab[t].pc = "create" /\ Register(e)
  /\ tab' = [tab EXCEPT ![t].pc = "enrol", ![t].target = e]
  /\ UNCHANGED <<cfg, asking, lanVars, syncing, sync, relayVars, left>>

\* The new credential is stored before the merge is tried.
ListenerEnrol(t) ==
  /\ tab[t].pc = "enrol"
  /\ cfg' = [cfg EXCEPT !.env = tab[t].target]
  /\ \/ tab' = [tab EXCEPT ![t].c.hosted = cfg.hosted,
                  ![t].pc = IF tab[t].c.relay /\ cfg.hosted \notin {None, tab[t].target}
                            THEN "legacy" ELSE "forget"]
     \/ Done(t)
  /\ UNCHANGED <<dynerVars, lanVars, syncing, sync, relayVars, left>>

ListenerMerge(t) ==
  /\ tab[t].pc = "legacy" /\ Merge(tab[t].target, tab[t].c.hosted)
  /\ Goto(t, "forget")
  /\ UNCHANGED <<cfg, asking, lanVars, syncing, sync, relayVars, left>>

LegacyForgotten(t) ==
  /\ tab[t].pc = "forget"
  /\ cfg' = [cfg EXCEPT !.hosted = None]
  /\ Saved(t, "syncing")
  /\ UNCHANGED <<dynerVars, lanVars, syncing, sync, relayVars, left>>

-----------------------------------------------------------------------------
TabStep(t) ==
  \/ HostedTarget(t) \/ HostedMerge(t) \/ HostedInstall(t) \/ stopRelay(t) \/ stopRelayCancels(t)
  \/ restartLAN(t) \/ closeLAN(t) \/ startLAN(t) \/ LANStarted(t)
  \/ ListenerOff(t) \/ ListenerRevoke(t) \/ ListenerForgets(t)
  \/ ensureListenerRegistration(t) \/ ListenerUpdate(t) \/ (\E e \in Env : ListenerCreate(t, e))
  \/ ListenerEnrol(t) \/ ListenerMerge(t) \/ LegacyForgotten(t)
  \/ startIdentitySync(t) \/ RequestFails(t)

LoopStep(l) == RelayDial(l) \/ RelayFails(l) \/ RelayReturns(l)

Next ==
  \/ \E e \in Env : RevokeRemoteEnvironment(e)
  \/ RelayRequested \/ Tick
  \/ \E l \in Loop : LoopStep(l) \/ noteRelayActivity(l)
  \/ SyncAsks \/ SyncFails \/ applyRelayRequest \/ startRelay \/ SyncStops
  \/ \E t \in Tab, want \in {"off", "on"} : SetRelay(t, want) \/ setListener(t, want)
  \/ \E t \in Tab : TabStep(t)

(***************************************************************************)
(* Fairness: time passes and the goroutines go on.  Dyner answers a sync   *)
(* again and again, and a relay whose record is live again and again       *)
(* accepts a dial; a settings request ends, in success or failure.         *)
(***************************************************************************)
Fairness ==
  /\ WF_vars(Tick) /\ WF_vars(SyncAsks) /\ SF_vars(applyRelayRequest)
  /\ WF_vars(SyncAsks \/ SyncFails \/ applyRelayRequest \/ startRelay \/ SyncStops)
  /\ WF_vars(startRelay) /\ WF_vars(SyncStops)
  /\ \A l \in Loop : WF_vars(RelayReturns(l)) /\ SF_vars(RelayDial(l))
  /\ \A l \in Loop : WF_vars(loop[l].cancelled /\ RelayFails(l))
  /\ \A t \in Tab : WF_vars(TabStep(t))

Spec == Init /\ [][Next]_vars /\ Fairness

-----------------------------------------------------------------------------
(* Properties *)

\* The loops that nobody is about to cancel.
Kept == {l \in Loop : Running(l) /\ \A t \in Tab : tab[t].cancel # l}

\* No relay connection escapes: the loop that runs is the one whose cancel
\* function the server holds (agent.go:291-316), whatever settings requests
\* and syncs overlap.
RelayUnderControl == Kept \subseteq {relayCancel}

\* Turning the relay off stops it: once the request is past stopRelay no loop
\* runs on, not even one that a sync with the old configuration was about to
\* start (agent.go:298-301, registration.go:338-348).
RelayOffStops ==
  (~cfg.relay /\ \A t \in Tab : tab[t].pc # "stop") => Kept = {}

\* No listener escapes: between settings requests a bound LAN listener can be
\* closed by the server, although two requests may restart it at once
\* (agent.go:349-369).
ListenerUnderControl ==
  (\A t \in Tab : tab[t].pc \notin {"close", "keep"}) => (lan <=> lanClose)

\* Settings requests and syncs never leave a relay loop or a listener that
\* the server cannot stop, and a relay that is off is stopped.
ServerInControl == RelayUnderControl /\ RelayOffStops /\ ListenerUnderControl

\* The sync loop closes the relay only when no request was reported for
\* relayIdleGrace, up to the moment it closes it (agent.go:405-433).
IdleStopAfterGrace == [][sync.pc = "stop" /\ relayCancel # None /\ relayCancel' = None
                           /\ (\A t \in Tab : tab[t].pc # "stop") => wanted = Old]_vars

Enrolled == Ticket(cfg) # None /\ remote[Ticket(cfg)] = "live"
Quiet == cfg.relay /\ Enrolled /\ syncing /\ \A t \in Tab : tab[t].pc = "idle"

\* "So an idle machine holds no relay connection" (README.md:192-193): without
\* requests and frames the relay closes, for as long as Dyner can be asked.
IdleRelayCloses ==
  <>[](Quiet /\ ~asking /\ activity = Old) => <>[](\A l \in Loop : ~Running(l))
=============================================================================
