------------------------------ MODULE Platform ------------------------------
(***************************************************************************)
(* The platform channel (shellagent/native_platform_host.go): the one      *)
(* connection over which a host that owns the system UI installs, removes  *)
(* and opens apps for the agent.  Hosts connect, restart and disappear;    *)
(* requests of several sockets call the host that is connected.            *)
(***************************************************************************)
EXTENDS Naturals, Sequences, FiniteSets, TLC

CONSTANTS
  MaxHosts,  \* connections in all
  Asker,     \* requests that call the platform
  MaxAsked   \* calls of one connection

ASSUME PlatformAssumption == MaxHosts \in Nat /\ MaxAsked \in Nat

VARIABLES
  opened,   \* connections so far
  active,   \* activeNativePlatform, 0 when nil
  link,     \* each connection: its socket
  serveHost,   \* each connection: serveNativePlatform
  nextAsk,  \* nativePlatformConn.nextID
  waiting,  \* nativePlatformConn.pending: the ids and who waits
  box,      \* the channel of each asker's call
  asker,    \* each request: where it is, which host, which id
  sent      \* requests the host has received and not answered

platformVars == <<opened, active, link, serveHost, nextAsk, waiting, box, asker, sent>>
Hosts == 1 .. MaxHosts
Idle == [at |-> "idle", host |-> 0, id |-> 0]
connectionVars == <<opened, active, link, serveHost>>

\* Types; a channel holds one answer.
PlatformTypeOK ==
  /\ opened \in 0 .. MaxHosts /\ active \in 0 .. MaxHosts
  /\ link \in [Hosts -> {"none", "up", "down"}]
  /\ serveHost \in [Hosts -> {"none", "catalog", "read", "closing", "ended"}]
  /\ nextAsk \in [Hosts -> 0 .. MaxAsked]
  /\ \A h \in Hosts : waiting[h] \subseteq 1 .. MaxAsked /\ sent[h] \subseteq 1 .. MaxAsked
  /\ box \in [Asker -> 0 .. MaxAsked]
  /\ \A a \in Asker : /\ asker[a].at \in {"idle", "loaded", "write", "wait", "answered", "failed"}
                      /\ asker[a].host \in 0 .. MaxHosts /\ asker[a].id \in 0 .. MaxAsked

PlatformInit ==
  /\ opened = 0 /\ active = 0 /\ link = [h \in Hosts |-> "none"]
  /\ serveHost = [h \in Hosts |-> "none"] /\ nextAsk = [h \in Hosts |-> 0]
  /\ waiting = [h \in Hosts |-> {}] /\ sent = [h \in Hosts |-> {}]
  /\ box = [a \in Asker |-> 0] /\ asker = [a \in Asker |-> Idle]

-----------------------------------------------------------------------------
(* serveNativePlatform *)

\* A new connection becomes the active one and the previous one is closed.
Connect ==
  /\ opened < MaxHosts /\ opened' = opened + 1 /\ active' = opened + 1
  /\ link' = [h \in Hosts |-> IF h = opened + 1 THEN "up"
                              ELSE IF h = active THEN "down" ELSE link[h]]
  /\ serveHost' = [serveHost EXCEPT ![opened + 1] = "catalog"]
  /\ UNCHANGED <<nextAsk, waiting, box, asker, sent>>

\* ensureNativeCatalogApp, up to eight seconds, and "native-platform-ready".
Ready(h) ==
  /\ serveHost[h] = "catalog"
  /\ serveHost' = [serveHost EXCEPT ![h] = IF link[h] = "up" THEN "read" ELSE "closing"]
  /\ UNCHANGED <<opened, active, link, nextAsk, waiting, box, asker, sent>>

\* The host answers a request; the answer goes to the channel of its id,
\* unless the call is over.
Result(h, id) ==
  /\ serveHost[h] = "read" /\ id \in sent[h] /\ sent' = [sent EXCEPT ![h] = @ \ {id}]
  /\ box' = [a \in Asker |->
               IF id \in waiting[h] /\ asker[a].host = h /\ asker[a].id = id /\ box[a] = 0
                 THEN id ELSE box[a]]
  /\ UNCHANGED <<connectionVars, nextAsk, waiting, asker>>

HostGone(h) ==
  /\ link[h] = "up" /\ link' = [link EXCEPT ![h] = "down"]
  /\ UNCHANGED <<opened, active, serveHost, nextAsk, waiting, box, asker, sent>>

ReadFails(h) ==
  /\ serveHost[h] = "read" /\ link[h] = "down" /\ serveHost' = [serveHost EXCEPT ![h] = "closing"]
  /\ UNCHANGED <<opened, active, link, nextAsk, waiting, box, asker, sent>>

\* Mutant: activeNativePlatform.Store(nil).
StoreNil(h) ==
  /\ serveHost[h] = "closing" /\ serveHost' = [serveHost EXCEPT ![h] = "ended"]
  /\ active' = 0
  /\ UNCHANGED <<opened, link, nextAsk, waiting, box, asker, sent>>

\* CompareAndSwap(host, nil), and the closed channel.
Ended(h) ==
  /\ serveHost[h] = "closing" /\ serveHost' = [serveHost EXCEPT ![h] = "ended"]
  /\ active' = IF active = h THEN 0 ELSE active
  /\ UNCHANGED <<opened, link, nextAsk, waiting, box, asker, sent>>

-----------------------------------------------------------------------------
(* callNativePlatform *)

Load(a) ==
  /\ asker[a].at = "idle" /\ active # 0
  /\ asker' = [asker EXCEPT ![a] = [at |-> "loaded", host |-> active, id |-> 0]]
  /\ box' = [box EXCEPT ![a] = 0]
  /\ UNCHANGED <<connectionVars, nextAsk, waiting, sent>>

\* The id and its channel.
RegisterCall(a) ==
  LET h == asker[a].host id == nextAsk[h] + 1 IN
  /\ asker[a].at = "loaded" /\ id <= MaxAsked
  /\ nextAsk' = [nextAsk EXCEPT ![h] = id]
  /\ waiting' = [waiting EXCEPT ![h] = @ \cup {id}]
  /\ asker' = [asker EXCEPT ![a] = [at |-> "write", host |-> h, id |-> id]]
  /\ UNCHANGED <<connectionVars, box, sent>>

Leaves(a, how) ==
  /\ asker' = [asker EXCEPT ![a].at = how]
  /\ waiting' = [waiting EXCEPT ![asker[a].host] = @ \ {asker[a].id}]

\* The frame is written, or the connection is gone.
WriteAsk(a) ==
  LET h == asker[a].host IN
  /\ asker[a].at = "write"
  /\ IF link[h] = "up"
       THEN /\ sent' = [sent EXCEPT ![h] = @ \cup {asker[a].id}]
            /\ asker' = [asker EXCEPT ![a].at = "wait"] /\ UNCHANGED waiting
       ELSE Leaves(a, "failed") /\ UNCHANGED sent
  /\ UNCHANGED <<connectionVars, nextAsk, box>>

Answered(a) ==
  /\ asker[a].at = "wait" /\ box[a] # 0 /\ Leaves(a, "answered")
  /\ UNCHANGED <<connectionVars, nextAsk, box, sent>>

\* Mutant: the select has no case for host.closed.
HostClosedIgnored(a) ==
  /\ asker[a].at = "wait" /\ box[a] # 0 /\ Leaves(a, "failed")
  /\ UNCHANGED <<connectionVars, nextAsk, box, sent>>

\* host.closed ends the calls of a connection that is over.
HostClosed(a) ==
  /\ asker[a].at = "wait" /\ serveHost[asker[a].host] = "ended" /\ Leaves(a, "failed")
  /\ UNCHANGED <<connectionVars, nextAsk, box, sent>>

\* Two minutes, or the caller's context.
AskTimeout(a) ==
  /\ asker[a].at = "wait" /\ Leaves(a, "failed")
  /\ UNCHANGED <<connectionVars, nextAsk, box, sent>>

PlatformNext ==
  \/ Connect
  \/ \E h \in Hosts : \/ Ready(h) \/ HostGone(h) \/ ReadFails(h) \/ Ended(h)
                      \/ \E id \in 1 .. MaxAsked : Result(h, id)
  \/ \E a \in Asker : \/ Load(a) \/ RegisterCall(a) \/ WriteAsk(a) \/ Answered(a)
                      \/ HostClosed(a) \/ AskTimeout(a)

\* The connection's goroutine and the callers run; neither the host's answer
\* nor the two-minute timer is assumed.
PlatformFairness ==
  /\ \A h \in Hosts : WF_platformVars(Ready(h) \/ ReadFails(h) \/ Ended(h))
  /\ \A a \in Asker : WF_platformVars(WriteAsk(a) \/ Answered(a) \/ HostClosed(a))

PlatformSpec == PlatformInit /\ [][PlatformNext]_platformVars /\ PlatformFairness

\* A newer connection replaces an older one, so a restarted host process takes
\* over, in whatever order the two connections end.
NewestServes ==
  opened # 0 /\ serveHost[opened] \in {"catalog", "read", "closing"} => active = opened

\* Types, and the newest host in charge (serveNativePlatform).
PlatformSafe == PlatformTypeOK /\ NewestServes

\* A call to a host that is gone fails at once, not after two minutes.
CallsFailFast ==
  \A a \in Asker, h \in Hosts :
    []<>(~(asker[a].at = "wait" /\ asker[a].host = h /\ link[h] = "down"))
====
