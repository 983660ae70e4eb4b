------------------------------ MODULE Bridges ------------------------------
(***************************************************************************)
(* TCP, UDP and RDP bridges (shellagent/network_bridge.go) and the gate    *)
(* that keeps a self-update from interrupting them (shellagent/agent.go).  *)
(*                                                                         *)
(* Goroutines: one frame loop per authenticated socket, one forwarder per  *)
(* bridge, one handler per reliable channel, and the self-updater.  They   *)
(* share each socket's bridgeSet, the atomic counter activeBridges and the *)
(* RWMutex updateMu.  All bridge sets are kept in one set `items`; the     *)
(* socket whose bridgeSet holds a bridge is home[b].                       *)
(***************************************************************************)
EXTENDS Integers, FiniteSets

CONSTANTS
  Socket,     \* authenticated sockets (WebSocket, WebTransport, WebRTC, native)
  Recovered,  \* those served inside a net/http handler, which recovers panics
  Bridge,     \* bridge ids, handed out once each by bridgeCounter
  UDP,        \* the ids that start with "udp_"
  Channel,    \* reliable channels
  None        \* no bridge / no channel: the control socket is the carrier

ASSUME SocketFinite == IsFiniteSet(Socket)
ASSUME BridgeFinite == IsFiniteSet(Bridge)
ASSUME SubsetAssumption == Recovered \subseteq Socket /\ UDP \subseteq Bridge
ASSUME NoneAssumption == None \notin Bridge /\ None \notin Channel

VARIABLES
  items,    \* bridges present in some bridgeSet
  swapped,  \* bridges closeAll has removed but not yet subtracted
  home,     \* socket whose bridgeSet the bridge belongs to
  conn,     \* the bridge's net.Conn
  carrier,  \* bridgeRecord.carrier: None is the control socket
  mode,     \* bridgeRecord.mode
  active,   \* Server.activeBridges
  rlock,    \* frame loops that hold updateMu for reading
  pending,  \* Server.updatePending
  pc,       \* frame loop
  cur,      \* bridge the frame loop works on
  fwd,      \* forwardTCPBridge
  ch,       \* handleReliableChannel
  chBridge, \* bind.BridgeID of the channel
  upd,      \* the self-updater at the gate
  force,    \* the ignoreActiveBridges argument of tryBeginUpdate
  agent     \* "panicked" once an unrecovered panic has ended the process

setVars == <<items, swapped, home, conn, carrier, mode, active>>
gateVars == <<rlock, pending, upd, force>>
loopVars == <<pc, cur>>
chVars == <<ch, chBridge>>
vars == <<setVars, gateVars, loopVars, fwd, chVars, agent>>

Up == agent = "up"

InOpen == {"dial", "count", "reply"}

Types ==
  /\ items \subseteq Bridge /\ swapped \subseteq Bridge
  /\ home \in [Bridge -> Socket \cup {None}]
  /\ conn \in [Bridge -> {"unused", "open", "closed", "dropped"}]
  /\ carrier \in [Bridge -> Channel \cup {None}]
  /\ mode \in [Bridge -> {"record", "raw", "datagram"}]
  /\ active \in Int
  /\ rlock \subseteq Socket
  /\ pending \in BOOLEAN /\ force \in BOOLEAN
  /\ agent \in {"up", "panicked"}
  /\ pc \in [Socket -> {"idle", "write", "swap", "uncount", "close", "gone"} \cup InOpen]
  /\ cur \in [Socket -> Bridge \cup {None}]
  /\ fwd \in [Bridge -> {"none", "read", "raw", "done"}]
  /\ ch \in [Channel -> {"new", "bound", "ending", "done"}]
  /\ chBridge \in [Channel -> Bridge \cup {None}]
  /\ upd \in {"idle", "lock", "updating"}

\* The type invariant.  The counter may be negative, by at most the opens
\* between the two halves of put, which is why ActiveBridges clamps it.
TypeOK == Types /\ active \in -Cardinality(Socket) .. Cardinality(Bridge)

Init ==
  /\ items = {} /\ swapped = {}
  /\ home = [b \in Bridge |-> None]
  /\ conn = [b \in Bridge |-> "unused"]
  /\ carrier = [b \in Bridge |-> None]
  /\ mode = [b \in Bridge |-> "record"]
  /\ active = 0
  /\ rlock = {} /\ pending = FALSE /\ upd = "idle" /\ force = FALSE
  /\ pc = [s \in Socket |-> "idle"] /\ cur = [s \in Socket |-> None]
  /\ fwd = [b \in Bridge |-> "none"]
  /\ ch = [c \in Channel |-> "new"] /\ chBridge = [c \in Channel |-> None]
  /\ agent = "up"

-----------------------------------------------------------------------------
(* bridgeSet *)

\* take: delete the record and decrement the counter, under one lock.
take(b) ==
  /\ items' = items \ {b}
  /\ active' = IF b \in items THEN active - 1 ELSE active

\* The bridges of socket s in a set of bridges.
Of(s, B) == {b \in B : home[b] = s}

-----------------------------------------------------------------------------
(* handleNetwork, on the frame loop of socket s *)

Goto(s, label) == pc' = [pc EXCEPT ![s] = label]

\* Back to the frame loop, its local bridge forgotten.
Return(s, label) == Goto(s, label) /\ cur' = [cur EXCEPT ![s] = None]

\* Fault: the lock is released as soon as updatePending has been read.
lockBridgeOpenReleased(s) ==
  /\ Up /\ pc[s] = "idle" /\ upd # "lock" /\ ~pending
  /\ Goto(s, "dial")
  /\ UNCHANGED <<setVars, gateVars, cur, fwd, chVars, agent>>


\* lockBridgeOpen: RLock waits for a writer that is already waiting, and an
\* update that has begun refuses the open (no state changes).
lockBridgeOpen(s) ==
  /\ Up /\ pc[s] = "idle" /\ upd # "lock" /\ ~pending
  /\ rlock' = rlock \cup {s}
  /\ Goto(s, "dial")
  /\ UNCHANGED <<setVars, pending, upd, force, cur, fwd, chVars, agent>>

\* The target cannot be dialled: net-error, and release() runs.
DialFails(s) ==
  /\ Up /\ pc[s] = "dial"
  /\ rlock' = rlock \ {s}
  /\ Goto(s, "idle")
  /\ UNCHANGED <<setVars, pending, upd, force, cur, fwd, chVars, agent>>

\* put, first half: the record is inserted under set.mu with a fresh id ...
put(s, b) ==
  /\ Up /\ pc[s] = "dial" /\ conn[b] = "unused"
  /\ items' = items \cup {b}
  /\ home' = [home EXCEPT ![b] = s]
  /\ conn' = [conn EXCEPT ![b] = "open"]
  /\ cur' = [cur EXCEPT ![s] = b]
  /\ Goto(s, "count")
  /\ UNCHANGED <<swapped, carrier, mode, active, gateVars, fwd, chVars, agent>>

\* Fault: the bridge is counted by put and by its caller.
putCountTwice(s) ==
  /\ Up /\ pc[s] = "count"
  /\ active' = active + 2
  /\ Goto(s, "reply")
  /\ UNCHANGED <<items, swapped, home, conn, carrier, mode, gateVars, cur, fwd, chVars, agent>>

\* ... second half: the counter is incremented after set.mu is released.
putCount(s) ==
  /\ Up /\ pc[s] = "count"
  /\ active' = active + 1
  /\ Goto(s, "reply")
  /\ UNCHANGED <<items, swapped, home, conn, carrier, mode, gateVars, cur, fwd, chVars, agent>>

\* net-result is sent, the forwarder starts, release() runs.
ReplySent(s) ==
  /\ Up /\ pc[s] = "reply"
  /\ fwd' = [fwd EXCEPT ![cur[s]] = "read"]
  /\ rlock' = rlock \ {s}
  /\ Return(s, "idle")
  /\ UNCHANGED <<setVars, pending, upd, force, chVars, agent>>

\* take(id).Close() with the record still there: the connection is closed.
TakeAndClose(b) ==
  /\ b \in items
  /\ take(b)
  /\ conn' = [conn EXCEPT ![b] = "closed"]

\* take(id).Close() on a record that somebody else took: the nil net.Conn
\* panics.  net/http recovers it and the loop's deferred calls run, or the
\* whole process ends.
NilTakePanics(s, b) ==
  /\ b \notin items
  /\ UNCHANGED <<items, active, conn>>
  /\ Return(s, "swap")
  /\ agent' = IF s \in Recovered THEN "up" ELSE "panicked"

\* The socket died before net-result: take(bridgeID).Close(), release().
ReplyFails(s) ==
  /\ Up /\ pc[s] = "reply"
  /\ \/ TakeAndClose(cur[s]) /\ Return(s, "idle") /\ UNCHANGED agent
     \/ NilTakePanics(s, cur[s])
  /\ rlock' = rlock \ {s}
  /\ UNCHANGED <<swapped, home, carrier, mode, pending, upd, force, fwd, chVars>>

\* net-data: get the connection (nil returns), then write outside the lock.
DataGet(s, b) ==
  /\ Up /\ pc[s] = "idle" /\ b \in Of(s, items)
  /\ cur' = [cur EXCEPT ![s] = b]
  /\ Goto(s, "write")
  /\ UNCHANGED <<setVars, gateVars, fwd, chVars, agent>>

DataWritten(s) ==
  /\ Up /\ pc[s] = "write" /\ conn[cur[s]] # "closed"
  /\ Return(s, "idle")
  /\ UNCHANGED <<setVars, gateVars, fwd, chVars, agent>>

\* The write fails: always on a closed connection, any time on a broken one.
DataWriteFails(s) ==
  /\ Up /\ pc[s] = "write"
  /\ \/ TakeAndClose(cur[s]) /\ Return(s, "idle") /\ UNCHANGED agent
     \/ NilTakePanics(s, cur[s])
  /\ UNCHANGED <<swapped, home, carrier, mode, gateVars, fwd, chVars>>

\* net-close: take, checked for nil.
NetClose(s, b) ==
  /\ Up /\ pc[s] = "idle" /\ home[b] = s
  /\ TakeAndClose(b)
  /\ UNCHANGED <<swapped, home, carrier, mode, gateVars, loopVars, fwd, chVars, agent>>

\* channel/bind/datagram on the control socket.
bindDatagrams(s, b) ==
  /\ Up /\ pc[s] = "idle" /\ b \in Of(s, items) \cap UDP
  /\ mode' = [mode EXCEPT ![b] = "datagram"]
  /\ UNCHANGED <<items, swapped, home, conn, carrier, active, gateVars, loopVars, fwd, chVars, agent>>

\* The socket's Read fails, or a frame finds the pairing revoked.
SocketEnds(s) ==
  /\ Up /\ pc[s] = "idle"
  /\ Goto(s, "swap")
  /\ UNCHANGED <<setVars, gateVars, cur, fwd, chVars, agent>>

\* closeAll in three steps: swap the map under set.mu ...
closeAll(s) ==
  /\ Up /\ pc[s] = "swap"
  /\ items' = items \ Of(s, items)
  /\ swapped' = swapped \cup Of(s, items)
  /\ Goto(s, "uncount")
  /\ UNCHANGED <<home, conn, carrier, mode, active, gateVars, cur, fwd, chVars, agent>>

\* Fault: closeAll subtracts the size of the map after it has been emptied.
closeAllCountEmpty(s) ==
  /\ Up /\ pc[s] = "uncount"
  /\ active' = active - Cardinality(Of(s, items))
  /\ swapped' = swapped \ Of(s, swapped)
  /\ Goto(s, "close")
  /\ UNCHANGED <<items, home, conn, carrier, mode, gateVars, cur, fwd, chVars, agent>>

\* Fault: closeAll returns without closing the connections.
closeAllForgets(s) ==
  /\ Up /\ pc[s] = "uncount"
  /\ active' = active - Cardinality(Of(s, swapped))
  /\ swapped' = swapped \ Of(s, swapped)
  /\ Goto(s, "gone")
  /\ UNCHANGED <<items, home, conn, carrier, mode, gateVars, cur, fwd, chVars, agent>>

\* ... subtract the count ...
closeAllCount(s) ==
  /\ Up /\ pc[s] = "uncount"
  /\ active' = active - Cardinality(Of(s, swapped))
  /\ swapped' = swapped \ Of(s, swapped)
  /\ Goto(s, "close")
  /\ UNCHANGED <<items, home, conn, carrier, mode, gateVars, cur, fwd, chVars, agent>>

\* Fault: the connections closed are those still in the (now empty) map.
closeAllCloseEmpty(s) ==
  /\ Up /\ pc[s] = "close"
  /\ conn' = [b \in Bridge |-> IF b \in Of(s, items) THEN "closed" ELSE conn[b]]
  /\ Goto(s, "gone")
  /\ UNCHANGED <<items, swapped, home, carrier, mode, active, gateVars, cur, fwd, chVars, agent>>

\* ... and close what was swapped out: every connection of this socket that
\* nobody took before.
closeAllClose(s) ==
  /\ Up /\ pc[s] = "close"
  /\ conn' = [b \in Bridge |-> IF home[b] = s /\ conn[b] = "open" THEN "closed" ELSE conn[b]]
  /\ Goto(s, "gone")
  /\ UNCHANGED <<items, swapped, home, carrier, mode, active, gateVars, cur, fwd, chVars, agent>>

-----------------------------------------------------------------------------
(* forwardTCPBridge *)

\* Data was read and delivery() found a raw carrier.
FwdRaw(b) ==
  /\ Up /\ fwd[b] = "read" /\ conn[b] = "open"
  /\ b \in items /\ mode[b] = "raw"
  /\ fwd' = [fwd EXCEPT ![b] = "raw"]
  /\ UNCHANGED <<setVars, gateVars, loopVars, chVars, agent>>

\* WriteRaw succeeds (a stream may still buffer what its peer will not read).
FwdRawWritten(b) ==
  /\ Up /\ fwd[b] = "raw"
  /\ fwd' = [fwd EXCEPT ![b] = "read"]
  /\ UNCHANGED <<setVars, gateVars, loopVars, chVars, agent>>

\* WriteRaw fails: take(bridgeID).Close() unchecked, in a goroutine that
\* nothing recovers.
FwdRawFails(b) ==
  /\ Up /\ fwd[b] = "raw"
  /\ \/ TakeAndClose(b) /\ UNCHANGED agent
     \/ b \notin items /\ agent' = "panicked" /\ UNCHANGED <<items, active, conn>>
  /\ fwd' = [fwd EXCEPT ![b] = "done"]
  /\ UNCHANGED <<swapped, home, carrier, mode, gateVars, loopVars, chVars>>

\* The record is gone: delivery() returns no carrier, or Read fails and take
\* returns nil.
FwdGone(b) ==
  /\ Up /\ fwd[b] = "read" /\ b \notin items
  /\ fwd' = [fwd EXCEPT ![b] = "done"]
  /\ UNCHANGED <<setVars, gateVars, loopVars, chVars, agent>>

\* Read fails for good: take and net-close.  The connection is dropped
\* without a Close unless somebody closed it before.
FwdReadFails(b) ==
  /\ Up /\ fwd[b] = "read" /\ b \in items
  /\ take(b)
  /\ conn' = [conn EXCEPT ![b] = IF @ = "closed" THEN @ ELSE "dropped"]
  /\ fwd' = [fwd EXCEPT ![b] = "done"]
  /\ UNCHANGED <<swapped, home, carrier, mode, gateVars, loopVars, chVars, agent>>

-----------------------------------------------------------------------------
(* handleReliableChannel *)

bind(c, b, m) ==
  /\ Up /\ ch[c] = "new" /\ b \in items
  /\ carrier' = [carrier EXCEPT ![b] = c]
  /\ mode' = [mode EXCEPT ![b] = m]
  /\ chBridge' = [chBridge EXCEPT ![c] = b]
  /\ ch' = [ch EXCEPT ![c] = "bound"]
  /\ UNCHANGED <<items, swapped, home, conn, active, gateVars, loopVars, fwd, agent>>

\* The channel's Read fails.
ChannelReadFails(c) ==
  /\ Up /\ ch[c] = "bound"
  /\ ch' = [ch EXCEPT ![c] = "ending"]
  /\ UNCHANGED <<setVars, gateVars, loopVars, fwd, chBridge, agent>>

\* A raw write to the target fails: the connection is closed here, its
\* record is taken by the deferred call.
ChannelWriteFails(c) ==
  /\ Up /\ ch[c] = "bound" /\ chBridge[c] \in items
  /\ conn' = [conn EXCEPT ![chBridge[c]] = "closed"]
  /\ ch' = [ch EXCEPT ![c] = "ending"]
  /\ UNCHANGED <<items, swapped, home, carrier, mode, active, gateVars, loopVars, fwd, chBridge, agent>>

\* Fault: the channel handler returns without taking its bridge.
ChannelEndsBound(c) ==
  /\ Up /\ ch[c] = "ending"
  /\ ch' = [ch EXCEPT ![c] = "done"]
  /\ UNCHANGED <<setVars, gateVars, loopVars, fwd, chBridge, agent>>

\* The deferred take (also what a net-close record does first).
ChannelEnds(c) ==
  /\ Up /\ ch[c] = "ending"
  /\ \/ TakeAndClose(chBridge[c])
     \/ chBridge[c] \notin items /\ UNCHANGED <<items, active, conn>>
  /\ ch' = [ch EXCEPT ![c] = "done"]
  /\ UNCHANGED <<swapped, home, carrier, mode, gateVars, loopVars, fwd, chBridge, agent>>

-----------------------------------------------------------------------------
(* The self-updater at the gate *)

\* waitForIdleBridges returns: the counter reads as idle (ActiveBridges
\* clamps a negative count), or the deferral has expired.
waitForIdleBridges(expired) ==
  /\ Up /\ upd = "idle"
  /\ active <= 0 \/ expired
  /\ force' = (expired /\ active > 0)
  /\ upd' = "lock"
  /\ UNCHANGED <<setVars, rlock, pending, loopVars, fwd, chVars, agent>>

\* Fault: the result of waitForIdleBridges is trusted, the counter not re-read.
tryBeginUpdateStale ==
  /\ Up /\ upd = "lock" /\ rlock = {}
  /\ pending' = TRUE /\ upd' = "updating" /\ force' = FALSE
  /\ UNCHANGED <<setVars, rlock, loopVars, fwd, chVars, agent>>

\* Fault: the gate is checked without the write lock.
tryBeginUpdateUnlocked ==
  /\ Up /\ upd = "lock"
  /\ IF ~pending /\ (force \/ active = 0)
     THEN pending' = TRUE /\ upd' = "updating"
     ELSE upd' = "idle" /\ UNCHANGED pending
  /\ force' = FALSE
  /\ UNCHANGED <<setVars, rlock, loopVars, fwd, chVars, agent>>

\* tryBeginUpdate under the write lock, which waits for every reader.
tryBeginUpdate ==
  /\ Up /\ upd = "lock" /\ rlock = {}
  /\ IF ~pending /\ (force \/ active = 0)
     THEN pending' = TRUE /\ upd' = "updating"
     ELSE upd' = "idle" /\ UNCHANGED pending
  /\ force' = FALSE
  /\ UNCHANGED <<setVars, rlock, loopVars, fwd, chVars, agent>>

\* Re-verification or OnUpdate failed.
cancelUpdate ==
  /\ Up /\ upd = "updating" /\ rlock = {}
  /\ pending' = FALSE /\ upd' = "idle"
  /\ UNCHANGED <<setVars, rlock, force, loopVars, fwd, chVars, agent>>

-----------------------------------------------------------------------------
FrameStep(s) ==
  \/ lockBridgeOpen(s) \/ DialFails(s) \/ putCount(s) \/ ReplySent(s) \/ ReplyFails(s)
  \/ DataWritten(s) \/ DataWriteFails(s)
  \/ SocketEnds(s) \/ closeAll(s) \/ closeAllCount(s) \/ closeAllClose(s)
  \/ \E b \in Bridge : put(s, b) \/ DataGet(s, b) \/ NetClose(s, b) \/ bindDatagrams(s, b)

ForwardStep(b) ==
  FwdRaw(b) \/ FwdRawWritten(b) \/ FwdRawFails(b) \/ FwdGone(b) \/ FwdReadFails(b)

ChannelStep(c) ==
  \/ \E b \in Bridge, m \in {"record", "raw"} : bind(c, b, m)
  \/ ChannelReadFails(c) \/ ChannelWriteFails(c) \/ ChannelEnds(c)

UpdaterStep ==
  (\E expired \in BOOLEAN : waitForIdleBridges(expired)) \/ tryBeginUpdate \/ cancelUpdate

Next ==
  \/ \E s \in Socket : FrameStep(s)
  \/ \E b \in Bridge : ForwardStep(b)
  \/ \E c \in Channel : ChannelStep(c)
  \/ UpdaterStep

(***************************************************************************)
(* Fairness: a goroutine that is not waiting for a peer keeps running, and *)
(* dialling ends (15 s for TCP, the RDP helper's own limit, at once for    *)
(* UDP).  Nothing else ends by itself: a write to a browser or to a target *)
(* has no deadline and may never return, unless its end is closed.  The    *)
(* update itself owes nothing either.                                      *)
(***************************************************************************)
Fairness ==
  /\ \A s \in Socket :
       /\ WF_vars(DialFails(s) \/ \E b \in Bridge : put(s, b))
       /\ WF_vars(putCount(s))
       /\ WF_vars(pc[s] = "write" /\ conn[cur[s]] = "closed" /\ DataWriteFails(s))
       /\ WF_vars(closeAll(s) \/ closeAllCount(s) \/ closeAllClose(s))
  /\ \A b \in Bridge :
       /\ WF_vars(conn[b] = "closed" /\ (FwdGone(b) \/ FwdReadFails(b)))
       /\ WF_vars(fwd[b] = "raw" /\ pc[home[b]] = "gone" /\ (FwdRawWritten(b) \/ FwdRawFails(b)))
  /\ \A c \in Channel : WF_vars(ChannelEnds(c))
  /\ WF_vars(tryBeginUpdate)

Spec == Init /\ [][Next]_vars /\ Fairness

-----------------------------------------------------------------------------
(* Properties *)

\* Frame loops between the two halves of put.
Counting == {s \in Socket : pc[s] = "count"}

\* The lock-free counter is exact up to the two windows the code leaves open:
\* a record inserted by put and not yet counted, and records swapped out by
\* closeAll and not yet subtracted (network_bridge.go:45-53, 102-113).
CounterExact ==
  active = Cardinality(items) + Cardinality(swapped) - Cardinality(Counting)

\* An update that was not forced by the deferral limit begins only when no
\* socket owns a bridge, whatever opens, closes and teardowns race with
\* tryBeginUpdate (agent.go:506-514).
UnforcedBeginIsIdle ==
  [][~pending /\ pending' /\ ~force => items = {} /\ swapped = {}]_vars

\* "Once it decides to replace itself, it rejects new bridge opens": from the
\* moment updatePending is set no bridge is added, not even by an open that
\* was already dialling (agent.go:493-514, network_bridge.go:126-153).
NoBridgeAddedWhileUpdating ==
  [][pending /\ pending' => items' \subseteq items]_vars

\* Every connection that is still open has an owner that will close it: its
\* record is in a bridge set, or closeAll of its socket is on its way.
OpenConnectionsOwned ==
  \A b \in Bridge : conn[b] = "open" =>
    b \in items \/ pc[home[b]] \in {"uncount", "close"}

\* A registered bridge never forwards to a channel whose handler has
\* finished, even when several channels bind the same bridge: the deferred
\* take of the last carrier removed it (network_bridge.go:277-284).
CarrierIsLive ==
  \A b \in items : carrier[b] # None => ch[carrier[b]] \in {"bound", "ending"}

\* No connection is left without somebody who closes it, and no bridge with a
\* carrier that nobody reads.
ConnectionsHeld == OpenConnectionsOwned /\ CarrierIsLive

\* A browser reads the answer to each open, sooner or later.
AnswersAreRead == \A s \in Socket : []<>(pc[s] # "reply")


\* When a socket has gone, every forwarder it started ends, so that no
\* goroutine is left reading for a browser that is not there.
ForwardersEnd ==
  \A s \in Socket :
    pc[s] = "gone" ~> (~Up \/ \A b \in Bridge : home[b] = s => fwd[b] \in {"none", "done"})

-----------------------------------------------------------------------------
(* The gate that this implements *)

Gate == INSTANCE UpdateGate WITH
  bridges <- items, updating <- pending, overdue <- (upd = "lock" /\ force)

\* Sockets, forwarders, channels and the updater together implement the gate.
ImplementsGate == Gate!Spec
=============================================================================
