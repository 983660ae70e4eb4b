------------------------------ MODULE IcePeer -------------------------------
(***************************************************************************)
(* One answerICESession (shellagent/ice.go): its peer, the candidates it   *)
(* trickles to Dyner, the data channels that the browser opens and the     *)
(* socket that serves them.  pion calls the callbacks on goroutines of its *)
(* own, so the control and the datagram channel come in either order.      *)
(*                                                                         *)
(* Lists of candidates only grow, so a list is its length; the trailing    *)
(* null is its last element.  connectionCtx is done when a step says so or *)
(* when the context of the attempt is cancelled.                           *)
(***************************************************************************)
EXTENDS Naturals

CONSTANTS
  MaxCandidates, \* local candidates, the null included
  QueueSize,     \* messages that webRTCChannelSocket.incoming holds
  MaxInbox    \* messages that the browser sends

ASSUME IcePeerAssumption == MaxCandidates \in Nat \ {0} /\ QueueSize \in Nat /\ MaxInbox \in Nat

VARIABLES
  main,      \* answerICESession itself
  ctxDone,   \* connectionCtx is done
  connected, \* the connected channel is closed
  peerOpen,  \* the peer connection is not closed
  trickle,   \* iceCandidateTrickler: gathered, posted, ended, posting;
             \* failed is history: a post failed
  drain,     \* the drain goroutine and its snapshot
  stored,    \* the list of candidates that Dyner holds
  poller,    \* the goroutine that pulls the browser's candidates
  watcher,   \* the goroutine that closes the peer
  control,   \* the control channel
  datagram,  \* the datagram channel and its OnOpen handler
  bound,     \* pendingDatagram, the socket's datagram, datagramReady
  serve,     \* the goroutine of serveControl
  socket     \* webRTCChannelSocket: queue, closed, and a blocked OnMessage

tricklerVars == <<trickle, drain, stored>>
channelVars == <<control, datagram, bound>>
peerVars == <<main, ctxDone, connected, peerOpen, tricklerVars, poller, watcher, channelVars, serve,
              socket>>

\* Types of all the variables of one peer.
IcePeerTypeOK ==
  /\ main \in {"none", "gather", "post", "returned"}
  /\ ctxDone \in BOOLEAN /\ connected \in BOOLEAN /\ peerOpen \in BOOLEAN
  /\ trickle \in [gathered : 0 .. MaxCandidates, posted : 0 .. MaxCandidates, ended : BOOLEAN,
                  posting : BOOLEAN, failed : BOOLEAN]
  /\ drain \in [pc : {"none", "look", "post"}, snapshot : 0 .. MaxCandidates]
  /\ stored \in 0 .. MaxCandidates
  /\ poller \in {"none", "poll", "ended"} /\ watcher \in {"none", "watch", "ended"}
  /\ control \in {"none", "arrived", "open"}
  /\ datagram \in {"none", "arrived", "attach", "ready", "bound"}
  /\ bound \in [pending : BOOLEAN, attached : BOOLEAN, ready : BOOLEAN]
  /\ serve \in [pc : {"none", "wait", "read", "ended"}, datagrams : BOOLEAN]
  /\ socket \in [queue : 0 .. QueueSize, blocked : BOOLEAN, closed : BOOLEAN, sent : 0 .. MaxInbox]

IcePeerInit ==
  /\ main = "none" /\ ctxDone = FALSE /\ connected = FALSE /\ peerOpen = FALSE
  /\ trickle = [gathered |-> 0, posted |-> 0, ended |-> FALSE, posting |-> FALSE, failed |-> FALSE]
  /\ drain = [pc |-> "none", snapshot |-> 0] /\ stored = 0
  /\ poller = "none" /\ watcher = "none"
  /\ control = "none" /\ datagram = "none"
  /\ bound = [pending |-> FALSE, attached |-> FALSE, ready |-> FALSE]
  /\ serve = [pc |-> "none", datagrams |-> FALSE]
  /\ socket = [queue |-> 0, blocked |-> FALSE, closed |-> FALSE, sent |-> 0]

-----------------------------------------------------------------------------
(* iceCandidateTrickler *)

NotTrickle == UNCHANGED <<main, ctxDone, connected, peerOpen, poller, watcher, channelVars, serve, socket>>

\* A candidate or, with last, the end of gathering.
Add(last) ==
  /\ peerOpen /\ ~trickle.ended
  /\ trickle.gathered < IF last THEN MaxCandidates ELSE MaxCandidates - 1
  /\ trickle' = [trickle EXCEPT !.gathered = @ + 1, !.ended = last, !.posting = TRUE]
  /\ drain' = IF trickle.posting THEN drain ELSE [drain EXCEPT !.pc = "look"]
  /\ NotTrickle /\ UNCHANGED stored

\* Mutant: the list is found complete before the lock is taken again.
LookForgetful ==
  /\ drain.pc = "look" /\ drain' = [pc |-> "none", snapshot |-> 0]
  /\ trickle.posted > 0 /\ trickle' = [trickle EXCEPT !.posting = FALSE]
  /\ NotTrickle /\ UNCHANGED stored

\* Nothing new: the goroutine ends.
DrainEnds ==
  /\ drain.pc = "look" /\ trickle.posted >= trickle.gathered
  /\ trickle' = [trickle EXCEPT !.posting = FALSE] /\ drain' = [pc |-> "none", snapshot |-> 0]
  /\ NotTrickle /\ UNCHANGED stored

\* Mutant: only the new candidates are posted.
SnapshotNew ==
  /\ drain.pc = "look" /\ trickle.posted < trickle.gathered
  /\ drain' = [pc |-> "post", snapshot |-> trickle.gathered - trickle.posted]
  /\ NotTrickle /\ UNCHANGED <<trickle, stored>>

DrainSnapshot ==
  /\ drain.pc = "look" /\ trickle.posted < trickle.gathered
  /\ drain' = [pc |-> "post", snapshot |-> trickle.gathered]
  /\ NotTrickle /\ UNCHANGED <<trickle, stored>>

DrainPosts ==
  /\ drain.pc = "post" /\ ~ctxDone
  /\ stored' = drain.snapshot
  /\ trickle' = [trickle EXCEPT !.posted = drain.snapshot] /\ drain' = [drain EXCEPT !.pc = "look"]
  /\ NotTrickle

\* The request fails or connectionCtx is done; Dyner may have stored the list.
\* answerICESession leaves onFailure nil, so that the error is dropped, and
\* candidates that are gathered from now on are dropped by add.
DrainFails ==
  /\ drain.pc = "post" /\ stored' \in {stored, drain.snapshot}
  /\ trickle' = [trickle EXCEPT !.posting = FALSE, !.ended = TRUE, !.failed = TRUE]
  /\ drain' = [pc |-> "none", snapshot |-> 0]
  /\ NotTrickle

-----------------------------------------------------------------------------
(* answerICESession and the goroutines it leaves *)

NotMain == UNCHANGED <<tricklerVars, channelVars, serve>>
\* pion reports a closed peer as a state change, which cancels.
ClosePeer == peerOpen' = FALSE /\ ctxDone' = TRUE

\* The goroutine of the attempt starts and makes the peer and its context.
AnswerSession ==
  /\ main = "none" /\ main' = "gather" /\ peerOpen' = TRUE
  /\ NotMain /\ UNCHANGED <<ctxDone, connected, poller, watcher, socket>>

Gather == \* gathering completes, or iceAnswerGatherWait
  /\ main = "gather" /\ main' = "post"
  /\ NotMain /\ UNCHANGED <<ctxDone, connected, peerOpen, poller, watcher, socket>>

PostSucceeds ==
  /\ main = "post" /\ main' = "returned" /\ poller' = "poll" /\ watcher' = "watch"
  /\ NotMain /\ UNCHANGED <<ctxDone, connected, peerOpen, socket>>

\* A description is refused, the parent context is done, Dyner refuses.
AnswerFails ==
  /\ main \in {"gather", "post"} /\ main' = "returned" /\ ClosePeer
  /\ NotMain /\ UNCHANGED <<connected, poller, watcher, socket>>

\* The browser's list had its null, or the peer connected, or the end.
PollEnds ==
  /\ poller = "poll" /\ poller' = "ended"
  /\ NotMain /\ UNCHANGED <<main, ctxDone, connected, peerOpen, watcher, socket>>

ConnectPeer ==
  /\ main \in {"post", "returned"} /\ peerOpen /\ ~connected /\ connected' = TRUE
  /\ NotMain /\ UNCHANGED <<main, ctxDone, peerOpen, poller, watcher, socket>>

\* OnConnectionStateChange(Failed), stopICE or a registration change.
CancelContext ==
  /\ main # "none" /\ ~ctxDone /\ ctxDone' = TRUE
  /\ NotMain /\ UNCHANGED <<main, connected, peerOpen, poller, watcher, socket>>

\* Mutant: once connected the watcher is content.
WatchConnecting ==
  /\ watcher = "watch" /\ watcher' = "ended"
  /\ IF connected THEN UNCHANGED <<peerOpen, ctxDone>> ELSE ClosePeer
  /\ NotMain /\ UNCHANGED <<main, connected, poller, socket>>

\* iceConnectWait without a connection, or connectionCtx is done.
WatchCloses ==
  /\ watcher = "watch" /\ (~connected \/ ctxDone) /\ watcher' = "ended" /\ ClosePeer
  /\ NotMain /\ UNCHANGED <<main, connected, poller, socket>>

-----------------------------------------------------------------------------
(* OnDataChannel and serveControl *)

NotChannel == UNCHANGED <<main, ctxDone, connected, peerOpen, tricklerVars, poller, watcher, socket>>

\* Under controlMu: a datagram channel that was first is attached.
ControlArrives ==
  /\ connected /\ peerOpen /\ control = "none" /\ control' = "arrived"
  /\ bound' = [bound EXCEPT !.attached = @ \/ bound.pending]
  /\ NotChannel /\ UNCHANGED <<datagram, serve>>

ControlOpens ==
  /\ control = "arrived" /\ control' = "open" /\ serve' = [serve EXCEPT !.pc = "wait"]
  /\ NotChannel /\ UNCHANGED <<datagram, bound>>

DatagramArrives ==
  /\ connected /\ peerOpen /\ datagram = "none" /\ datagram' = "arrived"
  /\ NotChannel /\ UNCHANGED <<control, bound, serve>>

\* Mutant: a channel that comes before the control channel is not kept.
DatagramForgotten ==
  /\ datagram = "arrived" /\ datagram' = IF control = "none" THEN "ready" ELSE "attach"
  /\ NotChannel /\ UNCHANGED <<control, bound, serve>>

\* Its OnOpen, under controlMu: the socket is there or the channel waits.
DatagramOpens ==
  /\ datagram = "arrived"
  /\ IF control = "none" THEN datagram' = "ready" /\ bound' = [bound EXCEPT !.pending = TRUE]
                         ELSE datagram' = "attach" /\ bound' = bound
  /\ NotChannel /\ UNCHANGED <<control, serve>>

SetDatagram ==
  /\ datagram = "attach" /\ datagram' = "ready" /\ bound' = [bound EXCEPT !.attached = TRUE]
  /\ NotChannel /\ UNCHANGED <<control, serve>>

DatagramReady ==
  /\ datagram = "ready" /\ datagram' = "bound" /\ bound' = [bound EXCEPT !.ready = TRUE]
  /\ NotChannel /\ UNCHANGED <<control, serve>>

\* datagramReady, or two seconds without it.
ServeStarts ==
  /\ serve.pc = "wait" /\ serve' = [pc |-> "read", datagrams |-> bound.ready]
  /\ NotChannel /\ UNCHANGED channelVars

ServeTimeout ==
  /\ serve.pc = "wait" /\ serve' = [pc |-> "read", datagrams |-> FALSE]
  /\ NotChannel /\ UNCHANGED channelVars

ServeCancelled ==
  /\ serve.pc = "wait" /\ ctxDone /\ serve' = [serve EXCEPT !.pc = "ended"]
  /\ NotChannel /\ UNCHANGED channelVars

-----------------------------------------------------------------------------
(* webRTCChannelSocket of the control channel *)

NotSocket == UNCHANGED <<main, connected, tricklerVars, poller, watcher, channelVars>>
Full == socket.queue = QueueSize

\* OnMessage: it waits while the queue is full; pion delivers one at a time.
Receive ==
  /\ control # "none" /\ peerOpen /\ ~socket.blocked /\ socket.sent < MaxInbox
  /\ socket' = [socket EXCEPT !.sent = @ + 1, !.blocked = Full, !.queue = IF Full THEN @ ELSE @ + 1]
  /\ NotSocket /\ UNCHANGED <<ctxDone, peerOpen, serve>>

\* Mutant: only room in the queue releases the callback.
ReleaseByRoom ==
  /\ socket.blocked /\ ~Full
  /\ socket' = [socket EXCEPT !.blocked = FALSE, !.queue = @ + 1]
  /\ NotSocket /\ UNCHANGED <<ctxDone, peerOpen, serve>>

\* There is room, or the socket is closed and the message is dropped.
ReceiveReleased ==
  /\ socket.blocked
  /\ \/ ~Full /\ socket' = [socket EXCEPT !.blocked = FALSE, !.queue = @ + 1]
     \/ socket.closed /\ socket' = [socket EXCEPT !.blocked = FALSE]
  /\ NotSocket /\ UNCHANGED <<ctxDone, peerOpen, serve>>

ServeReads ==
  /\ serve.pc = "read" /\ socket.queue > 0 /\ socket' = [socket EXCEPT !.queue = @ - 1]
  /\ NotSocket /\ UNCHANGED <<ctxDone, peerOpen, serve>>

\* Read: closed or ctx.Done.  The handler returns; nothing closes the socket.
ServeEnds ==
  /\ serve.pc = "read" /\ (socket.closed \/ ctxDone) /\ serve' = [serve EXCEPT !.pc = "ended"]
  /\ NotSocket /\ UNCHANGED <<ctxDone, peerOpen, socket>>

\* serveAuthenticatedSocket closes it: no grant, or the pairing was revoked.
ServeCloses ==
  /\ serve.pc = "read" /\ serve' = [serve EXCEPT !.pc = "ended"]
  /\ socket' = [socket EXCEPT !.closed = TRUE] /\ ClosePeer
  /\ NotSocket

\* OnClose: the browser closes the channel, or the peer is closed.
ChannelCloses ==
  /\ control # "none" /\ ~socket.closed /\ socket' = [socket EXCEPT !.closed = TRUE] /\ ClosePeer
  /\ NotSocket /\ UNCHANGED serve

-----------------------------------------------------------------------------

Drain == DrainEnds \/ DrainSnapshot \/ DrainPosts \/ DrainFails
PeerAnswers == Gather \/ PostSucceeds \/ AnswerFails
Serve == ServeStarts \/ ServeTimeout \/ ServeCancelled
ServeLoop == ServeReads \/ ServeEnds \/ ServeCloses
Binding == ControlOpens \/ DatagramOpens \/ SetDatagram \/ DatagramReady

IcePeerNext ==
  \/ (\E last \in BOOLEAN : Add(last)) \/ Drain
  \/ AnswerSession \/ PeerAnswers \/ PollEnds \/ ConnectPeer \/ CancelContext \/ WatchCloses
  \/ ControlArrives \/ DatagramArrives \/ Binding \/ Serve
  \/ Receive \/ ReceiveReleased \/ ServeLoop \/ ChannelCloses

\* The goroutines of the attempt run and its timers fire, and the closing of a
\* peer closes its channels; Dyner, the browser and the network owe nothing.
IcePeerFairness ==
  /\ WF_peerVars(Drain) /\ WF_peerVars(PeerAnswers) /\ WF_peerVars(PollEnds)
  /\ WF_peerVars(WatchCloses) /\ WF_peerVars(Binding) /\ WF_peerVars(Serve)
  /\ WF_peerVars(ReceiveReleased) /\ WF_peerVars(ServeLoop) /\ WF_peerVars(ServeEnds)
  /\ WF_peerVars(~peerOpen /\ ChannelCloses)

IcePeerSpec == IcePeerInit /\ [][IcePeerNext]_peerVars /\ IcePeerFairness

-----------------------------------------------------------------------------
(* Properties *)

\* When no candidates are being posted, Dyner holds all that were gathered,
\* unless a post failed: a candidate that add appends while drain is about to
\* end starts a drain of its own (iceCandidateTrickler).  A failure is reported
\* to nobody and never made good: it ends the trickling for this peer.
TrickleComplete ==
  /\ ~trickle.posting => trickle.failed \/ stored = trickle.gathered
  /\ trickle.failed => trickle.ended /\ ~trickle.posting

\* Only one drain runs, so Dyner's list, which each post replaces by a longer
\* one, never becomes shorter ("Dyner stores an append-only list", ice.go:47).
CandidatesAppendOnly == stored' >= stored

\* A browser is told that datagrams are available only when its datagram
\* channel has been given to the socket, in whichever order the two channels
\* arrived and opened (answerICESession, OnDataChannel).
DatagramsAttached == serve.pc = "read" /\ serve.datagrams => bound.attached

\* Dyner and the browser are told the truth: all candidates that were
\* gathered until a post fails, and datagrams only with a channel for them.
IcePeerSafe == IcePeerTypeOK /\ TrickleComplete /\ DatagramsAttached

\* An attempt whose context is done leaves nothing behind: the peer closes and
\* the goroutines that answered, posted, pulled and served end, also when the
\* context was done before any of them was started.
PeerEnds ==
  []<>(ctxDone => /\ ~peerOpen /\ main = "returned" /\ drain.pc = "none"
                  /\ poller \in {"none", "ended"} /\ watcher \in {"none", "ended"}
                  /\ serve.pc \in {"none", "ended"})

\* A callback that waits for room in the queue returns, served or not: pion's
\* reader is not stuck for ever behind a socket that nobody reads.
CallbackReturns == []<>(~socket.blocked)
=============================================================================
