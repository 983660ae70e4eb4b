---------------------------- MODULE Presentation ----------------------------
(***************************************************************************)
(* The helper process that shows an app's tray icon and owns its global    *)
(* shortcuts (shellagent/presentation.go, desktop/helper.go,               *)
(* desktop/presentation_model.go).  One app socket is modelled: its frame  *)
(* loop launches the helper with the first request, waits for it to        *)
(* connect, and then makes one call at a time; a goroutine reads the       *)
(* helper's replies and events.  Shutdown closes every registered bridge.  *)
(***************************************************************************)
EXTENDS Naturals, Sequences, FiniteSets, Functions

CONSTANTS
  Accel,         \* spellings of shortcuts
  Key,           \* what parsePresentationKey makes of them
  KeyOf,         \* the key of each spelling
  MaxShortcuts,  \* 64
  MaxID,         \* 0xbfff
  MaxRequests,   \* requests of the app in all
  MaxPressed     \* the capacity of macPresentationEvents

ASSUME PresentationAssumption ==
  /\ KeyOf \in [Accel -> Key]
  /\ {MaxShortcuts, MaxID, MaxRequests, MaxPressed} \subseteq Nat

VARIABLES
  frameLoop,   \* the frame loop of the socket
  request,   \* the request it works on
  bridge,    \* the socket has a presentationBridge
  closed,    \* its close ran: the connection is closed, the kill is scheduled
  registered,    \* it is in s.presentations
  stopping,  \* s.presentationClosed
  contextDone, \* the socket's context is done
  reader,    \* the goroutine that reads from the helper
  replies,   \* b.replies, of capacity 1
  helper,    \* the process: "none", "dial", "run" or "gone"
  inbox,     \* commands on their way to the helper
  outbox,    \* replies and events on their way to the agent
  shortcuts, keys, nextID,  \* presentationController
  tray,      \* presentationController.tray is set
  native,    \* what is registered with the desktop
  pressed    \* hot keys that the desktop reported

agentSide == <<frameLoop, request, bridge, closed, registered, stopping, contextDone, reader, replies>>
controller == <<shortcuts, keys, nextID, tray, native>>
presentVars == <<agentSide, helper, inbox, outbox, controller, pressed>>

Commands ==
  [id : 1 .. MaxRequests, method : {"register", "unregister"}, accel : Accel]
    \cup [id : 1 .. MaxRequests, method : {"unregisterAll", "setTray", "destroyTray"}]
NoFunction == [x \in {} |-> 0]

\* A reply carries the id of its command; an event has the id 0.
Outgoing ==
  [id : 1 .. MaxRequests] \cup [id : {0}, accel : Accel, key : Key]

\* Types of the bridge, the helper and its controller, and the two limits:
\* one reply waits and an app has at most MaxShortcuts shortcuts.
PresentationTypeOK ==
  /\ frameLoop \in {"read", "launch", "accept", "write", "call", "done"}
  /\ request \in Commands \cup {NoFunction}
  /\ {bridge, closed, registered, stopping, contextDone, tray} \subseteq BOOLEAN
  /\ reader \in {"none", "scan", "ended", "gone"}
  /\ replies \in Seq(1 .. MaxRequests) /\ Len(replies) <= 1
  /\ helper \in {"none", "dial", "run", "gone"}
  /\ inbox \in Seq(Commands) /\ outbox \in Seq(Outgoing)
  /\ DOMAIN shortcuts \subseteq Accel /\ Range(shortcuts) \subseteq 1 .. MaxID
  /\ Cardinality(DOMAIN shortcuts) <= MaxShortcuts
  /\ DOMAIN keys \subseteq Key /\ Range(keys) \subseteq Accel
  /\ nextID \in 0 .. MaxRequests
  /\ DOMAIN native \subseteq 1 .. MaxID /\ Range(native) \subseteq Key
  /\ Len(pressed) <= MaxPressed

PresentationInit ==
  /\ frameLoop = "read" /\ request = NoFunction /\ reader = "none" /\ helper = "none"
  /\ bridge = FALSE /\ closed = FALSE /\ registered = FALSE /\ stopping = FALSE
  /\ contextDone = FALSE /\ tray = FALSE
  /\ replies = <<>> /\ inbox = <<>> /\ outbox = <<>> /\ pressed = <<>>
  /\ shortcuts = NoFunction /\ keys = NoFunction /\ native = NoFunction /\ nextID = 0

-----------------------------------------------------------------------------
(* The frame loop *)

Requests == IF request = NoFunction THEN 0 ELSE request.id

\* A tray, globalShortcut, screen or dropTarget request.
Ask ==
  /\ frameLoop = "read" /\ Requests < MaxRequests
  /\ request' \in {c \in Commands : c.id = Requests + 1}
  /\ frameLoop' = IF bridge THEN "write" ELSE "launch"
  /\ UNCHANGED <<bridge, closed, registered, stopping, contextDone, reader, replies,
                 helper, inbox, outbox, controller, pressed>>

\* connectPresentation up to Accept: listen and launch, which may fail.  A
\* helper that was refused is killed first, within a second in the code.
Launch ==
  /\ frameLoop = "launch" /\ helper \in {"none", "gone"} /\ closed' = FALSE
  /\ \/ frameLoop' = "accept" /\ helper' = "dial"
     \/ frameLoop' = "read" /\ helper' = helper
  /\ UNCHANGED <<request, bridge, registered, stopping, contextDone, reader, replies,
                 inbox, outbox, controller, pressed>>

\* Mutant: presentationClosed is not looked at.
AcceptAnyway ==
  /\ frameLoop = "accept" /\ helper = "run"
  /\ frameLoop' = "write" /\ bridge' = TRUE /\ registered' = TRUE /\ reader' = "scan" /\ closed' = FALSE
  /\ UNCHANGED <<request, stopping, contextDone, replies, helper, inbox, outbox, controller,
                 pressed>>

\* The helper presents the token, and the bridge is registered unless the
\* agent is shutting down.
Accept ==
  /\ frameLoop = "accept" /\ helper = "run"
  /\ IF stopping
       THEN /\ frameLoop' = "read" /\ closed' = TRUE
            /\ UNCHANGED <<bridge, registered, reader>>
       ELSE /\ frameLoop' = "write" /\ bridge' = TRUE /\ registered' = TRUE /\ reader' = "scan"
            /\ closed' = FALSE
  /\ UNCHANGED <<request, stopping, contextDone, replies, helper, inbox, outbox, controller,
                 pressed>>

\* Mutant: the listener has no deadline.
AcceptNoDeadline ==
  /\ frameLoop = "accept" /\ contextDone
  /\ frameLoop' = "read" /\ helper' = "gone"
  /\ UNCHANGED <<request, bridge, closed, registered, stopping, contextDone, reader, replies,
                 inbox, outbox, controller, pressed>>

\* Ten seconds pass, or the context closes the listener: the helper is stopped.
AcceptFails ==
  /\ frameLoop = "accept"
  /\ frameLoop' = "read" /\ helper' = "gone"
  /\ UNCHANGED <<request, bridge, closed, registered, stopping, contextDone, reader, replies,
                 inbox, outbox, controller, pressed>>

\* The write of call; it fails on a closed connection.
WriteCommand ==
  /\ frameLoop = "write"
  /\ \/ ~closed /\ frameLoop' = "call" /\ inbox' = Append(inbox, request) /\ closed' = closed
     \/ frameLoop' = "read" /\ inbox' = inbox /\ closed' = TRUE
  /\ UNCHANGED <<request, bridge, registered, stopping, contextDone, reader, replies, helper,
                 outbox, controller, pressed>>

Return == frameLoop = "call" /\ frameLoop' = "read"

CallReply ==
  /\ Return /\ replies # <<>> /\ replies' = Tail(replies)
  /\ closed' = (closed \/ Head(replies) # request.id)
  /\ UNCHANGED <<request, bridge, registered, stopping, contextDone, reader, helper, inbox,
                 outbox, controller, pressed>>

CallDone ==
  /\ Return /\ reader \in {"ended", "gone"}
  /\ UNCHANGED <<request, bridge, closed, registered, stopping, contextDone, reader, replies,
                 helper, inbox, outbox, controller, pressed>>

\* Mutant: a call that times out keeps the connection.
TimeoutKeeping ==
  /\ Return
  /\ UNCHANGED <<request, bridge, closed, registered, stopping, contextDone, reader, replies,
                 helper, inbox, outbox, controller, pressed>>

\* The call's timer or the context ends the wait and closes the bridge.
CallTimeout ==
  /\ Return /\ closed' = TRUE
  /\ UNCHANGED <<request, bridge, registered, stopping, contextDone, reader, replies,
                 helper, inbox, outbox, controller, pressed>>

\* The client leaves or is revoked; the deferred close of the loop.
SocketEnds ==
  /\ frameLoop = "read" /\ frameLoop' = "done" /\ closed' = (closed \/ bridge)
  /\ UNCHANGED <<request, bridge, registered, stopping, contextDone, reader, replies, helper,
                 inbox, outbox, controller, pressed>>

Cancel ==
  /\ ~contextDone /\ contextDone' = TRUE
  /\ UNCHANGED <<frameLoop, request, bridge, closed, registered, stopping, reader, replies, helper,
                 inbox, outbox, controller, pressed>>

\* closePresentations
ClosePresentations ==
  /\ ~stopping /\ stopping' = TRUE
  /\ closed' = (closed \/ registered)
  /\ UNCHANGED <<frameLoop, request, bridge, registered, contextDone, reader, replies, helper,
                 inbox, outbox, controller, pressed>>

-----------------------------------------------------------------------------
(* The reading goroutine *)

\* An event is sent on; a reply waits for room or for the end of the context.
ReaderTakes ==
  /\ reader = "scan" /\ outbox # <<>> /\ outbox' = Tail(outbox)
  /\ \/ Head(outbox).id = 0 /\ UNCHANGED <<replies, reader, closed>>
     \/ /\ Head(outbox).id # 0 /\ replies = <<>>
        /\ replies' = <<Head(outbox).id>> /\ UNCHANGED <<reader, closed>>
     \/ /\ Head(outbox).id # 0 /\ contextDone
        /\ reader' = "ended" /\ closed' = TRUE /\ UNCHANGED replies
  /\ UNCHANGED <<frameLoop, request, bridge, registered, stopping, contextDone, helper, inbox,
                 controller, pressed>>

\* The connection ends, or a line is not JSON: close, then done.
ReaderEnds ==
  /\ reader = "scan" /\ (closed \/ helper = "gone")
  /\ reader' = "ended" /\ closed' = TRUE
  /\ UNCHANGED <<frameLoop, request, bridge, registered, stopping, contextDone, replies, helper, inbox,
                 outbox, controller, pressed>>

ReaderDeletes ==
  /\ reader = "ended" /\ reader' = "gone" /\ registered' = FALSE
  /\ UNCHANGED <<frameLoop, request, bridge, closed, stopping, contextDone, replies, helper, inbox,
                 outbox, controller, pressed>>

-----------------------------------------------------------------------------
(* The helper *)

HelperDials ==
  /\ helper = "dial" /\ helper' \in {"run", "gone"}
  /\ UNCHANGED <<agentSide, inbox, outbox, controller, pressed>>

\* The scheduled kill, the end of the commands, or a crash: the desktop
\* drops what the process registered.
Gone ==
  /\ helper' = "gone"
  /\ native' = NoFunction /\ shortcuts' = NoFunction /\ keys' = NoFunction /\ tray' = FALSE
  /\ inbox' = <<>> /\ pressed' = <<>> /\ nextID' = 0
  /\ UNCHANGED <<agentSide, outbox>>

Killed == helper = "run" /\ closed /\ Gone
Crashes == helper = "run" /\ Gone

\* A function without the arguments in S, and one with another value.
Without(f, S) == Restrict(f, DOMAIN f \ S)
Mapped(f, x, v) == [y \in DOMAIN f \cup {x} |-> IF y = x THEN v ELSE f[y]]

\* Mutant: the limit on shortcuts is not looked at.
RegisterMore(a) ==
  LET key == KeyOf[a] IN
  /\ key \notin DOMAIN keys /\ nextID < MaxID
  /\ nextID' = nextID + 1 /\ tray' = tray
  /\ shortcuts' = Mapped(shortcuts, a, nextID + 1) /\ keys' = Mapped(keys, key, a)
  /\ native' = Mapped(native, nextID + 1, key)

\* Mutant: an id is free once its shortcut is unregistered.
RegisterReusing(a) ==
  LET key == KeyOf[a]
      id == Cardinality(DOMAIN shortcuts) + 1 IN
  /\ key \notin DOMAIN keys /\ id <= MaxShortcuts
  /\ nextID' = nextID /\ tray' = tray
  /\ shortcuts' = Mapped(shortcuts, a, id) /\ keys' = Mapped(keys, key, a)
  /\ native' = Mapped(native, id, key)

Register(a) ==
  LET key == KeyOf[a] IN
  IF key \in DOMAIN keys \/ Cardinality(DOMAIN shortcuts) >= MaxShortcuts
    THEN UNCHANGED controller
    ELSE /\ nextID' = nextID + 1
         /\ tray' = tray
         /\ \/ /\ nextID + 1 <= MaxID
               /\ shortcuts' = Mapped(shortcuts, a, nextID + 1)
               /\ keys' = Mapped(keys, key, a)
               /\ native' = Mapped(native, nextID + 1, key)
            \/ UNCHANGED <<shortcuts, keys, native>>

\* Mutant: the spelling of the request is deleted, not the registered one.
UnregisterSpelling(a) ==
  LET key == KeyOf[a] IN
  /\ key \in DOMAIN keys
  /\ native' = Without(native, {shortcuts[keys[key]]})
  /\ shortcuts' = Without(shortcuts, {a}) /\ keys' = Without(keys, {key})
  /\ UNCHANGED <<nextID, tray>>

\* The key finds the spelling that it was registered with.
Unregister(a) ==
  LET key == KeyOf[a] IN
  IF key \notin DOMAIN keys THEN UNCHANGED controller
  ELSE /\ native' = Without(native, {shortcuts[keys[key]]})
       /\ shortcuts' = Without(shortcuts, {keys[key]})
       /\ keys' = Without(keys, {key})
       /\ UNCHANGED <<nextID, tray>>

UnregisterAll ==
  /\ native' = Without(native, Range(shortcuts))
  /\ shortcuts' = NoFunction /\ keys' = NoFunction
  /\ UNCHANGED <<nextID, tray>>

\* create, setToolTip, setTitle and setMenu: only create makes a tray.
SetTray ==
  /\ tray' \in {tray, TRUE}
  /\ UNCHANGED <<shortcuts, keys, nextID, native>>

DestroyTray == tray' = FALSE /\ UNCHANGED <<shortcuts, keys, nextID, native>>

\* presentationController.handle and the reply, which is lost when the
\* connection is closed.
Handle ==
  /\ helper = "run" /\ inbox # <<>> /\ inbox' = Tail(inbox)
  /\ LET c == Head(inbox) IN
     /\ CASE c.method = "register" -> Register(c.accel)
          [] c.method = "unregister" -> Unregister(c.accel)
          [] c.method = "unregisterAll" -> UnregisterAll
          [] c.method = "setTray" -> SetTray
          [] c.method = "destroyTray" -> DestroyTray
     /\ outbox' = IF closed THEN outbox ELSE Append(outbox, [id |-> c.id])
  /\ UNCHANGED <<agentSide, helper, pressed>>

\* The desktop reports a registered key; a full channel drops it.  The bound
\* also keeps the events in flight finite.
Press ==
  /\ helper = "run" /\ Len(pressed) < MaxPressed /\ Len(outbox) < MaxPressed
  /\ \E id \in DOMAIN native : pressed' = Append(pressed, [id |-> id, key |-> native[id]])
  /\ UNCHANGED <<agentSide, helper, inbox, outbox, controller>>

\* The controller's loop takes a report: hotkey finds the spelling of the id.
Hotkey ==
  /\ helper = "run" /\ pressed # <<>> /\ pressed' = Tail(pressed)
  /\ LET p == Head(pressed)
         named == {a \in DOMAIN shortcuts : shortcuts[a] = p.id} IN
     IF closed \/ named = {} THEN outbox' = outbox
     ELSE \E a \in named : outbox' = Append(outbox, [id |-> 0, accel |-> a, key |-> p.key])
  /\ UNCHANGED <<agentSide, helper, inbox, controller>>

PresentationNext ==
  \/ Ask \/ Launch \/ Accept \/ AcceptFails \/ WriteCommand
  \/ CallReply \/ CallDone \/ CallTimeout \/ SocketEnds \/ Cancel \/ ClosePresentations
  \/ ReaderTakes \/ ReaderEnds \/ ReaderDeletes
  \/ HelperDials \/ Killed \/ Crashes \/ Handle \/ Press \/ Hotkey

\* The frame loop, the reader and the timers run and a helper that is told to
\* stop ends; the helper and the desktop owe no answer.
PresentationFairness ==
  /\ WF_presentVars(Launch) /\ WF_presentVars(AcceptFails) /\ WF_presentVars(WriteCommand)
  /\ WF_presentVars(CallTimeout) /\ WF_presentVars(Killed) /\ WF_presentVars(ReaderEnds)

PresentationSpec == PresentationInit /\ [][PresentationNext]_presentVars /\ PresentationFairness

-----------------------------------------------------------------------------
(* Properties *)

\* The reply that a call waits for is its own: an earlier call that gave up
\* closed the connection, so no late reply is taken for the next one.
OwnReply == frameLoop = "call" /\ replies # <<>> => Head(replies) = request.id

\* The desktop holds exactly the shortcuts of the controller, under the ids
\* it gave them, and each key leads back to the spelling that registered it.
NativeMirrors ==
  /\ {KeyOf[a] : a \in DOMAIN shortcuts} = DOMAIN keys
  /\ \A k \in DOMAIN keys : keys[k] \in DOMAIN shortcuts /\ KeyOf[keys[k]] = k
  /\ DOMAIN native = Range(shortcuts)
  /\ \A a \in DOMAIN shortcuts : native[shortcuts[a]] = KeyOf[a]

\* A key press that was reported before its shortcut was unregistered is never
\* delivered under a shortcut that was registered later with another key.
EventsNameKey ==
  \A n \in DOMAIN outbox : outbox[n].id = 0 => KeyOf[outbox[n].accel] = outbox[n].key

\* Replies, shortcuts and key presses are never taken for others: not a late
\* reply, not another spelling, not an id of before (presentationBridge.call,
\* presentationController).
PresentationSafe == PresentationTypeOK /\ OwnReply /\ NativeMirrors /\ EventsNameKey

\* A helper that connects does not outlive its bridge or the agent's shutdown.
HelperReleased == []<>(~(helper = "run" /\ (closed \/ stopping)))

\* The frame loop never waits for the helper without end.
RequestReturns == []<>(frameLoop \in {"read", "done"})
=============================================================================
