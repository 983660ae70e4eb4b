--------------------------- MODULE BridgesProofs ---------------------------
(***************************************************************************)
(* Proofs about Bridges for any number of sockets, bridges and channels.   *)
(***************************************************************************)
EXTENDS Bridges, FiniteSetTheorems, TLAPS

\* A record leaves the map before its count is subtracted, so no bridge is
\* counted twice.
Apart == items \cap swapped = {}

\* Bridge ids are handed out once: put never reuses one that is registered.
Fresh == \A b \in items \cup swapped : conn[b] # "unused"

\* A frame loop holds updateMu exactly while it opens a bridge.
LockHeld == \A s \in Socket : pc[s] \in InOpen <=> s \in rlock

\* Nobody is opening a bridge once an update has begun.
Exclusive == pending => rlock = {}

Phase == pending <=> upd = "updating"

\* The inductive invariant: CounterExact alone is not inductive, because put
\* and closeAll keep it only for fresh and disjoint sets of records.
IInv == Types /\ Apart /\ Fresh /\ LockHeld /\ Exclusive /\ Phase /\ CounterExact

\* An agent that has just started satisfies the inductive invariant.
LEMMA InitIInv == Init => IInv
  <1> SUFFICES ASSUME Init PROVE IInv
    OBVIOUS
  <1>1. Counting = {}
    BY DEF Init, Counting
  <1>2. CounterExact
    BY <1>1, FS_EmptySet DEF Init, CounterExact
  <1>3. Types
    <2>1. pending \in BOOLEAN /\ force \in BOOLEAN
      BY Zenon DEF Init
    <2> QED
      BY <2>1 DEF Init, Types, InOpen
  <1> QED
    BY <1>2, <1>3 DEF Init, IInv, Apart, Fresh, LockHeld, Exclusive, Phase, InOpen

\* Every step of the frame loops, forwarders, channels and updater keeps the
\* values of the variables in their sets.
LEMMA StepTypes == Types /\ [Next]_vars => Types'
  <1> SUFFICES ASSUME Types, [Next]_vars PROVE Types'
    OBVIOUS
  <1> USE DEF Types, InOpen
  <1>1. ASSUME NEW s \in Socket, FrameStep(s) PROVE Types'
    <2>1. CASE lockBridgeOpen(s) \/ DialFails(s) \/ ReplySent(s)
      BY <2>1 DEF lockBridgeOpen, DialFails, ReplySent, Goto, Return, setVars, chVars
    <2>2. CASE putCount(s) \/ SocketEnds(s) \/ closeAll(s)
      BY <2>2 DEF putCount, SocketEnds, closeAll, Goto, Of, setVars, gateVars, chVars
    <2>3. CASE ReplyFails(s)
      BY <2>3 DEF ReplyFails, TakeAndClose, NilTakePanics, take, Goto, Return, chVars
    <2>4. CASE DataWriteFails(s)
      BY <2>4 DEF DataWriteFails, TakeAndClose, NilTakePanics, take, Goto, Return, gateVars, chVars
    <2>7. CASE DataWritten(s)
      BY <2>7 DEF DataWritten, Goto, Return, setVars, gateVars, chVars
    <2>5. CASE closeAllCount(s) \/ closeAllClose(s)
      <3>1. IsFiniteSet(Of(s, swapped))
        BY BridgeFinite, FS_Subset DEF Of
      <3>2. Cardinality(Of(s, swapped)) \in Int
        BY <3>1, FS_CardinalityType
      <3> QED
        BY <2>5, <3>2 DEF closeAllCount, closeAllClose, Goto, Of, gateVars, chVars
    <2>6. ASSUME NEW b \in Bridge, put(s, b) \/ DataGet(s, b) \/ NetClose(s, b) \/ bindDatagrams(s, b)
          PROVE Types'
      BY <2>6 DEF put, DataGet, NetClose, bindDatagrams, TakeAndClose, take, Goto, setVars, gateVars, chVars, loopVars
    <2> QED
      BY <1>1, <2>1, <2>2, <2>3, <2>4, <2>5, <2>6, <2>7 DEF FrameStep
  <1>2. ASSUME NEW b \in Bridge, ForwardStep(b) PROVE Types'
    BY <1>2 DEF ForwardStep, FwdRaw, FwdRawWritten, FwdRawFails, FwdGone, FwdReadFails,
                TakeAndClose, take, setVars, gateVars, loopVars, chVars
  <1>3. ASSUME NEW c \in Channel, ChannelStep(c) PROVE Types'
    BY <1>3 DEF ChannelStep, bind, ChannelReadFails, ChannelWriteFails, ChannelEnds,
                TakeAndClose, take, setVars, gateVars, loopVars
  <1>4. CASE UpdaterStep
    BY <1>4 DEF UpdaterStep, waitForIdleBridges, tryBeginUpdate, cancelUpdate, setVars, loopVars, chVars
  <1>5. CASE UNCHANGED vars
    BY <1>5 DEF vars, setVars, gateVars, loopVars, chVars
  <1> QED
    BY <1>1, <1>2, <1>3, <1>4, <1>5 DEF Next

\* The parts about locks and records, without the counter.
Lite == Apart /\ Fresh /\ LockHeld /\ Exclusive /\ Phase

\* Every step keeps the parts of the invariant that say who holds updateMu and
\* which record belongs to which socket.
LEMMA StepLite == Types /\ Lite /\ [Next]_vars => Lite'
  <1> SUFFICES ASSUME Types, Lite, [Next]_vars PROVE Lite'
    OBVIOUS
  <1> USE DEF Types, InOpen, Lite, Apart, Fresh, LockHeld, Exclusive, Phase
  <1>1. ASSUME NEW s \in Socket, FrameStep(s) PROVE Lite'
    <2>1. CASE lockBridgeOpen(s)
      BY <2>1 DEF lockBridgeOpen, Goto, setVars
    <2>2. CASE DialFails(s) \/ ReplySent(s)
      BY <2>2 DEF DialFails, ReplySent, Goto, Return, setVars
    <2>3. CASE putCount(s) \/ SocketEnds(s) \/ DataWritten(s)
      BY <2>3 DEF putCount, SocketEnds, DataWritten, Goto, Return, setVars, gateVars
    <2>4. CASE ReplyFails(s)
      BY <2>4 DEF ReplyFails, TakeAndClose, NilTakePanics, take, Goto, Return, loopVars
    <2>5. CASE DataWriteFails(s)
      BY <2>5 DEF DataWriteFails, TakeAndClose, NilTakePanics, take, Goto, Return, gateVars, loopVars
    <2>6. CASE closeAll(s) \/ closeAllCount(s) \/ closeAllClose(s)
      BY <2>6 DEF closeAll, closeAllCount, closeAllClose, Goto, Of, gateVars
    <2>7. ASSUME NEW b \in Bridge, put(s, b) PROVE Lite'
      BY <2>7 DEF put, Goto, gateVars
    <2>8. ASSUME NEW b \in Bridge, DataGet(s, b) \/ NetClose(s, b) \/ bindDatagrams(s, b)
          PROVE Lite'
      BY <2>8 DEF DataGet, NetClose, bindDatagrams, TakeAndClose, take, Goto, setVars, gateVars, loopVars
    <2> QED
      BY <1>1, <2>1, <2>2, <2>3, <2>4, <2>5, <2>6, <2>7, <2>8 DEF FrameStep
  <1>2. ASSUME NEW b \in Bridge, ForwardStep(b) PROVE Lite'
    BY <1>2 DEF ForwardStep, FwdRaw, FwdRawWritten, FwdRawFails, FwdGone, FwdReadFails,
                TakeAndClose, take, setVars, gateVars, loopVars
  <1>3. ASSUME NEW c \in Channel, ChannelStep(c) PROVE Lite'
    BY <1>3 DEF ChannelStep, bind, ChannelReadFails, ChannelWriteFails, ChannelEnds,
                TakeAndClose, take, setVars, gateVars, loopVars
  <1>4. CASE UpdaterStep
    BY <1>4 DEF UpdaterStep, waitForIdleBridges, tryBeginUpdate, cancelUpdate, setVars, loopVars
  <1>5. CASE UNCHANGED vars
    BY <1>5 DEF vars, setVars, gateVars, loopVars
  <1> QED
    BY <1>1, <1>2, <1>3, <1>4, <1>5 DEF Next

-----------------------------------------------------------------------------
(* The counter *)

\* The size of a finite set without one of its subsets.
LEMMA CardinalityMinus ==
  ASSUME NEW S, IsFiniteSet(S), NEW T \in SUBSET S
  PROVE  /\ IsFiniteSet(T) /\ Cardinality(T) \in Nat
         /\ Cardinality(S \ T) = Cardinality(S) - Cardinality(T)
  <1>1. S \cap T = T
    OBVIOUS
  <1>2. Cardinality(S \ T) = Cardinality(S) - Cardinality(S \cap T)
    BY FS_Difference
  <1>3. IsFiniteSet(T)
    BY FS_Subset
  <1> QED
    BY <1>1, <1>2, <1>3, FS_CardinalityType

\* The size of the union of two disjoint finite sets.
LEMMA CardinalityPlus ==
  ASSUME NEW S, NEW T, IsFiniteSet(S), IsFiniteSet(T), S \cap T = {}
  PROVE  Cardinality(S \cup T) = Cardinality(S) + Cardinality(T)
  <1>1. Cardinality(S \cup T) = Cardinality(S) + Cardinality(T) - Cardinality(S \cap T)
    BY FS_Union
  <1>2. Cardinality(S \cap T) = 0
    BY FS_EmptySet
  <1> QED
    BY <1>1, <1>2, FS_CardinalityType

\* The sets that the counter invariant counts are finite.
LEMMA Cardinalities ==
  ASSUME Types
  PROVE  /\ IsFiniteSet(items) /\ Cardinality(items) \in Nat
         /\ IsFiniteSet(swapped) /\ Cardinality(swapped) \in Nat
         /\ IsFiniteSet(Counting) /\ Cardinality(Counting) \in Nat
         /\ Cardinality(Counting) <= Cardinality(Socket)
  <1>1. items \in SUBSET Bridge /\ swapped \in SUBSET Bridge /\ Counting \in SUBSET Socket
    BY DEF Types, Counting
  <1>2. IsFiniteSet(items) /\ IsFiniteSet(swapped)
    BY <1>1, BridgeFinite, FS_Subset
  <1>3. IsFiniteSet(Counting) /\ Cardinality(Counting) <= Cardinality(Socket)
    BY <1>1, SocketFinite, FS_Subset
  <1> QED
    BY <1>2, <1>3, FS_CardinalityType

\* take removes one record and decrements exactly when the record was there.
LEMMA TakeKeepsCounter ==
  ASSUME Types, CounterExact, NEW b, take(b), swapped' = swapped, Counting' = Counting
  PROVE  CounterExact'
  <1>1. Cardinality(items') = IF b \in items THEN Cardinality(items) - 1 ELSE Cardinality(items)
    BY Cardinalities, FS_RemoveElement DEF take
  <1> QED
    BY <1>1, Cardinalities DEF take, CounterExact, Types

\* Moving a frame loop between labels other than "count".
LEMMA CountingSame ==
  ASSUME Types, NEW s \in Socket, NEW l, Goto(s, l), l # "count", pc[s] # "count"
  PROVE  Counting' = Counting
  BY DEF Types, Goto, Counting

\* Every step keeps activeBridges exact up to the two open windows.
LEMMA StepCounter == Types /\ Lite /\ CounterExact /\ [Next]_vars => CounterExact'
  <1> SUFFICES ASSUME Types, Lite, CounterExact, [Next]_vars PROVE CounterExact'
    OBVIOUS
  <1>0. ASSUME UNCHANGED <<items, swapped, active>>, Counting' = Counting PROVE CounterExact'
    BY <1>0 DEF CounterExact
  <1>1. ASSUME NEW s \in Socket, FrameStep(s) PROVE CounterExact'
    <2>1. CASE lockBridgeOpen(s) \/ DialFails(s) \/ ReplySent(s) \/ SocketEnds(s)
               \/ DataWritten(s) \/ closeAllClose(s)
      <3>1. \E l : Goto(s, l) /\ l # "count" /\ pc[s] # "count"
        BY <2>1 DEF lockBridgeOpen, DialFails, ReplySent, SocketEnds, DataWritten, closeAllClose, Return
      <3>2. UNCHANGED <<items, swapped, active>>
        BY <2>1 DEF lockBridgeOpen, DialFails, ReplySent, SocketEnds, DataWritten, closeAllClose, setVars
      <3> QED
        BY <1>0, <3>1, <3>2, CountingSame
    <2>2. CASE putCount(s)
      <3>1. s \in Counting /\ Counting' = Counting \ {s}
        BY <2>2 DEF putCount, Goto, Counting, Types
      <3>2. Cardinality(Counting') = Cardinality(Counting) - 1
        BY <3>1, Cardinalities, FS_RemoveElement
      <3> QED
        BY <2>2, <3>2, Cardinalities DEF putCount, CounterExact, Types
    <2>3. CASE ReplyFails(s) \/ DataWriteFails(s)
      <3>1. \E l : Goto(s, l) /\ l # "count" /\ pc[s] # "count"
        BY <2>3 DEF ReplyFails, DataWriteFails, NilTakePanics, Return
      <3>2. swapped' = swapped /\ (take(cur[s]) \/ UNCHANGED <<items, active>>)
        BY <2>3 DEF ReplyFails, DataWriteFails, NilTakePanics, TakeAndClose
      <3> QED
        BY <1>0, <3>1, <3>2, CountingSame, TakeKeepsCounter
    <2>4. CASE closeAll(s)
      <3> DEFINE B == Of(s, items)
      <3>1. Counting' = Counting
        BY <2>4, CountingSame DEF closeAll
      <3>2. B \in SUBSET items /\ items' = items \ B /\ swapped' = swapped \cup B
        BY <2>4 DEF closeAll, Of
      <3>3. IsFiniteSet(B) /\ Cardinality(B) \in Nat
            /\ Cardinality(items') = Cardinality(items) - Cardinality(B)
        BY <3>2, Cardinalities, CardinalityMinus
      <3>4. Cardinality(swapped') = Cardinality(swapped) + Cardinality(B)
        <4>1. swapped \cap B = {}
          BY <3>2 DEF Lite, Apart
        <4> QED
          BY <3>2, <3>3, <4>1, Cardinalities, CardinalityPlus
      <3> QED
        BY <2>4, <3>1, <3>3, <3>4, Cardinalities DEF closeAll, CounterExact, Types
    <2>5. CASE closeAllCount(s)
      <3> DEFINE B == Of(s, swapped)
      <3>1. Counting' = Counting
        BY <2>5, CountingSame DEF closeAllCount
      <3>2. B \in SUBSET swapped /\ swapped' = swapped \ B
        BY <2>5 DEF closeAllCount, Of
      <3>3. Cardinality(B) \in Nat /\ Cardinality(swapped') = Cardinality(swapped) - Cardinality(B)
        BY <3>2, Cardinalities, CardinalityMinus
      <3> QED
        BY <2>5, <3>1, <3>3, Cardinalities DEF closeAllCount, CounterExact, Types
    <2>6. ASSUME NEW b \in Bridge, put(s, b) PROVE CounterExact'
      <3>1. s \notin Counting /\ Counting' = Counting \cup {s}
        BY <2>6 DEF put, Goto, Counting, Types
      <3>2. Cardinality(Counting') = Cardinality(Counting) + 1
        BY <3>1, Cardinalities, FS_AddElement
      <3>3. b \notin items /\ items' = items \cup {b}
        BY <2>6 DEF put, Lite, Fresh
      <3>4. Cardinality(items') = Cardinality(items) + 1
        BY <3>3, Cardinalities, FS_AddElement
      <3> QED
        BY <2>6, <3>2, <3>4, Cardinalities DEF put, CounterExact, Types
    <2>7. ASSUME NEW b \in Bridge, DataGet(s, b) PROVE CounterExact'
      BY <1>0, <2>7, CountingSame DEF DataGet, setVars
    <2>8. ASSUME NEW b \in Bridge, NetClose(s, b) \/ bindDatagrams(s, b) PROVE CounterExact'
      <3>1. Counting' = Counting
        BY <2>8 DEF NetClose, bindDatagrams, loopVars, Counting
      <3> QED
        BY <1>0, <2>8, <3>1, TakeKeepsCounter DEF NetClose, bindDatagrams, TakeAndClose
    <2> QED
      BY <1>1, <2>1, <2>2, <2>3, <2>4, <2>5, <2>6, <2>7, <2>8 DEF FrameStep
  <1>2. ASSUME NEW b \in Bridge, ForwardStep(b) PROVE CounterExact'
    <2>1. Counting' = Counting
      BY <1>2 DEF ForwardStep, FwdRaw, FwdRawWritten, FwdRawFails, FwdGone, FwdReadFails, loopVars, Counting
    <2>2. swapped' = swapped /\ (take(b) \/ UNCHANGED <<items, active>>)
      BY <1>2 DEF ForwardStep, FwdRaw, FwdRawWritten, FwdRawFails, FwdGone, FwdReadFails, TakeAndClose, setVars
    <2> QED
      BY <1>0, <2>1, <2>2, TakeKeepsCounter
  <1>3. ASSUME NEW c \in Channel, ChannelStep(c) PROVE CounterExact'
    <2>1. Counting' = Counting
      BY <1>3 DEF ChannelStep, bind, ChannelReadFails, ChannelWriteFails, ChannelEnds, loopVars, Counting
    <2>2. swapped' = swapped /\ (take(chBridge[c]) \/ UNCHANGED <<items, active>>)
      BY <1>3 DEF ChannelStep, bind, ChannelReadFails, ChannelWriteFails, ChannelEnds, TakeAndClose, setVars
    <2> QED
      BY <1>0, <2>1, <2>2, TakeKeepsCounter
  <1>4. CASE UpdaterStep
    BY <1>0, <1>4 DEF UpdaterStep, waitForIdleBridges, tryBeginUpdate, cancelUpdate, setVars, loopVars, Counting
  <1>5. CASE UNCHANGED vars
    BY <1>0, <1>5 DEF vars, setVars, loopVars, Counting
  <1> QED
    BY <1>1, <1>2, <1>3, <1>4, <1>5 DEF Next

-----------------------------------------------------------------------------
(* Theorems *)

\* The inductive invariant holds in every reachable state.
LEMMA Inductive == Spec => []IInv
  <1>1. IInv /\ [Next]_vars => IInv'
    BY StepTypes, StepLite, StepCounter DEF IInv, Lite
  <1> QED
    BY InitIInv, <1>1, PTL DEF Spec

\* When nobody is between the two halves of put, a zero counter means that
\* there is no bridge.
LEMMA ZeroMeansIdle ==
  ASSUME IInv, rlock = {}, active = 0
  PROVE  items = {} /\ swapped = {}
  <1>1. Counting = {}
    BY DEF IInv, LockHeld, Counting, InOpen
  <1>2. Cardinality(Counting) = 0
    BY <1>1, FS_EmptySet
  <1>3. Types
    BY DEF IInv
  <1>4. Cardinality(items) = 0 /\ Cardinality(swapped) = 0
    BY <1>2, <1>3, Cardinalities DEF IInv, CounterExact
  <1> QED
    BY <1>3, <1>4, Cardinalities, FS_EmptySet

\* Every step that begins an update does so as the gate allows.
LEMMA BeginStep ==
  ASSUME IInv, [Next]_vars, ~pending, pending'
  PROVE  tryBeginUpdate
  <1> USE DEF IInv, Types
  <1>1. ASSUME NEW s \in Socket, FrameStep(s) PROVE FALSE
    BY <1>1 DEF FrameStep, lockBridgeOpen, DialFails, ReplySent, putCount, SocketEnds, closeAll,
      ReplyFails, DataWritten, DataWriteFails, closeAllCount, closeAllClose, put, DataGet, NetClose,
      bindDatagrams, gateVars
  <1>2. ASSUME NEW b \in Bridge, ForwardStep(b) PROVE FALSE
    BY <1>2 DEF ForwardStep, FwdRaw, FwdRawWritten, FwdRawFails, FwdGone, FwdReadFails, gateVars
  <1>3. ASSUME NEW c \in Channel, ChannelStep(c) PROVE FALSE
    BY <1>3 DEF ChannelStep, bind, ChannelReadFails, ChannelWriteFails, ChannelEnds, gateVars
  <1>4. CASE UpdaterStep
    BY <1>4 DEF UpdaterStep, waitForIdleBridges, cancelUpdate
  <1>5. CASE UNCHANGED vars
    BY <1>5 DEF vars, gateVars
  <1> QED
    BY <1>1, <1>2, <1>3, <1>4, <1>5 DEF Next

\* The type invariant holds in every reachable state, and the counter stays
\* between minus the number of sockets and the number of bridges.
THEOREM TypeCorrect == Spec => []TypeOK
  <1>1. ASSUME IInv PROVE TypeOK
    <2>1. Types /\ items \cap swapped = {} /\ CounterExact
      BY <1>1 DEF IInv, Apart
    <2>2. Cardinality(items \cup swapped) = Cardinality(items) + Cardinality(swapped)
      BY <2>1, Cardinalities, CardinalityPlus
    <2>3. items \cup swapped \in SUBSET Bridge
      BY <2>1 DEF Types
    <2>4. Cardinality(items \cup swapped) <= Cardinality(Bridge)
      BY <2>3, BridgeFinite, FS_Subset
    <2>5. Cardinality(Bridge) \in Nat /\ Cardinality(Socket) \in Nat
      BY BridgeFinite, SocketFinite, FS_CardinalityType
    <2> QED
      BY <2>1, <2>2, <2>4, <2>5, Cardinalities DEF TypeOK, CounterExact
  <1> QED
    BY Inductive, <1>1, PTL

\* The counter counts every registered bridge exactly once, but for the two
\* windows that put and closeAll leave open.
THEOREM CounterCorrect == Spec => []CounterExact
  <1>1. IInv => CounterExact
    BY DEF IInv
  <1> QED
    BY Inductive, <1>1, PTL

\* An update the deferral did not force never interrupts a bridge.
THEOREM UnforcedUpdateIsIdle == Spec => UnforcedBeginIsIdle
  <1>1. ASSUME IInv, [Next]_vars, ~pending, pending', ~force
        PROVE  items = {} /\ swapped = {}
    <2>1. tryBeginUpdate
      BY <1>1, BeginStep
    <2>2. rlock = {} /\ active = 0
      BY <1>1, <2>1 DEF tryBeginUpdate
    <2> QED
      BY <1>1, <2>2, ZeroMeansIdle
  <1>2. IInv /\ [Next]_vars => [~pending /\ pending' /\ ~force => items = {} /\ swapped = {}]_vars
    BY <1>1
  <1> QED
    BY Inductive, <1>2, PTL DEF Spec, UnforcedBeginIsIdle

-----------------------------------------------------------------------------
(* The gate *)

\* Every step but put and the updater's own leaves the gate alone and can
\* only remove bridges.
LEMMA OtherSteps ==
  ASSUME IInv, [Next]_vars, ~UpdaterStep,
         ~ \E s \in Socket, b \in Bridge : put(s, b)
  PROVE  items' \subseteq items /\ UNCHANGED <<pending, upd, force>>
  <1> USE DEF take, TakeAndClose, NilTakePanics, gateVars, setVars
  <1>1. ASSUME NEW s \in Socket, FrameStep(s)
        PROVE  items' \subseteq items /\ UNCHANGED <<pending, upd, force>>
    BY <1>1 DEF FrameStep, lockBridgeOpen, DialFails, ReplySent, putCount, SocketEnds, closeAll,
      ReplyFails, DataWritten, DataWriteFails, closeAllCount, closeAllClose, DataGet, NetClose, bindDatagrams
  <1>2. ASSUME NEW b \in Bridge, ForwardStep(b)
        PROVE  items' \subseteq items /\ UNCHANGED <<pending, upd, force>>
    BY <1>2 DEF ForwardStep, FwdRaw, FwdRawWritten, FwdRawFails, FwdGone, FwdReadFails
  <1>3. ASSUME NEW c \in Channel, ChannelStep(c)
        PROVE  items' \subseteq items /\ UNCHANGED <<pending, upd, force>>
    BY <1>3 DEF ChannelStep, bind, ChannelReadFails, ChannelWriteFails, ChannelEnds
  <1>4. CASE UNCHANGED vars
    BY <1>4 DEF vars
  <1> QED
    BY <1>1, <1>2, <1>3, <1>4 DEF Next

\* An open that reaches put holds updateMu, so that no update is pending.
LEMMA PutStep ==
  ASSUME IInv, NEW s \in Socket, NEW b \in Bridge, put(s, b)
  PROVE  /\ ~pending /\ UNCHANGED <<pending, upd, force>>
         /\ b \notin items /\ items' = items \cup {b}
  <1>1. s \in rlock
    BY DEF put, IInv, LockHeld, InOpen
  <1> QED
    BY <1>1 DEF put, IInv, Exclusive, Fresh, gateVars

\* While an update is pending no bridge is added, not even by an open that
\* was dialling when the update asked for the lock.
THEOREM NoOpenWhileUpdating == Spec => NoBridgeAddedWhileUpdating
  <1>1. ASSUME IInv, [Next]_vars, pending
        PROVE  items' \subseteq items
    <2>1. ASSUME NEW s \in Socket, NEW b \in Bridge, put(s, b) PROVE FALSE
      BY <1>1, <2>1, PutStep
    <2>2. CASE UpdaterStep
      BY <2>2 DEF UpdaterStep, waitForIdleBridges, tryBeginUpdate, cancelUpdate, setVars
    <2> QED
      BY <1>1, <2>1, <2>2, OtherSteps
  <1>2. IInv /\ [Next]_vars => [pending /\ pending' => items' \subseteq items]_vars
    BY <1>1
  <1> QED
    BY Inductive, <1>2, PTL DEF Spec, NoBridgeAddedWhileUpdating

\* Every step of the goroutines is a step of the gate or leaves it alone.
LEMMA GateStep == IInv /\ [Next]_vars => [Gate!Next]_(Gate!gvars)
  <1> SUFFICES ASSUME IInv, [Next]_vars PROVE [Gate!Next]_(Gate!gvars)
    OBVIOUS
  <1>1. ASSUME NEW s \in Socket, NEW b \in Bridge, put(s, b) PROVE Gate!Next
    <2>1. ~pending /\ UNCHANGED <<pending, upd, force>> /\ b \notin items /\ items' = items \cup {b}
      BY <1>1, PutStep
    <2>2. Gate!Open(b)
      BY <2>1 DEF Gate!Open
    <2> QED
      BY <2>2 DEF Gate!Next
  <1>2. CASE ~UpdaterStep /\ ~ \E s \in Socket, b \in Bridge : put(s, b)
    <2>1. items' \subseteq items /\ UNCHANGED <<pending, upd, force>>
      BY <1>2, OtherSteps
    <2>2. items \ items' \in SUBSET items /\ items' = items \ (items \ items')
      BY <2>1
    <2>3. Gate!Close(items \ items')
      BY <2>1, <2>2 DEF Gate!Close
    <2> QED
      BY <2>2, <2>3 DEF Gate!Next
  <1>3. ASSUME NEW expired \in BOOLEAN, waitForIdleBridges(expired) PROVE [Gate!Next]_(Gate!gvars)
    <2>1. ~pending /\ UNCHANGED <<items, pending>> /\ upd = "idle" /\ upd' = "lock"
      BY <1>3 DEF waitForIdleBridges, IInv, Phase, setVars
    <2>2. CASE force'
      BY <2>1, <2>2 DEF Gate!Next, Gate!DeferralExpires
    <2>3. CASE ~force'
      BY <2>1, <2>3 DEF Gate!gvars
    <2> QED
      BY <2>2, <2>3
  <1>4. CASE tryBeginUpdate
    <2>1. upd = "lock" /\ ~pending /\ rlock = {} /\ items' = items /\ ~force' /\ upd' # "lock"
      BY <1>4 DEF tryBeginUpdate, IInv, Phase, setVars
    <2>2. CASE force \/ active = 0
      <3>1. pending' /\ (items = {} \/ force)
        BY <1>4, <2>1, <2>2, ZeroMeansIdle DEF tryBeginUpdate
      <3>2. pending' = TRUE
        BY <1>4, <2>1, <2>2 DEF tryBeginUpdate
      <3> QED
        BY <2>1, <3>1, <3>2 DEF Gate!Next, Gate!Begin
    <2>3. CASE ~force /\ active # 0
      BY <1>4, <2>1, <2>3 DEF tryBeginUpdate, Gate!gvars
    <2> QED
      BY <2>2, <2>3
  <1>5. CASE cancelUpdate
    BY <1>5 DEF cancelUpdate, IInv, Phase, setVars, Gate!Next, Gate!Cancel
  <1> QED
    BY <1>1, <1>2, <1>3, <1>4, <1>5 DEF UpdaterStep

\* Bridges implements the gate: whatever the interleaving of opens, closes,
\* forwarders, channels and the updater, what is seen from outside is a set
\* of bridges that is empty (or overdue) when an update begins and that does
\* not grow while one is in progress.
THEOREM GateRefinement == Spec => ImplementsGate
  <1>1. Init => Gate!Init
    BY DEF Init, Gate!Init
  <1> QED
    BY Inductive, GateStep, <1>1, PTL DEF Spec, ImplementsGate, Gate!Spec

-----------------------------------------------------------------------------
(* Connections *)

\* A bridge that was never put has no carrier, one that was has a socket, and
\* a channel carries the bridge that it was bound to, once.
Known(b) ==
  /\ conn[b] = "unused" => carrier[b] = None
  /\ conn[b] # "unused" => home[b] \in Socket
  /\ carrier[b] # None => carrier[b] \in Channel /\ chBridge[carrier[b]] = b /\ ch[carrier[b]] # "new"

\* closeAll of the socket has taken the records and not yet closed them.
TornDown(s) == pc[s] \in {"uncount", "close"}
Carried(c) == ch[c] \in {"bound", "ending"}

\* What ConnectionsHeld says of one bridge.
HeldAt(b) ==
  /\ conn[b] = "open" => b \in items \/ TornDown(home[b])
  /\ b \in items /\ carrier[b] # None => Carried(carrier[b])

\* The inductive invariant of the connections, beside IInv.
HeldInv == \A b \in Bridge : Known(b) /\ HeldAt(b)

\* The step closes, and takes, connections that were open.
Closes ==
  /\ items' \subseteq items /\ UNCHANGED <<home, carrier, chBridge>>
  /\ \A b \in Bridge :
       conn'[b] = conn[b] \/ (conn[b] # "unused" /\ conn'[b] \in {"closed", "dropped"})
  /\ \A c \in Channel : ch[c] # "new" => ch'[c] # "new"

\* A step that closes some connections and takes only those, or leaves them to
\* closeAll.
LEMMA ClosingHeld ==
  ASSUME HeldInv, Closes,
         \A b \in items \ items' : conn'[b] # "open" \/ TornDown(home[b])',
         \A b \in Bridge : conn'[b] = "open" /\ TornDown(home[b]) => TornDown(home[b])',
         \A b \in items' : carrier[b] # None /\ Carried(carrier[b]) => Carried(carrier[b])'
  PROVE  HeldInv'
  <1> SUFFICES ASSUME NEW b \in Bridge PROVE Known(b)' /\ HeldAt(b)'
    BY DEF HeldInv
  <1>1. Known(b) /\ HeldAt(b)
    BY DEF HeldInv
  <1>2. Known(b)'
    BY <1>1 DEF Known, Closes
  <1>3. HeldAt(b)'
    <2>1. conn'[b] = "open" => b \in items' \/ TornDown(home[b])'
      BY <1>1 DEF HeldAt, Closes
    <2>2. b \in items' /\ carrier[b] # None => Carried(carrier[b])'
      BY <1>1 DEF HeldAt, Closes
    <2> QED
      BY <2>1, <2>2 DEF HeldAt, Closes, TornDown, Carried
  <1> QED
    BY <1>2, <1>3

\* What take(id).Close() does to the set and to the connections.
LEMMA TakeEffect ==
  ASSUME Types, Fresh, NEW t, TakeAndClose(t), UNCHANGED <<home, carrier, chBridge>>,
         \A c \in Channel : ch[c] # "new" => ch'[c] # "new"
  PROVE  Closes /\ t \notin items' /\ \A b \in items \ items' : conn'[b] # "open"
  <1>1. /\ t \in items /\ items' = items \ {t} /\ conn' = [conn EXCEPT ![t] = "closed"]
        /\ conn \in [Bridge -> {"unused", "open", "closed", "dropped"}] /\ t \in Bridge
        /\ conn[t] # "unused"
    BY DEF TakeAndClose, take, Types, Fresh
  <1>2. conn'[t] = "closed" /\ \A b \in Bridge : b # t => conn'[b] = conn[b]
    BY <1>1
  <1> QED
    BY <1>1, <1>2 DEF Closes

\* Steps that move the frame loop of a socket that is not being torn down.
LEMMA LoopHeld ==
  ASSUME Types, HeldInv, NEW s \in Socket, ~TornDown(s), NEW label, pc' = [pc EXCEPT ![s] = label],
         Closes, UNCHANGED ch, \A b \in items \ items' : conn'[b] # "open"
  PROVE  HeldInv'
  <1>1. ASSUME NEW u, TornDown(u) PROVE u # s
    BY <1>1
  <1>2. ASSUME NEW b \in Bridge, conn'[b] = "open", TornDown(home[b]) PROVE TornDown(home[b])'
    <2>1. home[b] \in Socket /\ home[b] # s
      BY <1>1, <1>2 DEF HeldInv, Known, Closes
    <2>2. pc'[home[b]] = pc[home[b]]
      BY <2>1 DEF Types
    <2> QED
      BY <1>2, <2>2 DEF TornDown, Closes
  <1> QED
    BY <1>2, ClosingHeld DEF Carried, Closes

\* The steps of a frame loop.
LEMMA FrameHeld ==
  ASSUME Types, Fresh, HeldInv, NEW s \in Socket, FrameStep(s)
  PROVE  HeldInv'
  <1>1. CASE lockBridgeOpen(s) \/ DialFails(s) \/ putCount(s) \/ ReplySent(s) \/ DataWritten(s) \/ SocketEnds(s)
    <2>1. /\ UNCHANGED <<items, conn, home, carrier, chBridge, ch>> /\ ~TornDown(s)
          /\ \E label : pc' = [pc EXCEPT ![s] = label]
      BY <1>1 DEF lockBridgeOpen, DialFails, putCount, ReplySent, DataWritten, SocketEnds, Goto, Return,
                  setVars, chVars, TornDown
    <2> QED
      BY <2>1, LoopHeld DEF Closes
  <1>2. CASE ReplyFails(s) \/ DataWriteFails(s)
    <2>1. /\ TakeAndClose(cur[s]) \/ UNCHANGED <<items, conn>>
          /\ UNCHANGED <<home, carrier, chBridge, ch>> /\ ~TornDown(s)
          /\ \E label : pc' = [pc EXCEPT ![s] = label]
      BY <1>2 DEF ReplyFails, DataWriteFails, NilTakePanics, Goto, Return, chVars, TornDown
    <2>2. Closes /\ \A b \in items \ items' : conn'[b] # "open"
      BY <2>1, TakeEffect DEF Closes
    <2> QED
      BY <2>1, <2>2, LoopHeld
  <1>3. CASE closeAll(s)
    <2>1. /\ pc[s] = "swap" /\ pc' = [pc EXCEPT ![s] = "uncount"]
          /\ items' = items \ {b \in items : home[b] = s}
          /\ UNCHANGED <<conn, home, carrier, ch, chBridge>>
      BY <1>3 DEF closeAll, Goto, Of, chVars
    <2>2. pc'[s] = "uncount" /\ \A u \in Socket : u # s => pc'[u] = pc[u]
      BY <2>1 DEF Types
    <2>3. ASSUME NEW b \in Bridge, conn'[b] = "open", TornDown(home[b]) PROVE TornDown(home[b])'
      <3>1. home[b] \in Socket
        BY <2>1, <2>3 DEF HeldInv, Known
      <3> QED
        BY <2>1, <2>2, <2>3, <3>1 DEF TornDown
    <2>4. ASSUME NEW b \in items \ items' PROVE TornDown(home[b])'
      BY <2>1, <2>2 DEF TornDown
    <2> QED
      BY <2>1, <2>3, <2>4, ClosingHeld DEF Closes, Carried
  <1>4. CASE closeAllCount(s)
    <2>1. /\ pc[s] = "uncount" /\ pc' = [pc EXCEPT ![s] = "close"]
          /\ UNCHANGED <<items, conn, home, carrier, ch, chBridge>>
      BY <1>4 DEF closeAllCount, Goto, chVars
    <2>2. pc'[s] = "close" /\ \A u \in Socket : u # s => pc'[u] = pc[u]
      BY <2>1 DEF Types
    <2>3. ASSUME NEW b \in Bridge, conn'[b] = "open", TornDown(home[b]) PROVE TornDown(home[b])'
      <3>1. home[b] \in Socket
        BY <2>1, <2>3 DEF HeldInv, Known
      <3> QED
        BY <2>1, <2>2, <2>3, <3>1 DEF TornDown
    <2> QED
      BY <2>1, <2>3, ClosingHeld DEF Closes, Carried
  <1>5. CASE closeAllClose(s)
    <2>1. /\ pc' = [pc EXCEPT ![s] = "gone"]
          /\ \A b \in Bridge : conn'[b] = IF home[b] = s /\ conn[b] = "open" THEN "closed" ELSE conn[b]
          /\ UNCHANGED <<items, home, carrier, ch, chBridge>>
      BY <1>5 DEF closeAllClose, Goto, chVars
    <2>2. \A u \in Socket : u # s => pc'[u] = pc[u]
      BY <2>1 DEF Types
    <2>3. ASSUME NEW b \in Bridge, conn'[b] = "open", TornDown(home[b]) PROVE TornDown(home[b])'
      <3>1. home[b] \in Socket /\ home[b] # s
        BY <2>1, <2>3 DEF HeldInv, Known
      <3> QED
        BY <2>1, <2>2, <2>3, <3>1 DEF TornDown
    <2> QED
      BY <2>1, <2>3, ClosingHeld DEF Closes, Carried
  <1>6. ASSUME NEW b \in Bridge, put(s, b) PROVE HeldInv'
    <2>1. /\ pc[s] = "dial" /\ conn[b] = "unused"
          /\ items' = items \cup {b} /\ home' = [home EXCEPT ![b] = s]
          /\ conn' = [conn EXCEPT ![b] = "open"] /\ pc' = [pc EXCEPT ![s] = "count"]
          /\ UNCHANGED <<carrier, ch, chBridge>>
      BY <1>6 DEF put, Goto, chVars
    <2>2. /\ home'[b] = s /\ conn'[b] = "open" /\ b \in items'
          /\ \A d \in Bridge : d # b => /\ home'[d] = home[d] /\ conn'[d] = conn[d]
                                       /\ d \in items' <=> d \in items
          /\ \A u \in Socket : u # s => pc'[u] = pc[u]
      BY <2>1 DEF Types
    <2>3. Known(b)' /\ HeldAt(b)'
      BY <2>1, <2>2 DEF HeldInv, Known, HeldAt
    <2>4. ASSUME NEW d \in Bridge, d # b PROVE Known(d)' /\ HeldAt(d)'
      <3>1. Known(d) /\ HeldAt(d)
        BY DEF HeldInv
      <3>2. ASSUME conn[d] = "open", TornDown(home[d])
            PROVE  pc'[home[d]] = pc[home[d]]
        <4>1. home[d] \in Socket /\ home[d] # s
          BY <2>1, <3>1, <3>2 DEF Known, TornDown
        <4> QED
          BY <2>2, <4>1
      <3> QED
        BY <2>1, <2>2, <2>4, <3>1, <3>2 DEF Known, HeldAt, TornDown, Carried
    <2> QED
      BY <2>3, <2>4 DEF HeldInv
  <1>7. ASSUME NEW b \in Bridge, DataGet(s, b) PROVE HeldInv'
    <2>1. /\ UNCHANGED <<items, conn, home, carrier, chBridge, ch>> /\ ~TornDown(s)
          /\ \E label : pc' = [pc EXCEPT ![s] = label]
      BY <1>7 DEF DataGet, Goto, setVars, chVars, TornDown
    <2> QED
      BY <2>1, LoopHeld DEF Closes
  <1>8. ASSUME NEW b \in Bridge, NetClose(s, b) \/ bindDatagrams(s, b) PROVE HeldInv'
    <2>1. /\ TakeAndClose(b) \/ UNCHANGED <<items, conn>>
          /\ UNCHANGED <<home, carrier, chBridge, ch, pc>>
      BY <1>8 DEF NetClose, bindDatagrams, loopVars, chVars
    <2>2. Closes /\ \A d \in items \ items' : conn'[d] # "open"
      BY <2>1, TakeEffect DEF Closes
    <2> QED
      BY <2>1, <2>2, ClosingHeld DEF TornDown, Carried, Closes
  <1> QED
    BY <1>1, <1>2, <1>3, <1>4, <1>5, <1>6, <1>7, <1>8 DEF FrameStep

\* The steps of the forwarders, the channels and the updater.
LEMMA OthersHeld ==
  ASSUME Types, Fresh, HeldInv,
         \/ \E b \in Bridge : ForwardStep(b)
         \/ \E c \in Channel : ChannelStep(c)
         \/ UpdaterStep
  PROVE  HeldInv'
  <1>1. ASSUME NEW b \in Bridge, ForwardStep(b) PROVE HeldInv'
    <2>1. UNCHANGED <<home, carrier, chBridge, ch, pc>>
      BY <1>1 DEF ForwardStep, FwdRaw, FwdRawWritten, FwdRawFails, FwdGone, FwdReadFails, setVars,
                  loopVars, chVars
    <2>2. CASE FwdReadFails(b)
      <3>1. /\ b \in items /\ items' = items \ {b} /\ conn[b] # "unused"
            /\ conn'[b] = IF conn[b] = "closed" THEN "closed" ELSE "dropped"
            /\ \A d \in Bridge : d # b => conn'[d] = conn[d]
        BY <2>2 DEF FwdReadFails, take, Types, Fresh
      <3>2. Closes /\ \A d \in items \ items' : conn'[d] # "open"
        BY <2>1, <3>1 DEF Closes
      <3> QED
        BY <2>1, <3>2, ClosingHeld DEF TornDown, Carried, Closes
    <2>3. CASE ~FwdReadFails(b)
      <3>1. TakeAndClose(b) \/ UNCHANGED <<items, conn>>
        BY <1>1, <2>3 DEF ForwardStep, FwdRaw, FwdRawWritten, FwdRawFails, FwdGone, setVars
      <3>2. Closes /\ \A d \in items \ items' : conn'[d] # "open"
        BY <2>1, <3>1, TakeEffect DEF Closes
      <3> QED
        BY <2>1, <3>2, ClosingHeld DEF TornDown, Carried, Closes
    <2> QED
      BY <2>2, <2>3
  <1>2. ASSUME NEW c \in Channel, NEW b \in Bridge, NEW m, bind(c, b, m) PROVE HeldInv'
    <2>1. /\ ch[c] = "new" /\ b \in items /\ carrier' = [carrier EXCEPT ![b] = c]
          /\ chBridge' = [chBridge EXCEPT ![c] = b] /\ ch' = [ch EXCEPT ![c] = "bound"]
          /\ UNCHANGED <<items, home, conn, pc>>
      BY <1>2 DEF bind, loopVars
    <2>2. /\ carrier'[b] = c /\ chBridge'[c] = b /\ ch'[c] = "bound" /\ conn[b] # "unused"
          /\ \A d \in Bridge : d # b => carrier'[d] = carrier[d]
          /\ \A k \in Channel : k # c => chBridge'[k] = chBridge[k] /\ ch'[k] = ch[k]
      BY <2>1 DEF Types, Fresh
    <2>3. ASSUME NEW d \in Bridge PROVE Known(d)' /\ HeldAt(d)'
      <3>1. Known(d) /\ HeldAt(d)
        BY DEF HeldInv
      <3>2. (conn[d] = "open" => d \in items \/ TornDown(home[d]))'
        BY <2>1, <3>1 DEF HeldAt, TornDown
      <3>3. CASE d = b
        BY <2>1, <2>2, <3>1, <3>2, <3>3 DEF Known, HeldAt, Carried
      <3>4. CASE d # b
        BY <2>1, <2>2, <3>1, <3>2, <3>4, NoneAssumption DEF Known, HeldAt, Carried
      <3> QED
        BY <3>3, <3>4
    <2> QED
      BY <2>3 DEF HeldInv
  <1>3. ASSUME NEW c \in Channel, ChannelReadFails(c) \/ ChannelWriteFails(c) PROVE HeldInv'
    <2>1. /\ ch[c] = "bound" /\ ch' = [ch EXCEPT ![c] = "ending"]
          /\ UNCHANGED <<items, home, carrier, chBridge, pc>>
          /\ \/ UNCHANGED conn
             \/ chBridge[c] \in items /\ conn' = [conn EXCEPT ![chBridge[c]] = "closed"]
      BY <1>3 DEF ChannelReadFails, ChannelWriteFails, setVars, loopVars
    <2>2. \A k \in Channel : Carried(k) => Carried(k)'
      BY <2>1 DEF Carried, Types
    <2>3. Closes
      BY <2>1 DEF Closes, Types, Fresh
    <2>4. \A d \in items' : carrier[d] # None /\ Carried(carrier[d]) => Carried(carrier[d])'
      BY <2>1, <2>2 DEF HeldInv, Known, Types, Carried
    <2> QED
      BY <2>1, <2>3, <2>4, ClosingHeld DEF TornDown
  <1>4. ASSUME NEW c \in Channel, ChannelEnds(c) PROVE HeldInv'
    <2>1. /\ TakeAndClose(chBridge[c]) \/ (chBridge[c] \notin items /\ UNCHANGED <<items, conn>>)
          /\ ch' = [ch EXCEPT ![c] = "done"] /\ UNCHANGED <<home, carrier, chBridge, pc>>
      BY <1>4 DEF ChannelEnds, loopVars
    <2>2. Closes /\ chBridge[c] \notin items' /\ \A d \in items \ items' : conn'[d] # "open"
      BY <2>1, TakeEffect DEF Closes
    <2>3. ASSUME NEW d \in items', carrier[d] # None, Carried(carrier[d])
          PROVE  Carried(carrier[d])'
      <3>1. d \in Bridge
        BY <2>2, <2>3 DEF Types, Closes
      <3>2. carrier[d] \in Channel /\ chBridge[carrier[d]] = d
        BY <2>3, <3>1 DEF HeldInv, Known
      <3>3. carrier[d] # c
        BY <2>2, <2>3, <3>2
      <3> QED
        BY <2>1, <2>3, <3>2, <3>3 DEF Carried, Types
    <2> QED
      BY <2>1, <2>2, <2>3, ClosingHeld DEF TornDown, Closes
  <1>5. CASE UpdaterStep
    <2>1. UNCHANGED <<items, conn, home, carrier, chBridge, ch, pc>>
      BY <1>5 DEF UpdaterStep, waitForIdleBridges, tryBeginUpdate, cancelUpdate, setVars, loopVars, chVars
    <2> QED
      BY <2>1, ClosingHeld DEF Closes, TornDown, Carried
  <1> QED
    BY <1>1, <1>2, <1>3, <1>4, <1>5 DEF ChannelStep

\* No connection is left without somebody who closes it, and no bridge with a
\* channel that nobody reads, whatever takes, binds and teardowns meet.
THEOREM ConnectionsOwned == Spec => []ConnectionsHeld
  <1>1. Init => HeldInv
    BY DEF Init, HeldInv, Known, HeldAt
  <1>2. IInv /\ HeldInv /\ [Next]_vars => HeldInv'
    <2>1. CASE UNCHANGED vars
      BY <2>1 DEF vars, setVars, loopVars, chVars, HeldInv, Known, HeldAt, TornDown, Carried
    <2> QED
      BY <2>1, FrameHeld, OthersHeld DEF IInv, Next
  <1>3. IInv /\ HeldInv => ConnectionsHeld
    BY DEF IInv, Types, HeldInv, HeldAt, TornDown, Carried, ConnectionsHeld, OpenConnectionsOwned,
           CarrierIsLive
  <1> QED
    BY Inductive, <1>1, <1>2, <1>3, PTL DEF Spec
=============================================================================
