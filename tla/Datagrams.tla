----------------------------- MODULE Datagrams ------------------------------
(***************************************************************************)
(* Datagrams of a bridge (shellagent/network_bridge.go): a body is split   *)
(* into frames, the carrier loses, duplicates and reorders them, the agent *)
(* assembles them.  And the two splitting codecs on their own: the         *)
(* datagram frames and the fragments of a large WebRTC message (ice.go).   *)
(*                                                                         *)
(* A body is a sequence; its elements say which message they are from.     *)
(* The sizes are small constants, the arithmetic is the code's.            *)
(***************************************************************************)
EXTENDS Naturals, Sequences, FiniteSets, SequencesExt

CONSTANTS
  FrameBytes,    \* bridgeDatagramBytes, also webRTCFragmentThreshold here
  HeaderBytes,   \* bridgeDatagramHeaderBytes
  MaxBody,       \* 65535
  MaxCount,      \* the fragments that decodeBridgeDatagram accepts, 128
  IdBytes,       \* length of the ids that the agent gives to bridges
  MaxPending,    \* maxPendingBridgeDatagrams
  MaxMessages    \* messages that the browser sends

ASSUME DatagramsAssumption ==
  /\ {FrameBytes, HeaderBytes, MaxBody, MaxCount, IdBytes, MaxPending, MaxMessages} \subseteq Nat
  /\ IdBytes > 0 /\ HeaderBytes + IdBytes < FrameBytes /\ MaxPending > 0
  /\ MaxCount > 0 /\ MaxBody <= MaxCount * (FrameBytes - HeaderBytes - IdBytes)

-----------------------------------------------------------------------------
(* The codecs *)

\* Mutant: rounded down.
FloorDiv(n, size) == n \div size

CeilDiv(n, size) == (n + size - 1) \div size

\* The i-th of the pieces of at most size elements.
Piece(body, size, i) ==
  SubSeq(body, (i - 1) * size + 1, IF i * size < Len(body) THEN i * size ELSE Len(body))

Pieces(body, size, count) == [i \in 1 .. count |-> Piece(body, size, i)]

\* encodeBridgeDatagrams: the frames without their headers, or none.
EncodeBridgeDatagrams(idBytes, body) ==
  LET size == FrameBytes - HeaderBytes - idBytes
      count == IF body = <<>> THEN 1 ELSE CeilDiv(Len(body), size)
  IN IF idBytes = 0 \/ Len(body) > MaxBody \/ idBytes + HeaderBytes >= FrameBytes
     THEN <<>> ELSE Pieces(body, size, count)

\* decodeBridgeDatagram: the frame is accepted.
Decodes(idBytes, piece, i, count) ==
  /\ HeaderBytes + idBytes + Len(piece) <= FrameBytes
  /\ 0 < count /\ count <= MaxCount /\ i <= count /\ idBytes > 0

\* webRTCFragments, for a payload above the threshold.
WebRTCFragments(payload) ==
  LET count == CeilDiv(Len(payload), FrameBytes) IN Pieces(payload, FrameBytes, count)

-----------------------------------------------------------------------------
(* The carrier and the assembly *)

VARIABLES
  sent,      \* the bodies that the browser sent, in order
  frame,     \* frames on the carrier
  pending,   \* handleBridgeDatagrams: assemblies, the least recent first
  expired,   \* how many of them are older than two seconds
  mode,      \* delivery of the bridge: "datagram", "stream" or "closed"
  written    \* bodies written to the bridge's connection

datagramVars == <<sent, frame, pending, expired, mode, written>>

FragmentBytes == FrameBytes - HeaderBytes - IdBytes
Lengths == {1, FragmentBytes, FragmentBytes + 1}
Body(m, n) == [i \in 1 .. n |-> <<m, i>>]
FrameType == [message : 1 .. MaxMessages, index : 1 .. MaxCount, count : 1 .. MaxCount]
Missing == <<>>

\* Types of the variables; no more assemblies than the limit are kept.
DatagramsTypeOK ==
  /\ Len(sent) <= MaxMessages
  /\ frame \subseteq FrameType
  /\ Len(pending) <= MaxPending /\ expired \in 0 .. Len(pending)
  /\ \A k \in DOMAIN pending : pending[k].message \in 1 .. Len(sent)
  /\ mode \in {"datagram", "stream", "closed"}

DatagramsInit ==
  /\ sent = <<>> /\ frame = {} /\ pending = <<>> /\ expired = 0
  /\ mode = "datagram" /\ written = {}

\* The browser encodes as the agent does; the counter is the message's id.
BrowserSends(n) ==
  LET m == Len(sent) + 1
      count == Len(EncodeBridgeDatagrams(IdBytes, Body(m, n)))
  IN /\ m <= MaxMessages /\ sent' = Append(sent, Body(m, n))
     /\ frame' = frame \cup {[message |-> m, index |-> i, count |-> count] : i \in 1 .. count}
     /\ UNCHANGED <<pending, expired, mode, written>>

Lost(f) == f \in frame /\ frame' = frame \ {f} /\ UNCHANGED <<sent, pending, expired, mode, written>>

Ages ==
  /\ expired < Len(pending) /\ expired' = expired + 1
  /\ UNCHANGED <<sent, frame, pending, mode, written>>

\* bindDatagrams, a reliable channel, or the end of the bridge.
ModeChanges ==
  /\ mode' \in {"stream", "closed"} /\ mode # "closed" /\ mode' # mode
  /\ UNCHANGED <<sent, frame, pending, expired, written>>

Payload(f) == Piece(sent[f.message], FragmentBytes, f.index)

\* The assembly of f's message among P, or a new one.
Assembly(P, f) ==
  LET found == {k \in DOMAIN P : P[k].message = f.message /\ Len(P[k].parts) = f.count}
  IN IF found = {} THEN [message |-> f.message, parts |-> [i \in 1 .. f.count |-> Missing]]
     ELSE P[CHOOSE k \in found : TRUE]

\* delete(pending, key): the assembly of f's message leaves P.
DeleteKey(P, f) ==
  LET keyed == {k \in DOMAIN P : P[k].message = f.message}
  IN IF keyed = {} THEN P ELSE RemoveAt(P, CHOOSE k \in keyed : TRUE)

\* Mutant: a full table is left full.
KeepAll(P, f) == DeleteKey(P, f)

\* The other assemblies; the oldest goes when a new one needs its place.
Others(P, f) ==
  LET other == DeleteKey(P, f)
  IN IF Len(other) = MaxPending THEN Tail(other) ELSE other

\* Mutant: the last fragment completes the message.
CompleteLast(parts) == parts[Len(parts)] # Missing

Complete(parts) == \A i \in DOMAIN parts : parts[i] # Missing

\* decodeCompleteBridgeDatagram: a body is complete when no part is missing.
\* The frame may be delivered again: the carrier keeps it.
Receives(f) ==
  LET fresh == SubSeq(pending, expired + 1, Len(pending))
      grown == [Assembly(fresh, f) EXCEPT !.parts[f.index] = Payload(f)]
      body == IF f.count = 1 THEN Payload(f) ELSE FlattenSeq(grown.parts)
      done == f.count = 1 \/ Complete(grown.parts)
  IN /\ f \in frame /\ Decodes(IdBytes, Payload(f), f.index, f.count)
     /\ IF f.count = 1 THEN UNCHANGED <<pending, expired>>
        ELSE /\ pending' = IF done THEN DeleteKey(fresh, f)
                           ELSE Append(Others(fresh, f), grown)
             /\ expired' = 0
     /\ written' = IF done /\ Len(body) <= MaxBody /\ mode = "datagram" THEN written \cup {body} ELSE written
     /\ UNCHANGED <<sent, frame, mode>>

DatagramsNext ==
  \/ \E n \in Lengths : BrowserSends(n)
  \/ \E f \in frame : Lost(f) \/ Receives(f)
  \/ Ages \/ ModeChanges

DatagramsSpec == DatagramsInit /\ [][DatagramsNext]_datagramVars

-----------------------------------------------------------------------------
(* Properties *)

\* What reaches the bridge's connection is a body that the browser sent,
\* whole and in order: fragments of different messages are never mixed and
\* none is missing, whatever the carrier loses, repeats or reorders and
\* whichever assemblies are dropped for age or for room.
BodiesIntact == written \subseteq Range(sent)

\* Every body up to the limit survives the split, boundary lengths included:
\* the frames are within the size of the carrier, the decoder accepts each of
\* them, and together they are the body (encode- and decodeBridgeDatagram).
DatagramRoundTrip ==
  \A n \in 0 .. MaxBody :
    LET body == Body(0, n)
        frames == EncodeBridgeDatagrams(IdBytes, body)
    IN /\ FlattenSeq(frames) = body
       /\ \A i \in DOMAIN frames :
            Decodes(IdBytes, frames[i], i, Len(frames)) /\ (frames[i] = <<>> => Len(frames) = 1)

\* The same for a WebRTC message above the threshold; every fragment but the
\* last is full, so a count of one never occurs (webRTCFragments).
WebRTCRoundTrip ==
  \A n \in FrameBytes + 1 .. MaxBody :
    LET frames == WebRTCFragments(Body(0, n))
    IN /\ FlattenSeq(frames) = Body(0, n) /\ Len(frames) > 1
       /\ \A i \in DOMAIN frames : Len(frames[i]) \in 1 .. FrameBytes

\* What is put together is what was split, through the carrier and in the two
\* codecs alone.
DatagramsSafe == DatagramsTypeOK /\ BodiesIntact /\ DatagramRoundTrip /\ WebRTCRoundTrip
=============================================================================
