----------------------------- MODULE RdpBridge ------------------------------
(***************************************************************************)
(* One RDP bridge (shellagent/rdp/rdp.go): runRDPBridge reads the          *)
(* RDCleanPath request of the browser, dials the RDP server, negotiates    *)
(* X.224 and TLS, falls back once to legacy TLS, answers, and relays with  *)
(* one goroutine for each direction.  The browser's end of the pipe and    *)
(* the server may go at any moment.  A chunk stands for what one io.Copy   *)
(* reads and writes.                                                       *)
(***************************************************************************)
EXTENDS Naturals, Sequences

CONSTANTS
  Base,      \* values of a byte, 256 in the code
  Chains,    \* lengths of certificate chains, in bytes
  MaxData    \* chunks that each end sends

ASSUME RdpAssumption == Base \in Nat /\ Base >= 4 /\ Chains \subseteq Nat /\ MaxData \in Nat

VARIABLES
  stage,        \* where runRDPBridge is
  asked,        \* the protocols that the browser's request offers
  offered,      \* the protocols of the last X.224 request to the server
  legacy,       \* legacy TLS is tried
  versionAlert, \* the server has rejected the protocol version
  sockets,      \* TCP connections to the server that are open
  answers,      \* what the browser has been answered
  uplink,       \* io.Copy(secure, client): at, and the chunk it holds
  downlink,     \* io.Copy(client, secure)
  ends,         \* of the browser and the server: gone; chunks sent and received
  refused       \* a chunk of the server found the browser gone

rdpVars == <<stage, asked, offered, legacy, versionAlert, sockets, answers, uplink, downlink,
             ends, refused>>
dialVars == <<asked, offered, legacy, versionAlert, sockets>>
relayVars == <<uplink, downlink, refused>>

Protocol == {"tls", "hybrid"}
Stopped == [at |-> "none", holds |-> 0]

\* Types of the bridge and of its two ends.
RdpTypeOK ==
  /\ stage \in {"request", "dial", "handshake", "respond", "error", "relay", "closed", "ended",
                "rejected"}
  /\ asked \subseteq Protocol /\ offered \subseteq Protocol
  /\ legacy \in BOOLEAN /\ versionAlert \in BOOLEAN /\ refused \in BOOLEAN
  /\ sockets \subseteq {1, 2} /\ Len(answers) <= 2
  /\ uplink \in [at : {"none", "read", "write", "ended"}, holds : 0 .. 1]
  /\ downlink \in [at : {"none", "read", "write", "ended"}, holds : 0 .. 1]
  /\ ends.browser \in BOOLEAN /\ ends.server \in BOOLEAN
  /\ ends.sentUp \in 0 .. MaxData /\ ends.sentDown \in 0 .. MaxData /\ ends.gotUp \in 0 .. MaxData

RdpInit ==
  /\ stage = "request" /\ asked = {} /\ offered = {} /\ legacy = FALSE /\ versionAlert = FALSE
  /\ sockets = {} /\ answers = <<>> /\ uplink = Stopped /\ downlink = Stopped /\ refused = FALSE
  /\ ends = [browser |-> FALSE, server |-> FALSE, sentUp |-> 0, sentDown |-> 0, gotUp |-> 0]

-----------------------------------------------------------------------------
\* Mutant: 128 still takes one byte.
EncodeLengthShort(n) ==
  IF n <= Base \div 2 THEN <<n>>
  ELSE IF n < Base THEN <<Base \div 2 + 1, n>>
  ELSE <<Base \div 2 + 2, (n \div Base) % Base, n % Base>>

\* DER lengths: one byte below 128, or a count and that many digits.
EncodeLength(n) ==
  IF n < Base \div 2 THEN <<n>>
  ELSE IF n < Base THEN <<Base \div 2 + 1, n>>
  ELSE <<Base \div 2 + 2, (n \div Base) % Base, n % Base>>

\* The digits behind the first byte, the loop of derLength.
Digits(bytes, count) ==
  LET value[i \in 0 .. count] == IF i = 0 THEN 0 ELSE value[i - 1] * Base + bytes[i + 1]
  IN  value[count]

DecodeLength(bytes) ==
  IF bytes[1] < Base \div 2 THEN bytes[1] ELSE Digits(bytes, bytes[1] - Base \div 2)

\* preferTLSOnlyRDPNegotiation.
PreferTLSOnly(protocols) == IF "tls" \in protocols THEN {"tls"} ELSE protocols

\* The browser sends its request; the token, the version and the target are
\* right, or the bridge is over without an answer.
ReadRequest(right, protocols) ==
  /\ stage = "request" /\ ~ends.browser
  /\ IF right THEN stage' = "dial" /\ asked' = protocols
              ELSE stage' = "rejected" /\ UNCHANGED asked
  /\ UNCHANGED <<offered, legacy, versionAlert, sockets, answers, relayVars, ends>>

RequestFails ==
  /\ stage = "request" /\ ends.browser /\ stage' = "rejected"
  /\ UNCHANGED <<dialVars, answers, relayVars, ends>>

\* dialRDPX224: the connection is closed again when X.224 fails.
Dials ==
  LET protocols == IF legacy THEN PreferTLSOnly(asked) ELSE asked IN
  /\ stage = "dial" /\ ~ends.server
  /\ stage' = "handshake" /\ offered' = protocols
  /\ sockets' = sockets \cup {IF legacy THEN 2 ELSE 1}
  /\ UNCHANGED <<asked, legacy, versionAlert, answers, relayVars, ends>>

\* Mutant: a second dial that fails ends the bridge silently.
DialFailsSilently ==
  /\ stage = "dial" /\ stage' = IF legacy THEN "ended" ELSE "error"
  /\ UNCHANGED <<dialVars, answers, relayVars, ends>>

DialFails ==
  /\ stage = "dial" /\ stage' = "error"
  /\ UNCHANGED <<dialVars, answers, relayVars, ends>>

HandshakeSucceeds ==
  /\ stage = "handshake" /\ ~ends.server /\ stage' = "respond"
  /\ UNCHANGED <<dialVars, answers, relayVars, ends>>

\* Mutant: every failure is taken for a version alert.
HandshakeFallsBack(alert) ==
  /\ stage = "handshake" /\ sockets' = {} /\ versionAlert' = (versionAlert \/ alert)
  /\ IF ~legacy THEN stage' = "dial" /\ legacy' = TRUE
                ELSE stage' = "error" /\ UNCHANGED legacy
  /\ UNCHANGED <<asked, offered, answers, relayVars, ends>>

\* Mutant: the connection of the legacy handshake is not closed.
HandshakeLeaks(alert) ==
  /\ stage = "handshake" /\ versionAlert' = (versionAlert \/ alert)
  /\ sockets' = IF legacy THEN sockets ELSE {}
  /\ IF alert /\ ~legacy THEN stage' = "dial" /\ legacy' = TRUE
                         ELSE stage' = "error" /\ UNCHANGED legacy
  /\ UNCHANGED <<asked, offered, answers, relayVars, ends>>

\* The handshake fails and its connection is closed; the first one that the
\* server rejects for its version is followed by a legacy one.
HandshakeFails(alert) ==
  /\ stage = "handshake" /\ sockets' = {} /\ versionAlert' = (versionAlert \/ alert)
  /\ IF alert /\ ~legacy THEN stage' = "dial" /\ legacy' = TRUE
                         ELSE stage' = "error" /\ UNCHANGED legacy
  /\ UNCHANGED <<asked, offered, answers, relayVars, ends>>

\* writeRdcCleanPathError; a browser that is gone is not told.
WritesError ==
  /\ stage = "error" /\ stage' = "ended"
  /\ answers' = IF ends.browser THEN answers ELSE Append(answers, [kind |-> "error"])
  /\ UNCHANGED <<dialVars, relayVars, ends>>

\* The answer with the server's certificates starts the relay.
Responds(chain) ==
  /\ stage = "respond"
  /\ IF ends.browser
       THEN stage' = "ended" /\ sockets' = {} /\ UNCHANGED <<answers, uplink, downlink>>
       ELSE /\ stage' = "relay" /\ UNCHANGED sockets
            /\ answers' = Append(answers, [kind |-> "response", chain |-> chain,
                                           length |-> EncodeLength(chain)])
            /\ uplink' = [Stopped EXCEPT !.at = "read"]
            /\ downlink' = [Stopped EXCEPT !.at = "read"]
  /\ UNCHANGED <<asked, offered, legacy, versionAlert, refused, ends>>

\* The browser sends a chunk, which the uplink reads, or closes its end.
BrowserSends ==
  /\ ~ends.browser /\ uplink.at = "read" /\ ends.sentUp < MaxData
  /\ ends' = [ends EXCEPT !.sentUp = @ + 1] /\ uplink' = [at |-> "write", holds |-> 1]
  /\ UNCHANGED <<stage, dialVars, answers, downlink, refused>>

BrowserGone ==
  /\ ~ends.browser /\ ends' = [ends EXCEPT !.browser = TRUE]
  /\ UNCHANGED <<stage, dialVars, answers, relayVars>>

\* The server sends a chunk, which the downlink reads, or closes.
ServerSends ==
  /\ ~ends.server /\ sockets # {} /\ downlink.at = "read" /\ ends.sentDown < MaxData
  /\ ends' = [ends EXCEPT !.sentDown = @ + 1] /\ downlink' = [at |-> "write", holds |-> 1]
  /\ UNCHANGED <<stage, dialVars, answers, uplink, refused>>

ServerGone ==
  /\ ~ends.server /\ ends' = [ends EXCEPT !.server = TRUE]
  /\ UNCHANGED <<stage, dialVars, answers, relayVars>>

\* Mutant: what the browser sent before it closed is dropped.
UplinkDrops ==
  /\ uplink.at = "write" /\ uplink' = [at |-> IF ends.browser THEN "ended" ELSE "read", holds |-> 0]
  /\ ends' = IF ends.browser THEN ends ELSE [ends EXCEPT !.gotUp = @ + 1]
  /\ UNCHANGED <<stage, dialVars, answers, downlink, refused>>

\* The server takes the chunk, or the connection is closed.
UplinkWrites ==
  /\ uplink.at = "write"
  /\ IF sockets = {} \/ ends.server
       THEN uplink' = [at |-> "ended", holds |-> 0] /\ UNCHANGED ends
       ELSE uplink' = [at |-> "read", holds |-> 0] /\ ends' = [ends EXCEPT !.gotUp = @ + 1]
  /\ UNCHANGED <<stage, dialVars, answers, downlink, refused>>

\* Only the browser's end makes the uplink's read return.
UplinkEnds ==
  /\ uplink.at = "read" /\ ends.browser /\ uplink' = [uplink EXCEPT !.at = "ended"]
  /\ UNCHANGED <<stage, dialVars, answers, downlink, refused, ends>>

DownlinkWrites ==
  /\ downlink.at = "write" /\ refused' = (refused \/ ends.browser)
  /\ downlink' = [at |-> IF ends.browser THEN "ended" ELSE "read", holds |-> 0]
  /\ UNCHANGED <<stage, dialVars, answers, uplink, ends>>

DownlinkEnds ==
  /\ downlink.at = "read" /\ (sockets = {} \/ ends.server)
  /\ downlink' = [downlink EXCEPT !.at = "ended"]
  /\ UNCHANGED <<stage, dialVars, answers, uplink, refused, ends>>

\* Mutant: the connection is closed when both directions are over.
FirstDoneWaits ==
  /\ stage = "relay" /\ uplink.at = "ended" /\ downlink.at = "ended"
  /\ stage' = "closed" /\ sockets' = {}
  /\ UNCHANGED <<asked, offered, legacy, versionAlert, answers, relayVars, ends>>

\* The first direction that is over closes the connection; the second ends
\* the bridge.
FirstDone ==
  /\ stage = "relay" /\ "ended" \in {uplink.at, downlink.at}
  /\ stage' = "closed" /\ sockets' = {}
  /\ UNCHANGED <<asked, offered, legacy, versionAlert, answers, relayVars, ends>>

SecondDone ==
  /\ stage = "closed" /\ uplink.at = "ended" /\ downlink.at = "ended" /\ stage' = "ended"
  /\ UNCHANGED <<dialVars, answers, relayVars, ends>>

RdpNext ==
  \/ \E right \in BOOLEAN, protocols \in SUBSET Protocol : ReadRequest(right, protocols)
  \/ RequestFails \/ Dials \/ DialFails \/ HandshakeSucceeds
  \/ \E alert \in BOOLEAN : HandshakeFails(alert)
  \/ WritesError \/ \E chain \in Chains : Responds(chain)
  \/ BrowserSends \/ BrowserGone \/ ServerSends \/ ServerGone
  \/ UplinkWrites \/ UplinkEnds \/ DownlinkWrites \/ DownlinkEnds \/ FirstDone \/ SecondDone

\* The uplink is in a write to a server that is connected: it has no deadline.
ServerOwesRead == uplink.at = "write" /\ sockets # {} /\ ~ends.server

\* The goroutines of the relay run.  A write returns when its other end is
\* closed; neither the server nor the browser owes a read.
RdpFairness ==
  /\ WF_rdpVars(~ServerOwesRead /\ UplinkWrites) /\ WF_rdpVars(UplinkEnds)
  /\ WF_rdpVars(ends.browser /\ DownlinkWrites) /\ WF_rdpVars(DownlinkEnds)
  /\ WF_rdpVars(FirstDone) /\ WF_rdpVars(SecondDone)

RdpSpec == RdpInit /\ [][RdpNext]_rdpVars /\ RdpFairness

\* However the bridge ends, no connection to the server stays open.
SocketsReleased == stage \in {"rejected", "ended"} => sockets = {}

\* A request that is accepted is answered once, and a failure inside the
\* protocol: only a browser that is gone is not told.
OneAnswer ==
  /\ Len(answers) <= 1
  /\ stage = "ended" /\ ~ends.browser => Len(answers) = 1

\* TLS below 1.2 is spoken only to a server that has rejected the version,
\* and the retry never offers CredSSP beside TLS.
LegacyAfterAlert ==
  legacy => versionAlert /\ (sockets = {2} /\ "tls" \in asked => offered = {"tls"})

\* The browser reads the certificate chain at the length that was written, up
\* to the two digits that the encoder has.
ChainReadable ==
  \A i \in DOMAIN answers :
    answers[i].kind = "response" /\ answers[i].chain < Base * Base =>
      DecodeLength(answers[i].length) = answers[i].chain

\* What the browser sent before it closed reaches a server that stays, unless
\* a chunk of the server was in the way.
UplinkDelivered ==
  stage = "ended" /\ ~ends.server /\ ~refused => ends.gotUp = ends.sentUp

\* However a bridge ends: nothing stays open, the browser was told once and
\* truly, TLS was not weakened for nothing, and no upstream byte was dropped.
RdpSafe ==
  RdpTypeOK /\ SocketsReleased /\ OneAnswer /\ LegacyAfterAlert /\ ChainReadable /\ UplinkDelivered

\* A relay whose browser is gone ends, but for one whose server stays connected
\* and never reads the last chunk.
BridgeEnds == []<>(ends.browser /\ stage \in {"relay", "closed"} => ServerOwesRead)
=============================================================================
