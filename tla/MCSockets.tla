----------------------------- MODULE MCSockets ------------------------------
(***************************************************************************)
(* Eight parts that share no state, for TLC: a direct peer, the frame loop *)
(* with its processes, the open queue, the native apps, the presentation   *)
(* helper, the agent sessions, the native platform host and an RDP bridge. *)
(* focus is the part whose behaviours are explored; the others stay in one *)
(* initial state, where none of their fair actions is enabled.             *)
(***************************************************************************)
EXTENDS IcePeer, Sessions, ExternalOpen, NativeApps, Presentation, AgentSessions, Platform,
        RdpBridge

VARIABLE focus

Part == {"peer", "sessions", "opens", "native", "presentation", "agents", "platform", "rdp"}

Init ==
  /\ focus \in Part
  /\ IcePeerInit /\ SessionsInit /\ ExternalOpenInit /\ PresentationInit /\ PlatformInit
  /\ RdpInit
  /\ NativeInit /\ manifest = Perm \ {Manage} /\ (focus = "native" \/ ~catalog)
  /\ AgentSessionsInit /\ (focus = "agents" \/ \A i \in Ids : kind[i] = "codex")

Next ==
  /\ focus' = focus
  /\ \/ focus = "peer" /\ IcePeerNext
     \/ focus # "peer" /\ UNCHANGED peerVars
  /\ \/ focus = "sessions" /\ SessionsNext
     \/ focus # "sessions" /\ UNCHANGED sessionVars
  /\ \/ focus = "opens" /\ ExternalOpenNext
     \/ focus # "opens" /\ UNCHANGED openVars
  /\ \/ focus = "native" /\ NativeNext
     \/ focus # "native" /\ UNCHANGED nativeVars
  /\ \/ focus = "presentation" /\ PresentationNext
     \/ focus # "presentation" /\ UNCHANGED presentVars
  /\ \/ focus = "agents" /\ AgentSessionsNext
     \/ focus # "agents" /\ UNCHANGED agentVars
  /\ \/ focus = "platform" /\ PlatformNext
     \/ focus # "platform" /\ UNCHANGED platformVars
  /\ \/ focus = "rdp" /\ RdpNext
     \/ focus # "rdp" /\ UNCHANGED rdpVars

vars == <<focus, peerVars, sessionVars, openVars, nativeVars, presentVars, agentVars, platformVars,
          rdpVars>>

Spec ==
  /\ Init /\ [][Next]_vars
  /\ IcePeerFairness /\ SessionsFairness /\ ExternalOpenFairness /\ NativeFairness
  /\ PresentationFairness /\ AgentSessionsFairness /\ PlatformFairness /\ RdpFairness

\* When a socket, a peer, a child or a browser has gone, what served it ends:
\* peers and their goroutines, processes, helpers, agent sessions and bridges
\* (answerICESession, Set.CloseAll, closePresentations, agentService.closeAll,
\* runRDPBridge).
SocketsUnwind ==
  /\ PeerEnds /\ TeardownReaps /\ HelperReleased
  /\ EndedSessionsCleaned /\ SessionsReaped /\ BridgeEnds

\* Whoever waits for an answer gets one, or an error: the library's callback,
\* the frame loop that called a helper, the caller of a platform host that is
\* gone, the connections that share a prompt, the app that takes its opens.
WaitersAnswered ==
  /\ CallbackReturns /\ RequestReturns /\ CallsFailFast
  /\ ConnectionSettles /\ QueuedOpensGiven

\* Two spellings of one shortcut, and another.
Spellings == ("A" :> "k1") @@ ("a" :> "k1") @@ ("B" :> "k2")
=============================================================================
