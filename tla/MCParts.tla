------------------------------ MODULE MCParts -------------------------------
(***************************************************************************)
(* Seven parts that share no state, for TLC: the sessions of direct peers  *)
(* and one peer, bridge datagrams, the presentation helper, drafts,        *)
(* publishing and the node toolchain.  focus is the part whose behaviours  *)
(* are explored; the others stay in one initial state.                     *)
(***************************************************************************)
EXTENDS Ice, IcePeer, Datagrams, Presentation, Drafts, Publish, NodeRuntime, TLC

VARIABLE focus

\* The project to publish, which has no version.json yet.
ProjectFiles == Named \ {"version.json"}
Part == {"ice", "peer", "datagrams", "presentation", "drafts", "publish", "node"}

Init ==
  /\ focus \in Part
  /\ IceInit /\ (focus = "ice" \/ ~iceCfg.relay)
  /\ IcePeerInit /\ DatagramsInit /\ PresentationInit
  /\ DraftsInit
  /\ PublishInit /\ \A f \in Named : tree[f] # Absent <=> f \in ProjectFiles
  /\ NodeRuntimeInit /\ (focus = "node" \/ nodeDirs = {})

Next ==
  /\ focus' = focus
  /\ \/ focus = "ice" /\ IceNext
     \/ focus # "ice" /\ UNCHANGED iceVars
  /\ \/ focus = "peer" /\ IcePeerNext
     \/ focus # "peer" /\ UNCHANGED peerVars
  /\ \/ focus = "datagrams" /\ DatagramsNext
     \/ focus # "datagrams" /\ UNCHANGED datagramVars
  /\ \/ focus = "presentation" /\ PresentationNext
     \/ focus # "presentation" /\ UNCHANGED presentVars
  /\ \/ focus = "drafts" /\ DraftsNext
     \/ focus # "drafts" /\ UNCHANGED draftVars
  /\ \/ focus = "publish" /\ PublishNext
     \/ focus # "publish" /\ UNCHANGED publishVars
  /\ \/ focus = "node" /\ NodeRuntimeNext
     \/ focus # "node" /\ UNCHANGED nodeVars

\* What was given to somebody else is not taken back: candidates that Dyner
\* has, versions that were published, sources that the user edited,
\* directories that are on the PATH (iceCandidateTrickler, publishApp,
\* openAppDraft, hydrateExecutablePath).
NothingTakenBack ==
  [][CandidatesAppendOnly /\ NoVersionTwice /\ EditsKept /\ PathKept
    ]_<<peerVars, publishVars, draftVars, nodeVars>>

\* The tabs and the openers of drafts are one set.
Symm == Permutations(IceTab) \cup Permutations(IceEnv)

\* Two spellings of one shortcut, and another.
Spellings == ("A" :> "k1") @@ ("a" :> "k1") @@ ("B" :> "k2")

\* PATH lists and release indexes of the node toolchain.
InheritedPath == <<"sys", "extra">>
LoginPath == <<"login", "sys">>
ExtraDirs == <<"extra", "local">>
Release(v, lts, built) == [version |-> v, lts |-> lts, built |-> built]
NodeIndexes ==
  {<<Release(3, FALSE, TRUE), Release(2, TRUE, TRUE), Release(1, TRUE, TRUE)>>,
   <<Release(2, TRUE, FALSE)>>}
=============================================================================
