-------------------------- MODULE SelfUpdateProofs --------------------------
(* Theorems about the self-updater (SelfUpdate), for every number of       *)
(* releases, helpers and faults.                                           *)
EXTENDS SelfUpdate, TLAPS

-----------------------------------------------------------------------------
(* The inductive invariant *)

\* The steps of a check before an attempt is recorded, and those of a hand-over
\* to a helper.
Checking == {"stage", "wait", "begin", "verify", "record"}
Handing == {"grace", "shutdown", "handoff", "inert"}

\* The updater belongs to a running process; what it installs is a release
\* that it found newer.
Control ==
  /\ proc = 0 <=> upc = "down"
  /\ rel = 0 <=> upc \in {"down", "idle", "inert"}
  /\ rel # 0 => proc < rel
  /\ upc = "exec" => ~serviceMode
  /\ upc \in {"grace", "handoff", "inert"} => serviceMode

\* Nothing is newer than the latest release, nor than the one that a running
\* check found.
Bounded(n) == n <= latest /\ (rel # 0 => n <= rel)
Released ==
  /\ Bounded(rel) /\ Bounded(installed) /\ Bounded(newest)
  /\ \A h \in Helper : Bounded(prepared[h]) /\ Bounded(backup[h])

\* There is one prepared executable at most, and nothing newer; one helper at
\* most has moved the installed one aside; what can be started, again or
\* anew, is no older than what has run.
Newer(h) ==
  /\ installed <= prepared[h] /\ newest <= prepared[h]
  /\ \A g \in Helper : backup[g] <= prepared[h] /\ (prepared[g] # 0 => g = h)
Aside(h) ==
  /\ installed = 0 /\ (backup[h] # 0 => newest <= backup[h])
  /\ \A g \in Helper : hpc[g] = "moved" => g = h
Kept ==
  /\ \A h \in Helper : prepared[h] # 0 => Newer(h)
  /\ \A h \in Helper : hpc[h] = "moved" => Aside(h)
  /\ installed # 0 => newest <= installed
  /\ proc # 0 => proc = newest

\* The recorded attempt is not what runs, and the one that a check is about to
\* record is not a recent one.
Attempts ==
  /\ proc # 0 => attempt.v # proc
  /\ upc \in Checking => attempt.v # rel \/ attempt.age = Backoff

\* A helper of the running process came with its hand-over, in a service.
Parents ==
  /\ \A h \in Helper : parent[h] => /\ upc \in Handing
                                    /\ \A g \in Helper : parent[g] => g = h
  /\ \A h \in Helper : parent[h] \/ hpc[h] # "gone" => serviceMode

\* Unless the agent crashed: one helper works at a time, for a process that
\* runs, or after it has stopped it for good; one that has moved the
\* executable aside can put it back.
Alone(h) ==
  /\ parent[h] \/ (proc = 0 /\ manager = "unloaded" /\ hpc[h] # "stop")
  /\ \A g \in Helper : hpc[g] # "gone" => g = h
Undisturbed ==
  "crash" \notin happened =>
    /\ \A h \in Helper : hpc[h] # "gone" => Alone(h)
    /\ \A h \in Helper : hpc[h] \in {"moved", "replaced"} => ~parent[h]
    /\ \A h \in Helper : hpc[h] = "moved" => backup[h] # 0

UpdateInv ==
  /\ TypeOK /\ Control /\ Released /\ Kept /\ Attempts /\ Parents /\ Undisturbed
  /\ InstalledOrReplacing

-----------------------------------------------------------------------------
(* Types, in parts *)

Flags == active \in BOOLEAN /\ pending \in BOOLEAN /\ force \in BOOLEAN
ProcessTypes ==
  /\ proc \in Version \cup {0} /\ manager \in {"loaded", "unloaded", "foreground"}
  /\ upc \in {"down", "idle", "stage", "wait", "begin", "verify", "record", "apply",
              "grace", "shutdown", "handoff", "exec", "inert"}
  /\ rel \in Version \cup {0}
FileTypes ==
  /\ latest \in Version /\ installed \in Version \cup {0} /\ newest \in Version
  /\ staged \in [Version -> {"none", "good", "bad"}]
AgeTypes == attempt \in [v : Version \cup {0}, age : 0 .. Backoff] /\ deferred \in 0 .. NotDeferred
HelperTypes ==
  /\ hpc \in [Helper -> {"gone", "stop", "wait", "moved", "replaced"}]
  /\ parent \in [Helper -> BOOLEAN]
  /\ prepared \in [Helper -> Version \cup {0}] /\ backup \in [Helper -> Version \cup {0}]
FaultTypes == faults \in 0 .. MaxFaults /\ happened \subseteq FaultKind

\* The types, by what each action changes.
LEMMA Types ==
  TypeOK <=> Flags /\ ProcessTypes /\ FileTypes /\ AgeTypes /\ HelperTypes /\ FaultTypes
  BY DEF TypeOK, Flags, ProcessTypes, FileTypes, AgeTypes, HelperTypes, FaultTypes

\* Faults that happened are remembered.
LEMMA FaultsKept ==
  ASSUME FaultTypes, UNCHANGED faultVars \/ \E kind \in FaultKind : Fault(kind)
  PROVE  FaultTypes' /\ happened \subseteq happened'
<1>1. CASE UNCHANGED faultVars
  BY <1>1 DEF faultVars, FaultTypes
<1>2. ASSUME NEW kind \in FaultKind, Fault(kind) PROVE FaultTypes' /\ happened \subseteq happened'
  <2>1. MaxFaults \in Nat /\ faults > 0 /\ faults' = faults - 1 /\ happened' = happened \cup {kind}
    BY <1>2, FaultAssumption DEF Fault
  <2> HIDE DEF FaultKind
  <2>2. faults' \in 0 .. MaxFaults
    BY <2>1 DEF FaultTypes
  <2>3. happened' \subseteq FaultKind
    BY <1>2, <2>1 DEF FaultTypes
  <2> QED
    BY <2>1, <2>2, <2>3 DEF FaultTypes
<1> QED
  BY <1>1, <1>2

-----------------------------------------------------------------------------
\* A release appears; time passes; nothing happens.
LEMMA TimeKeep ==
  ASSUME UpdateInv,
         Publish \/ Tick \/ UNCHANGED vars
  PROVE  UpdateInv'
<1> USE DEF Fault, Goto, Idles, cancelUpdate, Dies, procVars, helperVars, faultVars, serviceMode,
        NoAttempt, NotDeferred, Older, vars
<1>1. /\ Flags /\ ProcessTypes /\ FileTypes /\ AgeTypes /\ HelperTypes /\ FaultTypes
      /\ Control /\ Released /\ Kept /\ Attempts /\ Parents /\ Undisturbed
      /\ InstalledOrReplacing /\ TypeOK
  BY Types DEF UpdateInv
<1>2. Flags'
  BY <1>1 DEF Flags, Publish, Tick
<1>3. ProcessTypes'
  BY <1>1, VersionAssumption DEF ProcessTypes, FileTypes, HelperTypes, Version, Publish,
     Tick
<1>4. FileTypes'
  BY <1>1, VersionAssumption DEF ProcessTypes, FileTypes, HelperTypes, Version, Publish,
     Tick
<1>5. AgeTypes'
  <2>1. CASE Publish
    BY <1>1, <2>1, VersionAssumption, TimeAssumption DEF AgeTypes, ProcessTypes,
       FileTypes, Version, Publish
  <2>2. CASE Tick
    <3>1. /\ attempt \in [v : Version \cup {0}, age : 0 .. Backoff] /\ deferred \in 0 .. NotDeferred
          /\ attempt' = [attempt EXCEPT !.age = Older(@, Backoff)]
          /\ deferred' \in {deferred, Older(deferred, Delay)}
      BY <1>1, <2>2 DEF AgeTypes, Tick
    <3>2. /\ Older(attempt.age, Backoff) \in 0 .. Backoff
          /\ Older(deferred, Delay) \in 0 .. NotDeferred
      BY <3>1, TimeAssumption
    <3> HIDE DEF Older, Version, NotDeferred
    <3> QED
      BY <3>1, <3>2 DEF AgeTypes
  <2>3. CASE UNCHANGED vars
    BY <1>1, <2>3, VersionAssumption, TimeAssumption DEF AgeTypes, ProcessTypes,
       FileTypes, Version
  <2> QED
    BY <2>1, <2>2, <2>3
<1>6. HelperTypes'
  BY <1>1, VersionAssumption DEF HelperTypes, ProcessTypes, FileTypes, Version, Publish,
     Tick
<1>7. FaultTypes'
  BY <1>1, FaultsKept DEF FaultKind, Publish, Tick
<1>8. TypeOK'
  BY <1>2, <1>3, <1>4, <1>5, <1>6, <1>7 DEF TypeOK, Flags, ProcessTypes, FileTypes,
     AgeTypes, HelperTypes, FaultTypes
<1>9. Control'
  BY <1>1, VersionAssumption, TimeAssumption DEF TypeOK, Version, Control, Parents, Handing,
     Publish, Tick
<1>10. Released'
  <2>1. CASE Publish
    BY <1>1, <2>1, VersionAssumption DEF TypeOK, Version, Control, Released, Bounded,
       Publish
  <2>2. CASE Tick
    BY <1>1, <2>2, VersionAssumption DEF TypeOK, Version, Control, Released, Bounded, Tick
  <2>3. CASE UNCHANGED vars
    BY <1>1, <2>3, VersionAssumption DEF TypeOK, Version, Control, Released, Bounded
  <2> QED
    BY <2>1, <2>2, <2>3
<1>11. Kept'
  BY <1>1, VersionAssumption, TimeAssumption DEF TypeOK, Version, Control, Released,
     Bounded, Kept, Newer, Aside, Parents, Publish, Tick
<1>12. Attempts'
  BY <1>1, VersionAssumption, TimeAssumption DEF TypeOK, Version, Control, Attempts,
     Checking, recentUpdateAttempt, Publish, Tick
<1>13. Parents'
  BY <1>1, VersionAssumption, TimeAssumption DEF TypeOK, Control, Parents, Handing, Publish,
     Tick
<1>14. Undisturbed'
  BY <1>1, VersionAssumption, TimeAssumption DEF TypeOK, Control, Parents, Undisturbed,
     Alone, Handing, Publish, Tick
<1>15. InstalledOrReplacing'
  BY <1>1, VersionAssumption, TimeAssumption DEF TypeOK, Version, Kept, Aside, Undisturbed,
     InstalledOrReplacing, Publish, Tick
<1> QED
  BY <1>8, <1>9, <1>10, <1>11, <1>12, <1>13, <1>14, <1>15 DEF UpdateInv

-----------------------------------------------------------------------------
\* Bridges come and go and staged files are damaged.
LEMMA OutsideKeep ==
  ASSUME UpdateInv,
         BridgeOpens \/ BridgeCloses \/ \E v \in Version : StagedDamaged(v)
  PROVE  UpdateInv'
<1> USE DEF Fault, Goto, Idles, cancelUpdate, Dies, procVars, helperVars, faultVars, serviceMode,
        NoAttempt, NotDeferred, Older
<1>1. /\ Flags /\ ProcessTypes /\ FileTypes /\ AgeTypes /\ HelperTypes /\ FaultTypes
      /\ Control /\ Released /\ Kept /\ Attempts /\ Parents /\ Undisturbed
      /\ InstalledOrReplacing /\ TypeOK
  BY Types DEF UpdateInv
<1>2. Flags'
  BY <1>1 DEF Flags, BridgeOpens, BridgeCloses, StagedDamaged
<1>3. ProcessTypes'
  BY <1>1, VersionAssumption DEF ProcessTypes, FileTypes, HelperTypes, Version, BridgeOpens,
     BridgeCloses, StagedDamaged
<1>4. FileTypes'
  BY <1>1, VersionAssumption DEF ProcessTypes, FileTypes, HelperTypes, Version, BridgeOpens,
     BridgeCloses, StagedDamaged
<1>5. AgeTypes'
  BY <1>1, VersionAssumption, TimeAssumption DEF AgeTypes, ProcessTypes, FileTypes, Version,
     BridgeOpens, BridgeCloses, StagedDamaged
<1>6. HelperTypes'
  BY <1>1, VersionAssumption DEF HelperTypes, ProcessTypes, FileTypes, Version, BridgeOpens,
     BridgeCloses, StagedDamaged
<1>7. FaultTypes'
  BY <1>1, FaultsKept DEF FaultKind, BridgeOpens, BridgeCloses, StagedDamaged
<1>8. TypeOK'
  BY <1>2, <1>3, <1>4, <1>5, <1>6, <1>7 DEF TypeOK, Flags, ProcessTypes, FileTypes,
     AgeTypes, HelperTypes, FaultTypes
<1>9. Control'
  BY <1>1, VersionAssumption, TimeAssumption DEF TypeOK, Version, Control, Parents, Handing,
     BridgeOpens, BridgeCloses, StagedDamaged
<1>10. Released'
  BY <1>1, VersionAssumption, TimeAssumption DEF TypeOK, Version, Control, Released,
     Bounded, BridgeOpens, BridgeCloses, StagedDamaged
<1>11. Kept'
  BY <1>1, VersionAssumption, TimeAssumption DEF TypeOK, Version, Control, Released,
     Bounded, Kept, Newer, Aside, Parents, BridgeOpens, BridgeCloses, StagedDamaged
<1>12. Attempts'
  BY <1>1, VersionAssumption, TimeAssumption DEF TypeOK, Version, Control, Attempts,
     Checking, recentUpdateAttempt, BridgeOpens, BridgeCloses, StagedDamaged
<1>13. Parents'
  BY <1>1, VersionAssumption, TimeAssumption DEF TypeOK, Control, Parents, Handing,
     BridgeOpens, BridgeCloses, StagedDamaged
<1>14. Undisturbed'
  BY <1>1, VersionAssumption, TimeAssumption DEF TypeOK, Control, Parents, Undisturbed,
     Alone, Handing, BridgeOpens, BridgeCloses, StagedDamaged
<1>15. InstalledOrReplacing'
  BY <1>1, VersionAssumption, TimeAssumption DEF TypeOK, Version, Kept, Aside, Undisturbed,
     InstalledOrReplacing, BridgeOpens, BridgeCloses, StagedDamaged
<1> QED
  BY <1>8, <1>9, <1>10, <1>11, <1>12, <1>13, <1>14, <1>15 DEF UpdateInv

-----------------------------------------------------------------------------
\* The process starts and crashes.
LEMMA ProcessKeep ==
  ASSUME UpdateInv,
         startSelfUpdater \/ Crash
  PROVE  UpdateInv'
<1> USE DEF Fault, Goto, Idles, cancelUpdate, Dies, procVars, helperVars, faultVars, serviceMode,
        NoAttempt, NotDeferred, Older
<1>1. /\ Flags /\ ProcessTypes /\ FileTypes /\ AgeTypes /\ HelperTypes /\ FaultTypes
      /\ Control /\ Released /\ Kept /\ Attempts /\ Parents /\ Undisturbed
      /\ InstalledOrReplacing /\ TypeOK
  BY Types DEF UpdateInv
<1>2. Flags'
  BY <1>1 DEF Flags, startSelfUpdater, Crash
<1>3. ProcessTypes'
  BY <1>1, VersionAssumption DEF ProcessTypes, FileTypes, HelperTypes, Version,
     startSelfUpdater, Crash
<1>4. FileTypes'
  BY <1>1, VersionAssumption DEF ProcessTypes, FileTypes, HelperTypes, Version,
     startSelfUpdater, Crash
<1>5. AgeTypes'
  BY <1>1, VersionAssumption, TimeAssumption DEF AgeTypes, ProcessTypes, FileTypes, Version,
     startSelfUpdater, Crash
<1>6. HelperTypes'
  BY <1>1, VersionAssumption DEF HelperTypes, ProcessTypes, FileTypes, Version,
     startSelfUpdater, Crash
<1>7. FaultTypes'
  BY <1>1, FaultsKept DEF FaultKind, startSelfUpdater, Crash
<1>8. TypeOK'
  BY <1>2, <1>3, <1>4, <1>5, <1>6, <1>7 DEF TypeOK, Flags, ProcessTypes, FileTypes,
     AgeTypes, HelperTypes, FaultTypes
<1>9. Control'
  BY <1>1, VersionAssumption, TimeAssumption DEF TypeOK, Version, Control, Parents, Handing,
     startSelfUpdater, Crash
<1>10. Released'
  BY <1>1, VersionAssumption, TimeAssumption DEF TypeOK, Version, Control, Released,
     Bounded, startSelfUpdater, Crash
<1>11. Kept'
  BY <1>1, VersionAssumption, TimeAssumption DEF TypeOK, Version, Control, Released,
     Bounded, Kept, Newer, Aside, Parents, startSelfUpdater, Crash
<1>12. Attempts'
  BY <1>1, VersionAssumption, TimeAssumption DEF TypeOK, Version, Control, Attempts,
     Checking, recentUpdateAttempt, startSelfUpdater, Crash
<1>13. Parents'
  BY <1>1, VersionAssumption, TimeAssumption DEF TypeOK, Control, Parents, Handing,
     startSelfUpdater, Crash
<1>14. Undisturbed'
  BY <1>1, VersionAssumption, TimeAssumption DEF TypeOK, Control, Parents, Undisturbed,
     Alone, Handing, startSelfUpdater, Crash
<1>15. InstalledOrReplacing'
  BY <1>1, VersionAssumption, TimeAssumption DEF TypeOK, Version, Kept, Aside, Undisturbed,
     InstalledOrReplacing, startSelfUpdater, Crash
<1> QED
  BY <1>8, <1>9, <1>10, <1>11, <1>12, <1>13, <1>14, <1>15 DEF UpdateInv

-----------------------------------------------------------------------------
\* A check, up to the record of its attempt.
LEMMA ChecksKeep ==
  ASSUME UpdateInv,
         \/ checkSelfUpdate \/ stageAgentUpdate \/ StageFails \/ IdleBridges
         \/ bridgeDeferralDeadline \/ DeferralEnds \/ tryBeginUpdate
         \/ verifyStagedAgent \/ recordUpdateAttempt
  PROVE  UpdateInv'
<1> USE DEF Fault, Goto, Idles, cancelUpdate, Dies, procVars, helperVars, faultVars, serviceMode,
        NoAttempt, NotDeferred, Older
<1>1. /\ Flags /\ ProcessTypes /\ FileTypes /\ AgeTypes /\ HelperTypes /\ FaultTypes
      /\ Control /\ Released /\ Kept /\ Attempts /\ Parents /\ Undisturbed
      /\ InstalledOrReplacing /\ TypeOK
  BY Types DEF UpdateInv
<1>2. Flags'
  BY <1>1 DEF Flags, checkSelfUpdate, stageAgentUpdate, StageFails, IdleBridges,
     bridgeDeferralDeadline, DeferralEnds, tryBeginUpdate, verifyStagedAgent,
     recordUpdateAttempt
<1>3. ProcessTypes'
  BY <1>1, VersionAssumption DEF ProcessTypes, FileTypes, HelperTypes, Version,
     checkSelfUpdate, stageAgentUpdate, StageFails, IdleBridges, bridgeDeferralDeadline,
     DeferralEnds, tryBeginUpdate, verifyStagedAgent, recordUpdateAttempt
<1>4. FileTypes'
  BY <1>1, VersionAssumption DEF ProcessTypes, FileTypes, HelperTypes, Version,
     checkSelfUpdate, stageAgentUpdate, StageFails, IdleBridges, bridgeDeferralDeadline,
     DeferralEnds, tryBeginUpdate, verifyStagedAgent, recordUpdateAttempt
<1>5. AgeTypes'
  BY <1>1, VersionAssumption, TimeAssumption DEF AgeTypes, ProcessTypes, FileTypes, Version,
     checkSelfUpdate, stageAgentUpdate, StageFails, IdleBridges, bridgeDeferralDeadline,
     DeferralEnds, tryBeginUpdate, verifyStagedAgent, recordUpdateAttempt
<1>6. HelperTypes'
  BY <1>1, VersionAssumption DEF HelperTypes, ProcessTypes, FileTypes, Version,
     checkSelfUpdate, stageAgentUpdate, StageFails, IdleBridges, bridgeDeferralDeadline,
     DeferralEnds, tryBeginUpdate, verifyStagedAgent, recordUpdateAttempt
<1>7. FaultTypes'
  BY <1>1, FaultsKept DEF FaultKind, checkSelfUpdate, stageAgentUpdate, StageFails,
     IdleBridges, bridgeDeferralDeadline, DeferralEnds, tryBeginUpdate, verifyStagedAgent,
     recordUpdateAttempt
<1>8. TypeOK'
  BY <1>2, <1>3, <1>4, <1>5, <1>6, <1>7 DEF TypeOK, Flags, ProcessTypes, FileTypes,
     AgeTypes, HelperTypes, FaultTypes
<1>9. Control'
  BY <1>1, VersionAssumption, TimeAssumption DEF TypeOK, Version, Control, Parents, Handing,
     checkSelfUpdate, stageAgentUpdate, StageFails, IdleBridges, bridgeDeferralDeadline,
     DeferralEnds, tryBeginUpdate, verifyStagedAgent, recordUpdateAttempt
<1>10. Released'
  BY <1>1, VersionAssumption, TimeAssumption DEF TypeOK, Version, Control, Released,
     Bounded, checkSelfUpdate, stageAgentUpdate, StageFails, IdleBridges,
     bridgeDeferralDeadline, DeferralEnds, tryBeginUpdate, verifyStagedAgent,
     recordUpdateAttempt
<1>11. Kept'
  BY <1>1, VersionAssumption, TimeAssumption DEF TypeOK, Version, Control, Released,
     Bounded, Kept, Newer, Aside, Parents, checkSelfUpdate, stageAgentUpdate, StageFails,
     IdleBridges, bridgeDeferralDeadline, DeferralEnds, tryBeginUpdate, verifyStagedAgent,
     recordUpdateAttempt
<1>12. Attempts'
  BY <1>1, VersionAssumption, TimeAssumption DEF TypeOK, Version, Control, Attempts,
     Checking, recentUpdateAttempt, checkSelfUpdate, stageAgentUpdate, StageFails,
     IdleBridges, bridgeDeferralDeadline, DeferralEnds, tryBeginUpdate, verifyStagedAgent,
     recordUpdateAttempt
<1>13. Parents'
  BY <1>1, VersionAssumption, TimeAssumption DEF TypeOK, Control, Parents, Handing,
     checkSelfUpdate, stageAgentUpdate, StageFails, IdleBridges, bridgeDeferralDeadline,
     DeferralEnds, tryBeginUpdate, verifyStagedAgent, recordUpdateAttempt
<1>14. Undisturbed'
  BY <1>1, VersionAssumption, TimeAssumption DEF TypeOK, Control, Parents, Undisturbed,
     Alone, Handing, checkSelfUpdate, stageAgentUpdate, StageFails, IdleBridges,
     bridgeDeferralDeadline, DeferralEnds, tryBeginUpdate, verifyStagedAgent,
     recordUpdateAttempt
<1>15. InstalledOrReplacing'
  BY <1>1, VersionAssumption, TimeAssumption DEF TypeOK, Version, Kept, Aside, Undisturbed,
     InstalledOrReplacing, checkSelfUpdate, stageAgentUpdate, StageFails, IdleBridges,
     bridgeDeferralDeadline, DeferralEnds, tryBeginUpdate, verifyStagedAgent,
     recordUpdateAttempt
<1> QED
  BY <1>8, <1>9, <1>10, <1>11, <1>12, <1>13, <1>14, <1>15 DEF UpdateInv

-----------------------------------------------------------------------------
\* The process hands over.
LEMMA HandOverKeep ==
  ASSUME UpdateInv,
         \/ PrepareFails \/ GraceOver \/ Shutdown \/ ShutdownFails \/ HandoffTimeout
  PROVE  UpdateInv'
<1> USE DEF Fault, Goto, Idles, cancelUpdate, Dies, procVars, helperVars, faultVars, serviceMode,
        NoAttempt, NotDeferred, Older
<1>1. /\ Flags /\ ProcessTypes /\ FileTypes /\ AgeTypes /\ HelperTypes /\ FaultTypes
      /\ Control /\ Released /\ Kept /\ Attempts /\ Parents /\ Undisturbed
      /\ InstalledOrReplacing /\ TypeOK
  BY Types DEF UpdateInv
<1>2. Flags'
  BY <1>1 DEF Flags, PrepareFails, GraceOver, Shutdown, ShutdownFails, HandoffTimeout
<1>3. ProcessTypes'
  BY <1>1, VersionAssumption DEF ProcessTypes, FileTypes, HelperTypes, Version,
     PrepareFails, GraceOver, Shutdown, ShutdownFails, HandoffTimeout
<1>4. FileTypes'
  BY <1>1, VersionAssumption DEF ProcessTypes, FileTypes, HelperTypes, Version,
     PrepareFails, GraceOver, Shutdown, ShutdownFails, HandoffTimeout
<1>5. AgeTypes'
  BY <1>1, VersionAssumption, TimeAssumption DEF AgeTypes, ProcessTypes, FileTypes, Version,
     PrepareFails, GraceOver, Shutdown, ShutdownFails, HandoffTimeout
<1>6. HelperTypes'
  BY <1>1, VersionAssumption DEF HelperTypes, ProcessTypes, FileTypes, Version,
     PrepareFails, GraceOver, Shutdown, ShutdownFails, HandoffTimeout
<1>7. FaultTypes'
  BY <1>1, FaultsKept DEF FaultKind, PrepareFails, GraceOver, Shutdown, ShutdownFails,
     HandoffTimeout
<1>8. TypeOK'
  BY <1>2, <1>3, <1>4, <1>5, <1>6, <1>7 DEF TypeOK, Flags, ProcessTypes, FileTypes,
     AgeTypes, HelperTypes, FaultTypes
<1>9. Control'
  BY <1>1, VersionAssumption, TimeAssumption DEF TypeOK, Version, Control, Parents, Handing,
     PrepareFails, GraceOver, Shutdown, ShutdownFails, HandoffTimeout
<1>10. Released'
  <2>1. CASE PrepareFails
    BY <1>1, <2>1, VersionAssumption DEF TypeOK, Version, Control, Released, Bounded,
       PrepareFails
  <2>2. CASE GraceOver \/ Shutdown
    BY <1>1, <2>2, VersionAssumption DEF TypeOK, Version, Control, Released, Bounded,
       GraceOver, Shutdown
  <2>3. CASE ShutdownFails
    BY <1>1, <2>3, VersionAssumption DEF TypeOK, Version, Control, Released, Bounded,
       ShutdownFails
  <2>4. CASE HandoffTimeout
    BY <1>1, <2>4, VersionAssumption DEF TypeOK, Version, Control, Released, Bounded,
       HandoffTimeout
  <2> QED
    BY <2>1, <2>2, <2>3, <2>4
<1>11. Kept'
  BY <1>1, VersionAssumption, TimeAssumption DEF TypeOK, Version, Control, Released,
     Bounded, Kept, Newer, Aside, Parents, PrepareFails, GraceOver, Shutdown, ShutdownFails,
     HandoffTimeout
<1>12. Attempts'
  BY <1>1, VersionAssumption, TimeAssumption DEF TypeOK, Version, Control, Attempts,
     Checking, recentUpdateAttempt, PrepareFails, GraceOver, Shutdown, ShutdownFails,
     HandoffTimeout
<1>13. Parents'
  BY <1>1, VersionAssumption, TimeAssumption DEF TypeOK, Control, Parents, Handing,
     PrepareFails, GraceOver, Shutdown, ShutdownFails, HandoffTimeout
<1>14. Undisturbed'
  BY <1>1, VersionAssumption, TimeAssumption DEF TypeOK, Control, Parents, Undisturbed,
     Alone, Handing, PrepareFails, GraceOver, Shutdown, ShutdownFails, HandoffTimeout
<1>15. InstalledOrReplacing'
  BY <1>1, VersionAssumption, TimeAssumption DEF TypeOK, Version, Kept, Aside, Undisturbed,
     InstalledOrReplacing, PrepareFails, GraceOver, Shutdown, ShutdownFails, HandoffTimeout
<1> QED
  BY <1>8, <1>9, <1>10, <1>11, <1>12, <1>13, <1>14, <1>15 DEF UpdateInv

-----------------------------------------------------------------------------
\* It starts a helper, misses one, or replaces itself.
LEMMA StartsKeep ==
  ASSUME UpdateInv, NEW h \in Helper,
         \/ scheduleHelperUpdate(h) \/ HelperExitedEarly(h) \/ execInstalledUpdate(h)
         \/ Exec(h) \/ ExecFails(h)
  PROVE  UpdateInv'
<1> USE DEF Fault, Goto, Idles, cancelUpdate, Dies, procVars, helperVars, faultVars, serviceMode,
        NoAttempt, NotDeferred, Older
<1>1. /\ Flags /\ ProcessTypes /\ FileTypes /\ AgeTypes /\ HelperTypes /\ FaultTypes
      /\ Control /\ Released /\ Kept /\ Attempts /\ Parents /\ Undisturbed
      /\ InstalledOrReplacing /\ TypeOK
  BY Types DEF UpdateInv
<1>2. Flags'
  BY <1>1 DEF Flags, scheduleHelperUpdate, HelperExitedEarly, execInstalledUpdate, Exec,
     ExecFails
<1>3. ProcessTypes'
  BY <1>1, VersionAssumption DEF ProcessTypes, FileTypes, HelperTypes, Version,
     scheduleHelperUpdate, HelperExitedEarly, execInstalledUpdate, Exec, ExecFails
<1>4. FileTypes'
  BY <1>1, VersionAssumption DEF ProcessTypes, FileTypes, HelperTypes, Version,
     scheduleHelperUpdate, HelperExitedEarly, execInstalledUpdate, Exec, ExecFails
<1>5. AgeTypes'
  BY <1>1, VersionAssumption, TimeAssumption DEF AgeTypes, ProcessTypes, FileTypes, Version,
     scheduleHelperUpdate, HelperExitedEarly, execInstalledUpdate, Exec, ExecFails
<1>6. HelperTypes'
  BY <1>1, VersionAssumption DEF HelperTypes, ProcessTypes, FileTypes, Version,
     scheduleHelperUpdate, HelperExitedEarly, execInstalledUpdate, Exec, ExecFails
<1>7. FaultTypes'
  BY <1>1, FaultsKept DEF FaultKind, scheduleHelperUpdate, HelperExitedEarly,
     execInstalledUpdate, Exec, ExecFails
<1>8. TypeOK'
  BY <1>2, <1>3, <1>4, <1>5, <1>6, <1>7 DEF TypeOK, Flags, ProcessTypes, FileTypes,
     AgeTypes, HelperTypes, FaultTypes
<1>9. Control'
  BY <1>1, VersionAssumption, TimeAssumption DEF TypeOK, Version, Control, Parents, Handing,
     scheduleHelperUpdate, HelperExitedEarly, execInstalledUpdate, Exec, ExecFails
<1>10. Released'
  <2>1. CASE scheduleHelperUpdate(h) \/ execInstalledUpdate(h)
    <3>1. /\ UNCHANGED <<latest, rel, installed, newest>> /\ rel \in Nat /\ latest \in Nat
          /\ \A g \in Helper : prepared'[g] \in {rel, 0} /\ backup'[g] = 0
      BY <1>1, <2>1, VersionAssumption
         DEF TypeOK, Version, scheduleHelperUpdate, execInstalledUpdate
    <3>2. Bounded(rel) /\ Bounded(0)
      BY <1>1, <3>1 DEF Released, Bounded
    <3> QED
      BY <1>1, <3>1, <3>2 DEF Released, Bounded
  <2>2. CASE HelperExitedEarly(h)
    BY <1>1, <2>2, VersionAssumption DEF TypeOK, Version, Control, Released, Bounded,
       HelperExitedEarly
  <2>3. CASE Exec(h)
    BY <1>1, <2>3, VersionAssumption DEF TypeOK, Version, Control, Released, Bounded, Exec
  <2>4. CASE ExecFails(h)
    BY <1>1, <2>4, VersionAssumption DEF TypeOK, Version, Control, Released, Bounded,
       ExecFails
  <2> QED
    BY <2>1, <2>2, <2>3, <2>4
<1>11. Kept'
  <2>1. CASE scheduleHelperUpdate(h) \/ execInstalledUpdate(h)
    <3>1. /\ UNCHANGED <<installed, newest, proc>> /\ rel \in Nat \ {0} /\ proc # 0
          /\ prepared' = [g \in Helper |-> IF g = h THEN rel ELSE 0]
          /\ backup' = [g \in Helper |-> 0]
          /\ \A g \in Helper : hpc'[g] = "moved" => hpc[g] = "moved"
      BY <1>1, <2>1 DEF TypeOK, Version, Control, scheduleHelperUpdate, execInstalledUpdate
    <3>2. installed <= rel /\ newest <= rel
      BY <1>1, <3>1 DEF Released, Bounded
    <3>3. \A g \in Helper : prepared'[g] # 0 => Newer(g)'
      BY <3>1, <3>2 DEF Newer
    <3>4. \A g \in Helper : hpc'[g] = "moved" => Aside(g)'
      BY <1>1, <3>1 DEF Kept, Aside
    <3> QED
      BY <1>1, <3>1, <3>3, <3>4 DEF Kept
  <2>2. CASE HelperExitedEarly(h)
    BY <1>1, <2>2, VersionAssumption DEF TypeOK, Version, Control, Released, Bounded,
       Kept, Newer, Aside, Parents, HelperExitedEarly
  <2>3. CASE Exec(h)
    BY <1>1, <2>3, VersionAssumption DEF TypeOK, Version, Control, Released, Bounded,
       Kept, Newer, Aside, Parents, Exec
  <2>4. CASE ExecFails(h)
    BY <1>1, <2>4, VersionAssumption DEF TypeOK, Version, Control, Released, Bounded,
       Kept, Newer, Aside, Parents, ExecFails
  <2> QED
    BY <2>1, <2>2, <2>3, <2>4
<1>12. Attempts'
  BY <1>1, VersionAssumption, TimeAssumption DEF TypeOK, Version, Control, Attempts,
     Checking, recentUpdateAttempt, scheduleHelperUpdate, HelperExitedEarly,
     execInstalledUpdate, Exec, ExecFails
<1>13. Parents'
  BY <1>1, VersionAssumption, TimeAssumption DEF TypeOK, Control, Parents, Handing,
     scheduleHelperUpdate, HelperExitedEarly, execInstalledUpdate, Exec, ExecFails
<1>14. Undisturbed'
  BY <1>1, VersionAssumption, TimeAssumption DEF TypeOK, Control, Parents, Undisturbed,
     Alone, Handing, scheduleHelperUpdate, HelperExitedEarly, execInstalledUpdate, Exec,
     ExecFails
<1>15. InstalledOrReplacing'
  BY <1>1, VersionAssumption, TimeAssumption DEF TypeOK, Version, Kept, Aside, Undisturbed,
     InstalledOrReplacing, scheduleHelperUpdate, HelperExitedEarly, execInstalledUpdate,
     Exec, ExecFails
<1> QED
  BY <1>8, <1>9, <1>10, <1>11, <1>12, <1>13, <1>14, <1>15 DEF UpdateInv

-----------------------------------------------------------------------------
\* A helper stops the service, replaces the executable and starts the service.
LEMMA HelperKeep ==
  ASSUME UpdateInv, NEW h \in Helper,
         \/ stopUpdatedService(h) \/ StopFails(h) \/ WaitTimeout(h) \/ MoveAside(h)
         \/ replaceExecutable(h) \/ startUpdatedAgent(h) \/ HelperKilled(h)
  PROVE  UpdateInv'
<1> USE DEF Fault, Goto, Idles, cancelUpdate, Dies, procVars, helperVars, faultVars, serviceMode,
        NoAttempt, NotDeferred, Older
<1>1. /\ Flags /\ ProcessTypes /\ FileTypes /\ AgeTypes /\ HelperTypes /\ FaultTypes
      /\ Control /\ Released /\ Kept /\ Attempts /\ Parents /\ Undisturbed
      /\ InstalledOrReplacing /\ TypeOK
  BY Types DEF UpdateInv
<1>2. Flags'
  BY <1>1 DEF Flags, stopUpdatedService, StopFails, WaitTimeout, MoveAside,
     replaceExecutable, startUpdatedAgent, HelperKilled
<1>3. ProcessTypes'
  BY <1>1, VersionAssumption DEF ProcessTypes, FileTypes, HelperTypes, Version,
     stopUpdatedService, StopFails, WaitTimeout, MoveAside, replaceExecutable,
     startUpdatedAgent, HelperKilled
<1>4. FileTypes'
  BY <1>1, VersionAssumption DEF ProcessTypes, FileTypes, HelperTypes, Version,
     stopUpdatedService, StopFails, WaitTimeout, MoveAside, replaceExecutable,
     startUpdatedAgent, HelperKilled
<1>5. AgeTypes'
  <2>1. CASE stopUpdatedService(h)
    BY <1>1, <2>1, VersionAssumption, TimeAssumption DEF AgeTypes, ProcessTypes,
       FileTypes, Version, stopUpdatedService
  <2>2. CASE StopFails(h)
    BY <1>1, <2>2, VersionAssumption, TimeAssumption DEF AgeTypes, ProcessTypes,
       FileTypes, Version, StopFails
  <2>3. CASE WaitTimeout(h)
    BY <1>1, <2>3, VersionAssumption, TimeAssumption DEF AgeTypes, ProcessTypes,
       FileTypes, Version, WaitTimeout
  <2>4. CASE MoveAside(h)
    BY <1>1, <2>4, VersionAssumption, TimeAssumption DEF AgeTypes, ProcessTypes,
       FileTypes, Version, MoveAside
  <2>5. CASE replaceExecutable(h)
    BY <1>1, <2>5, VersionAssumption, TimeAssumption DEF AgeTypes, ProcessTypes,
       FileTypes, Version, replaceExecutable
  <2>6. CASE startUpdatedAgent(h)
    BY <1>1, <2>6, VersionAssumption, TimeAssumption DEF AgeTypes, ProcessTypes,
       FileTypes, Version, startUpdatedAgent
  <2>7. CASE HelperKilled(h)
    BY <1>1, <2>7, VersionAssumption, TimeAssumption DEF AgeTypes, ProcessTypes,
       FileTypes, Version, HelperKilled
  <2> QED
    BY <2>1, <2>2, <2>3, <2>4, <2>5, <2>6, <2>7
<1>6. HelperTypes'
  <2>1. CASE stopUpdatedService(h)
    BY <1>1, <2>1, VersionAssumption DEF HelperTypes, ProcessTypes, FileTypes, Version,
       stopUpdatedService
  <2>2. CASE StopFails(h)
    BY <1>1, <2>2, VersionAssumption DEF HelperTypes, ProcessTypes, FileTypes, Version,
       StopFails
  <2>3. CASE WaitTimeout(h)
    BY <1>1, <2>3, VersionAssumption DEF HelperTypes, ProcessTypes, FileTypes, Version,
       WaitTimeout
  <2>4. CASE MoveAside(h)
    BY <1>1, <2>4, VersionAssumption DEF HelperTypes, ProcessTypes, FileTypes, Version,
       MoveAside
  <2>5. CASE replaceExecutable(h)
    BY <1>1, <2>5, VersionAssumption DEF HelperTypes, ProcessTypes, FileTypes, Version,
       replaceExecutable
  <2>6. CASE startUpdatedAgent(h)
    BY <1>1, <2>6, VersionAssumption DEF HelperTypes, ProcessTypes, FileTypes, Version,
       startUpdatedAgent
  <2>7. CASE HelperKilled(h)
    BY <1>1, <2>7, VersionAssumption DEF HelperTypes, ProcessTypes, FileTypes, Version,
       HelperKilled
  <2> QED
    BY <2>1, <2>2, <2>3, <2>4, <2>5, <2>6, <2>7
<1>7. FaultTypes'
  BY <1>1, FaultsKept DEF FaultKind, stopUpdatedService, StopFails, WaitTimeout, MoveAside,
     replaceExecutable, startUpdatedAgent, HelperKilled
<1>8. TypeOK'
  BY <1>2, <1>3, <1>4, <1>5, <1>6, <1>7 DEF TypeOK, Flags, ProcessTypes, FileTypes,
     AgeTypes, HelperTypes, FaultTypes
<1>9. Control'
  BY <1>1, VersionAssumption, TimeAssumption DEF TypeOK, Version, Control, Parents, Handing,
     stopUpdatedService, StopFails, WaitTimeout, MoveAside, replaceExecutable,
     startUpdatedAgent, HelperKilled
<1>10. Released'
  <2>1. CASE stopUpdatedService(h)
    BY <1>1, <2>1, VersionAssumption DEF TypeOK, Version, Control, Released, Bounded,
       stopUpdatedService
  <2>2. CASE StopFails(h)
    BY <1>1, <2>2, VersionAssumption DEF TypeOK, Version, Control, Released, Bounded,
       StopFails
  <2>3. CASE WaitTimeout(h)
    BY <1>1, <2>3, VersionAssumption DEF TypeOK, Version, Control, Released, Bounded,
       WaitTimeout
  <2>4. CASE MoveAside(h)
    BY <1>1, <2>4, VersionAssumption DEF TypeOK, Version, Control, Released, Bounded,
       MoveAside
  <2>5. CASE replaceExecutable(h)
    <3>1. /\ UNCHANGED <<latest, rel, newest>> /\ rel \in Nat /\ latest \in Nat
          /\ installed' \in {prepared[h], backup[h], installed}
          /\ \A g \in Helper : prepared'[g] \in {prepared[g], 0} /\ backup'[g] \in {backup[g], 0}
      BY <1>1, <2>5, VersionAssumption DEF TypeOK, Version, replaceExecutable
    <3>2. Bounded(0)
      BY <3>1 DEF Bounded
    <3> QED
      BY <1>1, <3>1, <3>2 DEF Released, Bounded
  <2>6. CASE startUpdatedAgent(h)
    BY <1>1, <2>6, VersionAssumption DEF TypeOK, Version, Control, Released, Bounded,
       startUpdatedAgent
  <2>7. CASE HelperKilled(h)
    BY <1>1, <2>7, VersionAssumption DEF TypeOK, Version, Control, Released, Bounded,
       HelperKilled
  <2> QED
    BY <2>1, <2>2, <2>3, <2>4, <2>5, <2>6, <2>7
<1>11. Kept'
  <2>1. CASE stopUpdatedService(h)
    BY <1>1, <2>1, VersionAssumption DEF TypeOK, Version, Control, Released, Bounded,
       Kept, Newer, Aside, Parents, stopUpdatedService
  <2>2. CASE StopFails(h)
    BY <1>1, <2>2, VersionAssumption DEF TypeOK, Version, Control, Released, Bounded,
       Kept, Newer, Aside, Parents, StopFails
  <2>3. CASE WaitTimeout(h)
    BY <1>1, <2>3, VersionAssumption DEF TypeOK, Version, Control, Released, Bounded,
       Kept, Newer, Aside, Parents, WaitTimeout
  <2>4. CASE MoveAside(h)
    BY <1>1, <2>4, VersionAssumption DEF TypeOK, Version, Control, Released, Bounded,
       Kept, Newer, Aside, Parents, MoveAside
  <2>5. CASE replaceExecutable(h)
    BY <1>1, <2>5, VersionAssumption DEF TypeOK, Version, Control, Released, Bounded,
       Kept, Newer, Aside, Parents, replaceExecutable
  <2>6. CASE startUpdatedAgent(h)
    BY <1>1, <2>6, VersionAssumption DEF TypeOK, Version, Control, Released, Bounded,
       Kept, Newer, Aside, Parents, startUpdatedAgent
  <2>7. CASE HelperKilled(h)
    BY <1>1, <2>7, VersionAssumption DEF TypeOK, Version, Control, Released, Bounded,
       Kept, Newer, Aside, Parents, HelperKilled
  <2> QED
    BY <2>1, <2>2, <2>3, <2>4, <2>5, <2>6, <2>7
<1>12. Attempts'
  BY <1>1, VersionAssumption, TimeAssumption DEF TypeOK, Version, Control, Attempts,
     Checking, recentUpdateAttempt, stopUpdatedService, StopFails, WaitTimeout, MoveAside,
     replaceExecutable, startUpdatedAgent, HelperKilled
<1>13. Parents'
  <2>1. CASE stopUpdatedService(h)
    BY <1>1, <2>1, VersionAssumption DEF TypeOK, Control, Parents, Handing,
       stopUpdatedService
  <2>2. CASE StopFails(h)
    BY <1>1, <2>2, VersionAssumption DEF TypeOK, Control, Parents, Handing, StopFails
  <2>3. CASE WaitTimeout(h)
    BY <1>1, <2>3, VersionAssumption DEF TypeOK, Control, Parents, Handing, WaitTimeout
  <2>4. CASE MoveAside(h)
    BY <1>1, <2>4, VersionAssumption DEF TypeOK, Control, Parents, Handing, MoveAside
  <2>5. CASE replaceExecutable(h)
    BY <1>1, <2>5, VersionAssumption DEF TypeOK, Control, Parents, Handing,
       replaceExecutable
  <2>6. CASE startUpdatedAgent(h)
    BY <1>1, <2>6, VersionAssumption DEF TypeOK, Control, Parents, Handing,
       startUpdatedAgent
  <2>7. CASE HelperKilled(h)
    BY <1>1, <2>7, VersionAssumption DEF TypeOK, Control, Parents, Handing, HelperKilled
  <2> QED
    BY <2>1, <2>2, <2>3, <2>4, <2>5, <2>6, <2>7
<1>14. Undisturbed'
  <2>1. CASE stopUpdatedService(h)
    BY <1>1, <2>1, VersionAssumption DEF TypeOK, Control, Parents, Undisturbed, Alone,
       Handing, stopUpdatedService
  <2>2. CASE StopFails(h)
    BY <1>1, <2>2, VersionAssumption DEF TypeOK, Control, Parents, Undisturbed, Alone,
       Handing, StopFails
  <2>3. CASE WaitTimeout(h)
    BY <1>1, <2>3, VersionAssumption DEF TypeOK, Control, Parents, Undisturbed, Alone,
       Handing, WaitTimeout
  <2>4. CASE MoveAside(h)
    BY <1>1, <2>4, VersionAssumption DEF TypeOK, Control, Parents, Undisturbed, Alone,
       Handing, MoveAside
  <2>5. CASE replaceExecutable(h)
    BY <1>1, <2>5, VersionAssumption DEF TypeOK, Control, Parents, Undisturbed, Alone,
       Handing, replaceExecutable
  <2>6. CASE startUpdatedAgent(h)
    BY <1>1, <2>6, VersionAssumption DEF TypeOK, Control, Parents, Undisturbed, Alone,
       Handing, startUpdatedAgent
  <2>7. CASE HelperKilled(h)
    <3>1. /\ hpc' = [hpc EXCEPT ![h] = "gone"]
          /\ UNCHANGED <<proc, manager, parent, backup>> /\ happened \subseteq happened'
      BY <2>7 DEF HelperKilled
    <3>2. \A g \in Helper : hpc'[g] = hpc[g] \/ hpc'[g] = "gone"
      BY <1>1, <3>1 DEF HelperTypes
    <3> QED
      BY <1>1, <3>1, <3>2 DEF Undisturbed, Alone
  <2> QED
    BY <2>1, <2>2, <2>3, <2>4, <2>5, <2>6, <2>7
<1>15. InstalledOrReplacing'
  <2>1. CASE stopUpdatedService(h)
    BY <1>1, <2>1, VersionAssumption DEF TypeOK, Version, Kept, Aside, Undisturbed,
       InstalledOrReplacing, stopUpdatedService
  <2>2. CASE StopFails(h)
    BY <1>1, <2>2, VersionAssumption DEF TypeOK, Version, Kept, Aside, Undisturbed,
       InstalledOrReplacing, StopFails
  <2>3. CASE WaitTimeout(h)
    BY <1>1, <2>3, VersionAssumption DEF TypeOK, Version, Kept, Aside, Undisturbed,
       InstalledOrReplacing, WaitTimeout
  <2>4. CASE MoveAside(h)
    BY <1>1, <2>4, VersionAssumption DEF TypeOK, Version, Kept, Aside, Undisturbed,
       InstalledOrReplacing, MoveAside
  <2>5. CASE replaceExecutable(h)
    BY <1>1, <2>5, VersionAssumption DEF TypeOK, Version, Kept, Aside, Undisturbed,
       InstalledOrReplacing, replaceExecutable
  <2>6. CASE startUpdatedAgent(h)
    BY <1>1, <2>6, VersionAssumption DEF TypeOK, Version, Kept, Aside, Undisturbed,
       InstalledOrReplacing, startUpdatedAgent
  <2>7. CASE HelperKilled(h)
    BY <1>1, <2>7, VersionAssumption DEF TypeOK, Version, Kept, Aside, Undisturbed,
       InstalledOrReplacing, HelperKilled
  <2> QED
    BY <2>1, <2>2, <2>3, <2>4, <2>5, <2>6, <2>7
<1> QED
  BY <1>8, <1>9, <1>10, <1>11, <1>12, <1>13, <1>14, <1>15 DEF UpdateInv

-----------------------------------------------------------------------------
\* A replacement, its undoing or the start of the service fails.
LEMMA FailuresKeep ==
  ASSUME UpdateInv, NEW h \in Helper,
         \/ MoveAsideFails(h) \/ ReplaceFails(h) \/ RestoreFails(h) \/ StartFails(h)
         \/ ExecRestoreFails(h)
  PROVE  UpdateInv'
<1> USE DEF Fault, Goto, Idles, cancelUpdate, Dies, procVars, helperVars, faultVars, serviceMode,
        NoAttempt, NotDeferred, Older
<1>1. /\ Flags /\ ProcessTypes /\ FileTypes /\ AgeTypes /\ HelperTypes /\ FaultTypes
      /\ Control /\ Released /\ Kept /\ Attempts /\ Parents /\ Undisturbed
      /\ InstalledOrReplacing /\ TypeOK
  BY Types DEF UpdateInv
<1>2. Flags'
  BY <1>1 DEF Flags, MoveAsideFails, ReplaceFails, RestoreFails, StartFails,
     ExecRestoreFails
<1>3. ProcessTypes'
  BY <1>1, VersionAssumption DEF ProcessTypes, FileTypes, HelperTypes, Version,
     MoveAsideFails, ReplaceFails, RestoreFails, StartFails, ExecRestoreFails
<1>4. FileTypes'
  BY <1>1, VersionAssumption DEF ProcessTypes, FileTypes, HelperTypes, Version,
     MoveAsideFails, ReplaceFails, RestoreFails, StartFails, ExecRestoreFails
<1>5. AgeTypes'
  <2>1. CASE MoveAsideFails(h)
    BY <1>1, <2>1, VersionAssumption, TimeAssumption DEF AgeTypes, ProcessTypes,
       FileTypes, Version, MoveAsideFails
  <2>2. CASE ReplaceFails(h)
    BY <1>1, <2>2, VersionAssumption, TimeAssumption DEF AgeTypes, ProcessTypes,
       FileTypes, Version, ReplaceFails
  <2>3. CASE RestoreFails(h)
    BY <1>1, <2>3, VersionAssumption, TimeAssumption DEF AgeTypes, ProcessTypes,
       FileTypes, Version, RestoreFails
  <2>4. CASE StartFails(h)
    BY <1>1, <2>4, VersionAssumption, TimeAssumption DEF AgeTypes, ProcessTypes,
       FileTypes, Version, StartFails
  <2>5. CASE ExecRestoreFails(h)
    BY <1>1, <2>5, VersionAssumption, TimeAssumption DEF AgeTypes, ProcessTypes,
       FileTypes, Version, ExecRestoreFails
  <2> QED
    BY <2>1, <2>2, <2>3, <2>4, <2>5
<1>6. HelperTypes'
  <2>1. CASE MoveAsideFails(h)
    BY <1>1, <2>1, VersionAssumption DEF HelperTypes, ProcessTypes, FileTypes, Version,
       MoveAsideFails
  <2>2. CASE ReplaceFails(h)
    BY <1>1, <2>2, VersionAssumption DEF HelperTypes, ProcessTypes, FileTypes, Version,
       ReplaceFails
  <2>3. CASE RestoreFails(h)
    BY <1>1, <2>3, VersionAssumption DEF HelperTypes, ProcessTypes, FileTypes, Version,
       RestoreFails
  <2>4. CASE StartFails(h)
    BY <1>1, <2>4, VersionAssumption DEF HelperTypes, ProcessTypes, FileTypes, Version,
       StartFails
  <2>5. CASE ExecRestoreFails(h)
    BY <1>1, <2>5, VersionAssumption DEF HelperTypes, ProcessTypes, FileTypes, Version,
       ExecRestoreFails
  <2> QED
    BY <2>1, <2>2, <2>3, <2>4, <2>5
<1>7. FaultTypes'
  BY <1>1, FaultsKept DEF FaultKind, MoveAsideFails, ReplaceFails, RestoreFails,
     StartFails, ExecRestoreFails
<1>8. TypeOK'
  BY <1>2, <1>3, <1>4, <1>5, <1>6, <1>7 DEF TypeOK, Flags, ProcessTypes, FileTypes,
     AgeTypes, HelperTypes, FaultTypes
<1>9. Control'
  BY <1>1, VersionAssumption, TimeAssumption DEF TypeOK, Version, Control, Parents,
     Handing, MoveAsideFails, ReplaceFails, RestoreFails, StartFails, ExecRestoreFails
<1>10. Released'
  <2>1. CASE MoveAsideFails(h)
    BY <1>1, <2>1, VersionAssumption DEF TypeOK, Version, Control, Released, Bounded,
       MoveAsideFails
  <2>2. CASE ReplaceFails(h)
    BY <1>1, <2>2, VersionAssumption DEF TypeOK, Version, Control, Released, Bounded,
       ReplaceFails
  <2>3. CASE RestoreFails(h)
    BY <1>1, <2>3, VersionAssumption DEF TypeOK, Version, Control, Released, Bounded,
       RestoreFails
  <2>4. CASE StartFails(h)
    BY <1>1, <2>4, VersionAssumption DEF TypeOK, Version, Control, Released, Bounded,
       StartFails
  <2>5. CASE ExecRestoreFails(h)
    BY <1>1, <2>5, VersionAssumption DEF TypeOK, Version, Control, Released, Bounded,
       ExecRestoreFails
  <2> QED
    BY <2>1, <2>2, <2>3, <2>4, <2>5
<1>11. Kept'
  <2>1. CASE MoveAsideFails(h)
    BY <1>1, <2>1, VersionAssumption DEF TypeOK, Version, Control, Released, Bounded,
       Kept, Newer, Aside, Parents, MoveAsideFails
  <2>2. CASE ReplaceFails(h)
    BY <1>1, <2>2, VersionAssumption DEF TypeOK, Version, Control, Released, Bounded,
       Kept, Newer, Aside, Parents, ReplaceFails
  <2>3. CASE RestoreFails(h)
    BY <1>1, <2>3, VersionAssumption DEF TypeOK, Version, Control, Released, Bounded,
       Kept, Newer, Aside, Parents, RestoreFails
  <2>4. CASE StartFails(h)
    BY <1>1, <2>4, VersionAssumption DEF TypeOK, Version, Control, Released, Bounded,
       Kept, Newer, Aside, Parents, StartFails
  <2>5. CASE ExecRestoreFails(h)
    BY <1>1, <2>5, VersionAssumption DEF TypeOK, Version, Control, Released, Bounded,
       Kept, Newer, Aside, Parents, ExecRestoreFails
  <2> QED
    BY <2>1, <2>2, <2>3, <2>4, <2>5
<1>12. Attempts'
  BY <1>1, VersionAssumption, TimeAssumption DEF TypeOK, Version, Control, Attempts,
     Checking, recentUpdateAttempt, MoveAsideFails, ReplaceFails, RestoreFails,
     StartFails, ExecRestoreFails
<1>13. Parents'
  <2>1. CASE MoveAsideFails(h)
    BY <1>1, <2>1, VersionAssumption DEF TypeOK, Control, Parents, Handing,
       MoveAsideFails
  <2>2. CASE ReplaceFails(h)
    BY <1>1, <2>2, VersionAssumption DEF TypeOK, Control, Parents, Handing, ReplaceFails
  <2>3. CASE RestoreFails(h)
    BY <1>1, <2>3, VersionAssumption DEF TypeOK, Control, Parents, Handing, RestoreFails
  <2>4. CASE StartFails(h)
    BY <1>1, <2>4, VersionAssumption DEF TypeOK, Control, Parents, Handing, StartFails
  <2>5. CASE ExecRestoreFails(h)
    BY <1>1, <2>5, VersionAssumption DEF TypeOK, Control, Parents, Handing,
       ExecRestoreFails
  <2> QED
    BY <2>1, <2>2, <2>3, <2>4, <2>5
<1>14. Undisturbed'
  <2>1. CASE MoveAsideFails(h)
    BY <1>1, <2>1, VersionAssumption DEF TypeOK, Control, Parents, Undisturbed, Alone,
       Handing, MoveAsideFails
  <2>2. CASE ReplaceFails(h)
    BY <1>1, <2>2, VersionAssumption DEF TypeOK, Control, Parents, Undisturbed, Alone,
       Handing, ReplaceFails
  <2>3. CASE RestoreFails(h)
    BY <1>1, <2>3, VersionAssumption DEF TypeOK, Control, Parents, Undisturbed, Alone,
       Handing, RestoreFails
  <2>4. CASE StartFails(h)
    BY <1>1, <2>4, VersionAssumption DEF TypeOK, Control, Parents, Undisturbed, Alone,
       Handing, StartFails
  <2>5. CASE ExecRestoreFails(h)
    BY <1>1, <2>5, VersionAssumption DEF TypeOK, Control, Parents, Undisturbed, Alone,
       Handing, ExecRestoreFails
  <2> QED
    BY <2>1, <2>2, <2>3, <2>4, <2>5
<1>15. InstalledOrReplacing'
  <2>1. CASE MoveAsideFails(h)
    BY <1>1, <2>1, VersionAssumption DEF TypeOK, Version, Kept, Aside, Undisturbed,
       InstalledOrReplacing, MoveAsideFails
  <2>2. CASE ReplaceFails(h)
    BY <1>1, <2>2, VersionAssumption DEF TypeOK, Version, Kept, Aside, Undisturbed,
       InstalledOrReplacing, ReplaceFails
  <2>3. CASE RestoreFails(h)
    BY <1>1, <2>3, VersionAssumption DEF TypeOK, Version, Kept, Aside, Undisturbed,
       InstalledOrReplacing, RestoreFails
  <2>4. CASE StartFails(h)
    BY <1>1, <2>4, VersionAssumption DEF TypeOK, Version, Kept, Aside, Undisturbed,
       InstalledOrReplacing, StartFails
  <2>5. CASE ExecRestoreFails(h)
    BY <1>1, <2>5, VersionAssumption DEF TypeOK, Version, Kept, Aside, Undisturbed,
       InstalledOrReplacing, ExecRestoreFails
  <2> QED
    BY <2>1, <2>2, <2>3, <2>4, <2>5
<1> QED
  BY <1>8, <1>9, <1>10, <1>11, <1>12, <1>13, <1>14, <1>15 DEF UpdateInv

-----------------------------------------------------------------------------
(* The specification *)

\* The initial states have the invariant.
LEMMA UpdateInit == Init => UpdateInv
<1> SUFFICES ASSUME Init PROVE UpdateInv
  OBVIOUS
<1>1. TypeOK
  <2>1. 1 \in Version /\ Backoff \in 0 .. Backoff /\ NotDeferred \in 0 .. NotDeferred
        /\ MaxFaults \in 0 .. MaxFaults
    BY VersionAssumption, TimeAssumption, FaultAssumption DEF Version, NotDeferred
  <2>2. manager \in {"loaded", "unloaded", "foreground"}
    BY ModeAssumption DEF Init
  <2> QED
    BY <2>1, <2>2 DEF Init, TypeOK, NoAttempt
<1>2. Control /\ Released
  BY DEF Init, Control, Released, Bounded, serviceMode
<1>3. Kept /\ Attempts /\ Parents /\ Undisturbed /\ InstalledOrReplacing
  BY DEF Init, Kept, Attempts, Checking, Parents, Undisturbed, InstalledOrReplacing, NoAttempt
<1> QED
  BY <1>1, <1>2, <1>3 DEF UpdateInv

\* Every step keeps the invariant.
LEMMA UpdateStep == UpdateInv /\ [Next]_vars => UpdateInv'
<1> SUFFICES ASSUME UpdateInv, [Next]_vars PROVE UpdateInv'
  OBVIOUS
<1>1. CASE \/ Publish \/ Tick \/ BridgeOpens \/ BridgeCloses \/ startSelfUpdater \/ Crash
           \/ \E v \in Version : StagedDamaged(v)
  BY <1>1, TimeKeep, OutsideKeep, ProcessKeep
<1>2. CASE UNCHANGED vars
  BY <1>2, TimeKeep
<1>3. CASE UpdaterStep
  BY <1>3, ChecksKeep, HandOverKeep, StartsKeep, FailuresKeep DEF UpdaterStep
<1>4. CASE \E h \in Helper : HelperStep(h) \/ HelperKilled(h)
  BY <1>4, HelperKeep, FailuresKeep DEF HelperStep
<1> QED
  BY <1>1, <1>2, <1>3, <1>4 DEF Next

\* Whatever step of an update fails or is cut off, and however many helpers
\* still work: the agent that runs is the newest that ever ran, the recorded
\* attempt is not what runs, and unless the agent crashed, a helper was killed at
\* its work or the old executable could not be put back, the executable is
\* missing only between a helper's two renames.
THEOREM NewestRuns == Spec => []SelfUpdateSafe
<1>1. Init /\ [][Next]_vars => []UpdateInv
  BY UpdateInit, UpdateStep, PTL
<1>2. UpdateInv => SelfUpdateSafe
  BY DEF UpdateInv, SelfUpdateSafe, AttemptUnfinished, NoDowngrade, Attempts, Kept
<1> QED
  BY <1>1, <1>2, PTL DEF Spec

\* The attempt file.
AttemptRenewed ==
  attempt'.v = attempt.v /\ attempt.v # 0 /\ attempt'.age < attempt.age => attempt.age = Backoff

\* A step that renews the attempt on file does so after the backoff.
LEMMA AttemptSteps ==
  ASSUME UpdateInv, [Next]_vars
  PROVE  AttemptRenewed
<1>1. attempt \in [v : Version \cup {0}, age : 0 .. Backoff] /\ Backoff \in Nat
  BY TimeAssumption DEF UpdateInv, TypeOK
<1>2. CASE recordUpdateAttempt
  <2>1. upc \in Checking /\ attempt' = [v |-> rel, age |-> 0]
    BY <1>2 DEF recordUpdateAttempt, Checking
  <2> QED
    BY <2>1 DEF UpdateInv, Attempts, AttemptRenewed
<1>3. CASE Tick
  <2>1. attempt' = [attempt EXCEPT !.age = Older(@, Backoff)]
    BY <1>3 DEF Tick
  <2> QED
    BY <1>1, <2>1 DEF Older, AttemptRenewed
<1>4. ASSUME attempt' \in {attempt, NoAttempt}
      PROVE  AttemptRenewed
  BY <1>1, <1>4 DEF NoAttempt, AttemptRenewed
<1>5. CASE \/ Publish \/ BridgeOpens \/ BridgeCloses \/ startSelfUpdater \/ Crash
           \/ \E v \in Version : StagedDamaged(v)
  BY <1>4, <1>5 DEF Publish, BridgeOpens, BridgeCloses, startSelfUpdater, Crash, StagedDamaged
<1>6. CASE \/ checkSelfUpdate \/ stageAgentUpdate \/ StageFails
           \/ IdleBridges \/ bridgeDeferralDeadline \/ DeferralEnds
           \/ tryBeginUpdate \/ verifyStagedAgent
           \/ PrepareFails \/ GraceOver \/ Shutdown \/ ShutdownFails \/ HandoffTimeout
  BY <1>4, <1>6 DEF checkSelfUpdate, stageAgentUpdate, StageFails, IdleBridges,
     bridgeDeferralDeadline, DeferralEnds, tryBeginUpdate, verifyStagedAgent, PrepareFails,
     GraceOver, Shutdown, ShutdownFails, HandoffTimeout
<1>7. ASSUME NEW h \in Helper,
             \/ scheduleHelperUpdate(h) \/ HelperExitedEarly(h)
             \/ execInstalledUpdate(h) \/ Exec(h) \/ ExecFails(h) \/ ExecRestoreFails(h)
      PROVE  AttemptRenewed
  BY <1>4, <1>7 DEF scheduleHelperUpdate, HelperExitedEarly, execInstalledUpdate, Exec, ExecFails,
     ExecRestoreFails
<1>8. ASSUME NEW h \in Helper, HelperStep(h) \/ HelperKilled(h)
      PROVE  AttemptRenewed
  BY <1>4, <1>8 DEF HelperStep, stopUpdatedService, StopFails, WaitTimeout, MoveAside,
     MoveAsideFails, replaceExecutable, ReplaceFails, RestoreFails, startUpdatedAgent, StartFails,
     HelperKilled
<1>9. CASE UNCHANGED vars
  BY <1>4, <1>9 DEF vars
<1> QED
  BY <1>2, <1>3, <1>5, <1>6, <1>7, <1>8, <1>9 DEF Next, UpdaterStep

\* A release whose installation failed is not attempted again within the
\* backoff, whatever crashed or restarted in between.
THEOREM BackoffKept == Spec => BackoffRespected
<1>1. Init /\ [][Next]_vars => []UpdateInv
  BY UpdateInit, UpdateStep, PTL
<1>2. UpdateInv /\ [Next]_vars => [AttemptRenewed]_vars
  BY AttemptSteps
<1>3. Init /\ [][Next]_vars => [][AttemptRenewed]_vars
  BY <1>1, <1>2, PTL
<1> QED
  BY <1>3, PTL DEF Spec, BackoffRespected, AttemptRenewed
=============================================================================
