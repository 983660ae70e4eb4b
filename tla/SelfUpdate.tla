----------------------------- MODULE SelfUpdate -----------------------------
(***************************************************************************)
(* The self-updater (shellagent/updater.go) and the hand-over to the new   *)
(* binary on Unix (update_helper.go, update_helper_unix.go): the release   *)
(* check, staging, the deferral while bridges are active, the attempt file *)
(* and its backoff, the helper that stops the service, replaces the        *)
(* executable and starts the service again, and in the foreground the      *)
(* replacement by exec.                                                    *)
(*                                                                         *)
(* A release is a number.  Time is kept as ages: Tick makes everything one *)
(* unit older, and an age stops growing once no comparison can tell.  The  *)
(* bridges are abstract here (Bridges.tla has them in detail): one bit,    *)
(* whether any is active.                                                  *)
(***************************************************************************)
EXTENDS Naturals

CONSTANTS
  MaxVersion,    \* the newest release that appears
  Delay,         \* MaxBridgeDelay, in ticks
  Backoff,       \* updateAttemptBackoff, in ticks
  Helper,        \* update helper processes
  Mode,          \* how the agent may be started: program.serviceMode or not
  Faults,        \* which of FaultKind may happen
  MaxFaults      \* how often

FaultKind == {"stage", "damage", "prepare", "helper", "helper late", "shutdown", "stop", "exec",
              "replace", "restore", "start", "crash"}

ASSUME VersionAssumption == MaxVersion \in Nat \ {0}
ASSUME TimeAssumption == Delay \in Nat \ {0} /\ Backoff \in Nat \ {0}
ASSUME ModeAssumption == Mode \subseteq {"service", "foreground"}
ASSUME FaultAssumption == Faults \subseteq FaultKind /\ MaxFaults \in Nat

VARIABLES
  latest,     \* the release that GitHub reports as the latest
  proc,       \* version of the running agent process, 0 if none
  manager,    \* the service manager has the job loaded or not; "foreground" without one
  installed,  \* version of the installed executable, 0 while it is moved aside
  staged,     \* updates/<asset> for each version
  attempt,    \* update-attempt.json: version (0 if none) and age
  active,     \* ActiveBridges() # 0
  pending,    \* updatePending
  deferred,   \* age of updateDeferredAt, NotDeferred if zero
  upc,        \* control of checkSelfUpdate and OnUpdate
  rel, force, \* its release and waitForIdleBridges' first result
  hpc,        \* control of a helper
  parent,     \* whether the process of its --update-parent still runs
  prepared,   \* its --update-source: version, 0 if the file is gone
  backup,     \* its backup of the executable
  newest,     \* history: newest version that ever ran
  faults,     \* faults left
  happened    \* history: the kinds of fault so far

procVars == <<active, pending, deferred, upc, rel, force>>
helperVars == <<hpc, parent, prepared, backup>>
faultVars == <<faults, happened>>
vars == <<latest, proc, manager, installed, staged, attempt, procVars, helperVars, newest, faultVars>>

Version == 1 .. MaxVersion
serviceMode == manager # "foreground"
NotDeferred == Delay + 1  \* updateDeferredAt is the zero time
NoAttempt == [v |-> 0, age |-> Backoff]

\* Mutant: an age without end.
OlderUnbounded(age, limit) == age + 1

\* An age after one more tick.
Older(age, limit) == IF age < limit THEN age + 1 ELSE age

TypeOK ==
  /\ latest \in Version /\ proc \in Version \cup {0}
  /\ manager \in {"loaded", "unloaded", "foreground"} /\ installed \in Version \cup {0}
  /\ staged \in [Version -> {"none", "good", "bad"}]
  /\ attempt \in [v : Version \cup {0}, age : 0 .. Backoff]
  /\ active \in BOOLEAN /\ pending \in BOOLEAN
  /\ deferred \in 0 .. NotDeferred
  /\ upc \in {"down", "idle", "stage", "wait", "begin", "verify", "record", "apply",
              "grace", "shutdown", "handoff", "exec", "inert"}
  /\ rel \in Version \cup {0} /\ force \in BOOLEAN
  /\ hpc \in [Helper -> {"gone", "stop", "wait", "moved", "replaced"}]
  /\ parent \in [Helper -> BOOLEAN]
  /\ prepared \in [Helper -> Version \cup {0}] /\ backup \in [Helper -> Version \cup {0}]
  /\ newest \in Version /\ faults \in 0 .. MaxFaults /\ happened \subseteq FaultKind

Init ==
  /\ latest = 1 /\ proc = 1 /\ installed = 1
  /\ manager \in {IF m = "service" THEN "loaded" ELSE m : m \in Mode}
  /\ staged = [v \in Version |-> "none"] /\ attempt = NoAttempt
  /\ active = FALSE /\ pending = FALSE /\ deferred = NotDeferred
  /\ upc = "idle" /\ rel = 0 /\ force = FALSE
  /\ hpc = [h \in Helper |-> "gone"] /\ parent = [h \in Helper |-> FALSE]
  /\ prepared = [h \in Helper |-> 0] /\ backup = [h \in Helper |-> 0]
  /\ newest = 1 /\ faults = MaxFaults /\ happened = {}

Fault(kind) ==
  /\ kind \in Faults /\ faults > 0
  /\ faults' = faults - 1 /\ happened' = happened \cup {kind}

\* The updater's control moves on, everything else of the process stays.
Goto(label) == upc' = label /\ UNCHANGED <<active, pending, deferred, rel, force>>

\* The check is over.
Idles ==
  /\ upc' = "idle" /\ rel' = 0 /\ force' = FALSE
  /\ UNCHANGED <<active, deferred>>

\* cancelUpdate, and the check is over.
cancelUpdate == pending' = FALSE /\ Idles

\* The process is gone.
Dies ==
  /\ proc' = 0 /\ upc' = "down"
  /\ active' = FALSE /\ pending' = FALSE /\ deferred' = NotDeferred
  /\ rel' = 0 /\ force' = FALSE
  /\ parent' = [h \in Helper |-> FALSE]

-----------------------------------------------------------------------------
(* The environment: releases, time, bridges, the disk, the service manager *)

Publish ==
  /\ latest < MaxVersion
  /\ latest' = latest + 1
  /\ UNCHANGED <<proc, manager, installed, staged, attempt, procVars, helperVars, newest, faultVars>>

\* A tick is long: the timers of a hand-over are minutes, and end before it.
HandingOver ==
  \/ upc \in {"record", "apply", "grace", "shutdown", "handoff", "exec"}
  \/ \E h \in Helper : hpc[h] # "gone"

Tick ==
  /\ ~HandingOver
  /\ attempt' = [attempt EXCEPT !.age = Older(@, Backoff)]
  /\ deferred' = IF deferred = NotDeferred THEN deferred ELSE Older(deferred, Delay)
  /\ UNCHANGED <<latest, proc, manager, installed, staged, active, pending, upc, rel, force,
                 helperVars, newest, faultVars>>

\* lockBridgeOpen refuses opens while an update is pending.
BridgeOpens ==
  /\ upc \notin {"down", "inert", "handoff"} /\ ~pending /\ ~active
  /\ active' = TRUE
  /\ UNCHANGED <<latest, proc, manager, installed, staged, attempt, pending, deferred, upc, rel,
                 force, helperVars, newest, faultVars>>

BridgeCloses ==
  /\ active
  /\ active' = FALSE
  /\ UNCHANGED <<latest, proc, manager, installed, staged, attempt, pending, deferred, upc, rel,
                 force, helperVars, newest, faultVars>>

\* A staged file is damaged while it sits on disk.
StagedDamaged(v) ==
  /\ staged[v] = "good" /\ upc \in {"idle", "wait", "begin"} /\ Fault("damage")
  /\ staged' = [staged EXCEPT ![v] = "bad"]
  /\ UNCHANGED <<latest, proc, manager, installed, attempt, procVars, helperVars, newest>>

\* Mutant: the attempt stays.
StartKeepsAttempt ==
  /\ proc = 0 /\ installed # 0 /\ manager # "unloaded"
  /\ proc' = installed /\ upc' = "idle"
  /\ newest' = IF installed > newest THEN installed ELSE newest
  /\ UNCHANGED <<latest, manager, installed, staged, attempt, active, pending, deferred, rel, force,
                 helperVars, faultVars>>

\* The service manager, or the user in the foreground, starts the installed
\* executable.  clearCompletedUpdateAttempt removes the attempt at the running version.
startSelfUpdater ==
  /\ proc = 0 /\ installed # 0 /\ manager # "unloaded"
  /\ proc' = installed /\ upc' = "idle"
  /\ newest' = IF installed > newest THEN installed ELSE newest
  /\ attempt' = IF attempt.v = installed THEN NoAttempt ELSE attempt
  /\ UNCHANGED <<latest, manager, installed, staged, active, pending, deferred, rel, force,
                 helperVars, faultVars>>

Crash ==
  /\ proc # 0 /\ Fault("crash")
  /\ Dies
  /\ UNCHANGED <<latest, manager, installed, staged, attempt, hpc, prepared, backup, newest>>

-----------------------------------------------------------------------------
(* checkSelfUpdateWithVerifier *)

recentUpdateAttempt(v) == attempt.v = v /\ attempt.age < Backoff

\* Mutant: the backoff is not consulted.
checkWithoutBackoff ==
  /\ upc = "idle" /\ latest > proc
  /\ upc' = "stage" /\ rel' = latest
  /\ UNCHANGED <<latest, proc, manager, installed, staged, attempt, active, pending, deferred,
                 force, helperVars, newest, faultVars>>

\* fetchLatestRelease, newerRelease, recentUpdateAttempt, selectAgentAssets.
\* A check that fails, or finds nothing new, changes nothing.
checkSelfUpdate ==
  /\ upc = "idle" /\ latest > proc /\ ~recentUpdateAttempt(latest)
  /\ upc' = "stage" /\ rel' = latest
  /\ UNCHANGED <<latest, proc, manager, installed, staged, attempt, active, pending, deferred,
                 force, helperVars, newest, faultVars>>

\* stageAgentUpdate: a staged file that still verifies is reused, another one
\* is removed and downloaded again.
stageAgentUpdate ==
  /\ upc = "stage"
  /\ staged' = [staged EXCEPT ![rel] = "good"]
  /\ Goto("wait")
  /\ UNCHANGED <<latest, proc, manager, installed, attempt, helperVars, newest, faultVars>>

StageFails ==
  /\ upc = "stage" /\ Fault("stage")
  /\ staged' = [staged EXCEPT ![rel] = IF @ = "good" THEN @ ELSE "none"]
  /\ UNCHANGED pending /\ Idles
  /\ UNCHANGED <<latest, proc, manager, installed, attempt, helperVars, newest>>

\* waitForIdleBridges: no bridge is active.
IdleBridges ==
  /\ upc = "wait" /\ ~active
  /\ force' = FALSE /\ upc' = "begin"
  /\ UNCHANGED <<latest, proc, manager, installed, staged, attempt, active, pending, deferred,
                 rel, helperVars, newest, faultVars>>

\* Mutant: every poll restarts the deferral.
deferralRestarts ==
  /\ upc = "wait" /\ active
  /\ deferred' = 0
  /\ UNCHANGED <<latest, proc, manager, installed, staged, attempt, active, pending, upc, rel,
                 force, helperVars, newest, faultVars>>

\* bridgeDeferralDeadline: the first deferral of the process sets the time.
bridgeDeferralDeadline ==
  /\ upc = "wait" /\ active /\ deferred = NotDeferred
  /\ deferred' = 0
  /\ UNCHANGED <<latest, proc, manager, installed, staged, attempt, active, pending, upc, rel,
                 force, helperVars, newest, faultVars>>

\* The deadline is over.
DeferralEnds ==
  /\ upc = "wait" /\ deferred = Delay
  /\ force' = active /\ upc' = "begin"
  /\ UNCHANGED <<latest, proc, manager, installed, staged, attempt, active, pending, deferred,
                 rel, helperVars, newest, faultVars>>

\* tryBeginUpdate; a bridge that opened meanwhile ends this check.
tryBeginUpdate ==
  /\ upc = "begin"
  /\ \/ /\ (force \/ ~active)
        /\ pending' = TRUE /\ upc' = "verify"
        /\ UNCHANGED <<active, deferred, rel, force>>
     \/ /\ pending \/ (~force /\ active)
        /\ UNCHANGED pending /\ Idles
  /\ UNCHANGED <<latest, proc, manager, installed, staged, attempt, helperVars, newest, faultVars>>

\* verifyStagedAgent, once more.
verifyStagedAgent ==
  /\ upc = "verify"
  /\ \/ staged[rel] = "good" /\ Goto("record") /\ UNCHANGED staged
     \/ staged[rel] # "good" /\ cancelUpdate /\ staged' = [staged EXCEPT ![rel] = "none"]
  /\ UNCHANGED <<latest, proc, manager, installed, attempt, helperVars, newest, faultVars>>

recordUpdateAttempt ==
  /\ upc = "record"
  /\ attempt' = [v |-> rel, age |-> 0]
  /\ Goto("apply")
  /\ UNCHANGED <<latest, proc, manager, installed, staged, helperVars, newest, faultVars>>

-----------------------------------------------------------------------------
(* OnUpdate: scheduleSelfUpdate *)

\* Mutant: the failed update keeps the bridges locked.
prepareFailsPending ==
  /\ upc = "apply" /\ Fault("prepare")
  /\ UNCHANGED pending /\ Idles
  /\ prepared' = [h \in Helper |-> 0] /\ backup' = [h \in Helper |-> 0]
  /\ UNCHANGED <<latest, proc, manager, installed, staged, attempt, hpc, parent, newest>>

\* cleanupStaleUpdateArtifacts, then prepareReplacement, the copy of the
\* helper or its start fails.
PrepareFails ==
  /\ upc = "apply" /\ Fault("prepare")
  /\ cancelUpdate
  /\ prepared' = [h \in Helper |-> 0] /\ backup' = [h \in Helper |-> 0]
  /\ UNCHANGED <<latest, proc, manager, installed, staged, attempt, hpc, parent, newest>>

\* Mutant: what an earlier helper left is not cleaned up.
scheduleWithoutCleanup(h) ==
  /\ upc = "apply" /\ serviceMode /\ hpc[h] = "gone"
  /\ prepared' = [prepared EXCEPT ![h] = rel]
  /\ hpc' = [hpc EXCEPT ![h] = "stop"] /\ parent' = [parent EXCEPT ![h] = TRUE]
  /\ Goto("grace")
  /\ UNCHANGED <<latest, proc, manager, installed, staged, attempt, backup, newest, faultVars>>

\* scheduleHelperUpdate starts the helper h.
scheduleHelperUpdate(h) ==
  /\ upc = "apply" /\ serviceMode /\ hpc[h] = "gone"
  /\ prepared' = [g \in Helper |-> IF g = h THEN rel ELSE 0]
  /\ backup' = [g \in Helper |-> 0]
  /\ hpc' = [hpc EXCEPT ![h] = "stop"] /\ parent' = [parent EXCEPT ![h] = TRUE]
  /\ Goto("grace")
  /\ UNCHANGED <<latest, proc, manager, installed, staged, attempt, newest, faultVars>>

\* The helper died within helperTakeoverGrace: the agent keeps serving.
HelperExitedEarly(h) ==
  /\ upc = "grace" /\ parent[h] /\ hpc[h] = "gone"
  /\ prepared' = [prepared EXCEPT ![h] = 0] /\ parent' = [parent EXCEPT ![h] = FALSE]
  /\ cancelUpdate
  /\ UNCHANGED <<latest, proc, manager, installed, staged, attempt, hpc, backup, newest, faultVars>>

GraceOver ==
  /\ upc = "grace"
  /\ Goto("shutdown")
  /\ UNCHANGED <<latest, proc, manager, installed, staged, attempt, helperVars, newest, faultVars>>

\* execInstalledUpdate: a foreground agent prepares the replacement.
execInstalledUpdate(h) ==
  /\ upc = "apply" /\ ~serviceMode
  /\ prepared' = [g \in Helper |-> IF g = h THEN rel ELSE 0]
  /\ backup' = [g \in Helper |-> 0]
  /\ Goto("shutdown")
  /\ UNCHANGED <<latest, proc, manager, installed, staged, attempt, hpc, parent, newest, faultVars>>

\* Server.Shutdown closes the listener and stops the updater's own context.
Shutdown ==
  /\ upc = "shutdown"
  /\ Goto(IF serviceMode THEN "handoff" ELSE "exec")
  /\ UNCHANGED <<latest, proc, manager, installed, staged, attempt, helperVars, newest, faultVars>>

\* Shutdown runs into its timeout with the listener closed: the prepared file
\* is removed and the update cancelled.  A service process stays, serving
\* nothing; in the foreground listenAndServe returns and main ends.
ShutdownFails ==
  /\ upc = "shutdown" /\ Fault("shutdown")
  /\ prepared' = [h \in Helper |-> IF parent[h] \/ ~serviceMode THEN 0 ELSE prepared[h]]
  /\ \/ /\ serviceMode
        /\ pending' = FALSE /\ upc' = "inert" /\ rel' = 0 /\ force' = FALSE
        /\ UNCHANGED <<proc, active, deferred, parent>>
     \/ ~serviceMode /\ Dies
  /\ UNCHANGED <<latest, manager, installed, staged, attempt, hpc, backup, newest>>

\* waitForHelperToTakeOver: after two minutes the service process exits.  By
\* then the helper has given up, which waits for one minute: the stop command
\* is taken to need less than the other.
HandoffTimeout ==
  /\ upc = "handoff" /\ \A h \in Helper : parent[h] => hpc[h] = "gone"
  /\ Dies
  /\ UNCHANGED <<latest, manager, installed, staged, attempt, hpc, prepared, backup, newest, faultVars>>

\* In the foreground: replaceExecutable and exec of the new version.
Exec(h) ==
  /\ upc = "exec" /\ prepared[h] # 0
  /\ installed' = prepared[h] /\ prepared' = [prepared EXCEPT ![h] = 0]
  /\ proc' = prepared[h] /\ upc' = "idle"
  /\ newest' = IF prepared[h] > newest THEN prepared[h] ELSE newest
  /\ attempt' = IF attempt.v = prepared[h] THEN NoAttempt ELSE attempt
  /\ active' = FALSE /\ pending' = FALSE /\ deferred' = NotDeferred
  /\ rel' = 0 /\ force' = FALSE
  /\ UNCHANGED <<latest, manager, staged, hpc, parent, backup, faultVars>>

\* The replacement fails and leaves the prepared file, or the exec fails
\* after it: the old executable is in its place (again), and the process exits.
ExecFails(h) ==
  /\ upc = "exec" /\ prepared[h] # 0 /\ Fault("exec")
  /\ \E left \in {0, prepared[h]} : prepared' = [prepared EXCEPT ![h] = left]
  /\ Dies
  /\ UNCHANGED <<latest, manager, installed, staged, attempt, hpc, backup, newest>>

\* The old executable cannot be put back either, and stays where it was moved:
\* nothing is installed, or the version whose exec failed is.
ExecRestoreFails(h) ==
  /\ upc = "exec" /\ prepared[h] # 0 /\ Fault("restore")
  /\ backup' = [backup EXCEPT ![h] = installed]
  /\ \/ installed' = 0 /\ UNCHANGED prepared
     \/ installed' = prepared[h] /\ prepared' = [prepared EXCEPT ![h] = 0]
  /\ Dies
  /\ UNCHANGED <<latest, manager, staged, attempt, hpc, newest>>

-----------------------------------------------------------------------------
(* runUpdateHelper, as helper h *)

\* stopUpdatedService: the service manager unloads the job and ends the agent.
stopUpdatedService(h) ==
  /\ hpc[h] = "stop"
  /\ hpc' = [hpc EXCEPT ![h] = "wait"]
  /\ manager' = "unloaded"
  /\ IF proc # 0 THEN Dies ELSE UNCHANGED <<proc, procVars, parent>>
  /\ UNCHANGED <<latest, installed, staged, attempt, prepared, backup, newest, faultVars>>

\* The stop command fails; the helper goes on.
StopFails(h) ==
  /\ hpc[h] = "stop" /\ Fault("stop")
  /\ hpc' = [hpc EXCEPT ![h] = "wait"]
  /\ UNCHANGED <<latest, proc, manager, installed, staged, attempt, procVars, parent, prepared,
                 backup, newest>>

\* waitForProcessExit gives up after one minute.
WaitTimeout(h) ==
  /\ hpc[h] = "wait" /\ parent[h]
  /\ hpc' = [hpc EXCEPT ![h] = "gone"]
  /\ UNCHANGED <<latest, proc, manager, installed, staged, attempt, procVars, parent, prepared,
                 backup, newest, faultVars>>

\* replaceExecutable moves the old executable aside ...
MoveAside(h) ==
  /\ hpc[h] = "wait" /\ ~parent[h]
  /\ IF installed = 0
     THEN hpc' = [hpc EXCEPT ![h] = "gone"] /\ UNCHANGED <<installed, backup>>
     ELSE /\ hpc' = [hpc EXCEPT ![h] = "moved"]
          /\ backup' = [backup EXCEPT ![h] = installed] /\ installed' = 0
  /\ UNCHANGED <<latest, proc, manager, staged, attempt, procVars, parent, prepared, newest, faultVars>>

\* Mutant: a failed replacement is not undone.
replaceWithoutRestore(h) ==
  /\ hpc[h] = "moved"
  /\ IF prepared[h] # 0
     THEN installed' = prepared[h] /\ hpc' = [hpc EXCEPT ![h] = "replaced"]
     ELSE installed' = installed /\ hpc' = [hpc EXCEPT ![h] = "gone"]
  /\ prepared' = [prepared EXCEPT ![h] = 0]
  /\ UNCHANGED <<latest, proc, manager, staged, attempt, procVars, parent, backup, newest, faultVars>>

\* ... and renames the prepared one, or puts the old one back.
replaceExecutable(h) ==
  /\ hpc[h] = "moved"
  /\ \/ /\ prepared[h] # 0
        /\ installed' = prepared[h] /\ prepared' = [prepared EXCEPT ![h] = 0]
        /\ hpc' = [hpc EXCEPT ![h] = "replaced"]
        /\ UNCHANGED backup
     \/ /\ prepared[h] = 0
        /\ installed' = IF backup[h] # 0 THEN backup[h] ELSE installed
        /\ backup' = [backup EXCEPT ![h] = 0]
        /\ hpc' = [hpc EXCEPT ![h] = "gone"]
        /\ UNCHANGED prepared
  /\ UNCHANGED <<latest, proc, manager, staged, attempt, procVars, parent, newest, faultVars>>

\* The first rename fails.  The helper ends, and leaves the service stopped.
MoveAsideFails(h) ==
  /\ hpc[h] = "wait" /\ ~parent[h] /\ installed # 0 /\ Fault("replace")
  /\ hpc' = [hpc EXCEPT ![h] = "gone"]
  /\ UNCHANGED <<latest, proc, manager, installed, staged, attempt, procVars, parent, prepared,
                 backup, newest>>

\* The second fails: the old executable is put back.  The helper ends, and
\* leaves the service stopped and the prepared file.
ReplaceFails(h) ==
  /\ hpc[h] = "moved" /\ Fault("replace")
  /\ installed' = IF backup[h] # 0 THEN backup[h] ELSE installed
  /\ backup' = [backup EXCEPT ![h] = 0]
  /\ hpc' = [hpc EXCEPT ![h] = "gone"]
  /\ UNCHANGED <<latest, proc, manager, staged, attempt, procVars, parent, prepared, newest>>

\* The third fails too, which puts the old one back: its error is ignored.
RestoreFails(h) ==
  /\ hpc[h] = "moved" /\ Fault("restore")
  /\ hpc' = [hpc EXCEPT ![h] = "gone"]
  /\ UNCHANGED <<latest, proc, manager, installed, staged, attempt, procVars, parent, prepared,
                 backup, newest>>

\* Mutant: the service is left stopped.
finishWithoutStart(h) ==
  /\ hpc[h] = "replaced"
  /\ hpc' = [hpc EXCEPT ![h] = "gone"] /\ backup' = [backup EXCEPT ![h] = 0]
  /\ UNCHANGED <<latest, proc, manager, installed, staged, attempt, procVars, parent, prepared,
                 newest, faultVars>>

\* startUpdatedAgent loads the service again; the backup is removed.
startUpdatedAgent(h) ==
  /\ hpc[h] = "replaced"
  /\ hpc' = [hpc EXCEPT ![h] = "gone"] /\ backup' = [backup EXCEPT ![h] = 0]
  /\ manager' = "loaded"
  /\ UNCHANGED <<latest, proc, installed, staged, attempt, procVars, parent, prepared, newest, faultVars>>

\* The start command fails, "restart deferred": the service stays stopped.
StartFails(h) ==
  /\ hpc[h] = "replaced" /\ Fault("start")
  /\ hpc' = [hpc EXCEPT ![h] = "gone"] /\ backup' = [backup EXCEPT ![h] = 0]
  /\ UNCHANGED <<latest, proc, manager, installed, staged, attempt, procVars, parent, prepared,
                 newest>>

\* The helper is killed before it has stopped the service, or later.
HelperKilled(h) ==
  /\ \/ hpc[h] = "stop" /\ Fault("helper")
     \/ hpc[h] \in {"wait", "moved", "replaced"} /\ Fault("helper late")
  /\ hpc' = [hpc EXCEPT ![h] = "gone"]
  /\ UNCHANGED <<latest, proc, manager, installed, staged, attempt, procVars, parent, prepared,
                 backup, newest>>

-----------------------------------------------------------------------------
UpdaterStep ==
  \/ checkSelfUpdate \/ stageAgentUpdate \/ StageFails
  \/ IdleBridges \/ bridgeDeferralDeadline \/ DeferralEnds
  \/ tryBeginUpdate \/ verifyStagedAgent \/ recordUpdateAttempt
  \/ PrepareFails \/ GraceOver \/ Shutdown \/ ShutdownFails \/ HandoffTimeout
  \/ \E h \in Helper : \/ scheduleHelperUpdate(h) \/ HelperExitedEarly(h)
                       \/ execInstalledUpdate(h)
                       \/ Exec(h) \/ ExecFails(h) \/ ExecRestoreFails(h)

HelperStep(h) ==
  \/ stopUpdatedService(h) \/ StopFails(h) \/ WaitTimeout(h)
  \/ MoveAside(h) \/ MoveAsideFails(h)
  \/ replaceExecutable(h) \/ ReplaceFails(h) \/ RestoreFails(h)
  \/ startUpdatedAgent(h) \/ StartFails(h)

Next ==
  \/ Publish \/ Tick \/ BridgeOpens \/ BridgeCloses \/ startSelfUpdater \/ Crash
  \/ \E v \in Version : StagedDamaged(v)
  \/ UpdaterStep
  \/ \E h \in Helper : HelperStep(h) \/ HelperKilled(h)

(***************************************************************************)
(* Fairness: time passes, the updater's goroutine and the helper are       *)
(* scheduled, and the service manager starts a loaded service (KeepAlive). *)
(* Bridges need never close and releases need never appear.                *)
(***************************************************************************)
Fairness ==
  /\ WF_vars(Tick) /\ WF_vars(UpdaterStep) /\ WF_vars(manager = "loaded" /\ startSelfUpdater)
  /\ \A h \in Helper : WF_vars(HelperStep(h))

Spec == Init /\ [][Next]_vars /\ Fairness

-----------------------------------------------------------------------------
(* Properties *)

\* A release whose installation failed is not attempted again within the
\* backoff, whatever crashed or restarted in between (updater.go:594-596).
BackoffRespected ==
  [][attempt'.v = attempt.v /\ attempt.v # 0 /\ attempt'.age < attempt.age => attempt.age = Backoff]_vars

\* The attempt file names an unfinished attempt: "a running agent of that
\* version clears it at startup" (updater.go:619-620).
AttemptUnfinished == proc # 0 => attempt.v # proc

\* No crash, failed replacement or late helper brings back a version older
\* than one that has already run.
NoDowngrade == proc # 0 => proc = newest

\* The installed executable is missing only between a helper's two renames, so
\* that a service that is started finds it, whatever else failed.  Three things
\* that nothing in the code handles are excepted: a rename that should put the
\* old executable back and fails, a helper killed between the renames, and a
\* crash, after which two helpers can work side by side.
InstalledOrReplacing ==
  installed = 0 => \/ \E h \in Helper : hpc[h] = "moved"
                   \/ {"restore", "helper late", "crash"} \cap happened # {}

\* What is installed, what runs and what is recorded of the attempt agree,
\* whatever step of an update fails or is cut off.
SelfUpdateSafe == TypeOK /\ AttemptUnfinished /\ NoDowngrade /\ InstalledOrReplacing

\* Bridges are refused only while an update is under way: it replaces the
\* process or is cancelled (agent.go:493-520).
PendingReleased == pending ~> ~pending

\* Active bridges defer a staged update but never for ever, even if they
\* never close (README.md:425-427).
DeferralBounded == upc = "wait" ~> upc # "wait"

\* No step of an update lasts for ever.
UpdateEnds == PendingReleased /\ DeferralBounded

Serving == proc # 0 /\ upc \notin {"down", "handoff", "inert"}

\* The faults after which nobody starts a service that its helper has stopped:
\* runUpdateHelper returns when the replacement fails, and only logs that a
\* restart is deferred (update_helper.go:223-232).
LeavesStopped == {"shutdown", "replace", "restore", "start", "helper late", "crash"}

\* A service whose update stops it serves again, when the staged file is
\* damaged, the replacement cannot be prepared, the helper is killed before
\* it stops the service, or the stop command fails.
ServiceRecovers ==
  (serviceMode /\ ~Serving) ~> (Serving \/ LeavesStopped \cap happened # {})

\* Violated.  The helper "stops/unloads the job ..., replaces the installed
\* file ..., and starts the new service" (README.md:428-431).
ServiceComesBack == ~Serving ~> Serving
=============================================================================
