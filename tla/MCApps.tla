------------------------------- MODULE MCApps -------------------------------
(***************************************************************************)
(* Six parts that share no state, for TLC: file promises, native apps, SSH *)
(* host keys, copies of network files, the account login and the sessions  *)
(* of an app.                                                              *)
(* focus is the part whose behaviours are explored; the others stay in one *)
(* initial state.                                                          *)
(***************************************************************************)
EXTENDS Promises, NativeApps, HostKeys, NetCopy, AccountLogin,
        AppSessions, TLC

VARIABLE focus

Part == {"promises", "native", "hosts", "copies", "login", "sessions"}
\* The old file, which one it is makes no difference.
FirstFile == "f1"

Init ==
  /\ focus \in Part
  /\ PromisesInit
  /\ NativeInit /\ Perm \ {Manage} \subseteq manifest
  /\ (focus = "native" \/ (~catalog /\ manifest = Perm))
  /\ HostKeysInit /\ LoginInit /\ AppSessionsInit
  /\ NetCopyInit /\ (focus = "copies" \/ protocol = "ftp")
  /\ dirs["local"][FirstFile] # NoEntry

Next ==
  /\ focus' = focus
  /\ \/ focus = "promises" /\ PromisesNext
     \/ focus # "promises" /\ UNCHANGED promiseVars
  /\ \/ focus = "native" /\ NativeNext
     \/ focus # "native" /\ UNCHANGED nativeVars
  /\ \/ focus = "hosts" /\ HostKeysNext
     \/ focus # "hosts" /\ UNCHANGED hostVars
  /\ \/ focus = "copies" /\ NetCopyNext
     \/ focus # "copies" /\ UNCHANGED copyVars
  /\ \/ focus = "login" /\ LoginNext
     \/ focus # "login" /\ UNCHANGED loginVars
  /\ \/ focus = "sessions" /\ AppSessionsNext
     \/ focus # "sessions" /\ UNCHANGED appSessionVars

\* A request does not undo what another one, or the user, has stored: a size,
\* the pins of other hosts, a live session (setFilePromiseSize, VerifyHostKey,
\* handleSessionsRPC).
OthersWorkKept ==
  [][SizeFixed /\ OtherPinsKept /\ LiveKept]_<<promiseVars, hostVars, appSessionVars>>

\* The sockets, connections, copies and callbacks of the parts are
\* one set.
Symm == Permutations(Client)
=============================================================================
