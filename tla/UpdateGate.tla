----------------------------- MODULE UpdateGate -----------------------------
(***************************************************************************)
(* What the agent promises about bridges and self-update, without locks,   *)
(* counters or goroutines: while an update is in progress no bridge is     *)
(* opened, and an update begins only when there is no bridge or when the   *)
(* deferral limit has passed.  Module Bridges implements this.             *)
(***************************************************************************)
CONSTANT Bridge

VARIABLES
  bridges,   \* bridges some session owns
  updating,  \* the agent has decided to replace itself
  overdue    \* bridges have deferred this update for the whole limit

gvars == <<bridges, updating, overdue>>

Init == bridges = {} /\ updating = FALSE /\ overdue = FALSE

Open(b) ==
  /\ ~updating /\ b \notin bridges
  /\ bridges' = bridges \cup {b}
  /\ UNCHANGED <<updating, overdue>>

\* One bridge, or all of a session's bridges at once.
Close(B) ==
  /\ bridges' = bridges \ B
  /\ UNCHANGED <<updating, overdue>>

DeferralExpires ==
  /\ ~updating /\ ~overdue /\ overdue' = TRUE
  /\ UNCHANGED <<bridges, updating>>

Begin ==
  /\ ~updating /\ (bridges = {} \/ overdue)
  /\ updating' = TRUE /\ overdue' = FALSE
  /\ UNCHANGED bridges

Cancel ==
  /\ updating /\ updating' = FALSE
  /\ UNCHANGED <<bridges, overdue>>

Next ==
  \/ \E b \in Bridge : Open(b)
  \/ \E B \in SUBSET bridges : Close(B)
  \/ DeferralExpires \/ Begin \/ Cancel

Spec == Init /\ [][Next]_gvars
=============================================================================
