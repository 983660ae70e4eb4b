------------------------------ MODULE HostKeys ------------------------------
(***************************************************************************)
(* SSH host keys, trusted on first use (shellagent/netfiles): every        *)
(* network-file request opens its own connection, and VerifyHostKey reads  *)
(* known-hosts.json, compares or adds the fingerprint, writes a temporary  *)
(* file of one fixed name and renames it.  No lock is held, and the agent  *)
(* may be killed at any moment.  A writer whose temporary file another one *)
(* has renamed writes into known-hosts.json.                               *)
(***************************************************************************)
EXTENDS Naturals, FiniteSets

CONSTANTS
  Verifier,       \* connections that are being opened
  SshHost,        \* host:port
  HostKey,        \* fingerprints
  MaxOpens,       \* connections that are opened
  MaxHostCrashes  \* times that the agent is killed

ASSUME HostKeysAssumption == MaxOpens \in Nat /\ MaxHostCrashes \in Nat

VARIABLES
  verify,      \* VerifyHostKey of each connection
  knownHosts,  \* the pins in known-hosts.json
  temporary,   \* what known-hosts.json.tmp holds, if it is there
  accepted,    \* (host, key) pairs that a connection went on with
  overlapped,  \* two first connections have overlapped
  opens, hostCrashes

hostVars == <<verify, knownHosts, temporary, accepted, overlapped, opens, hostCrashes>>
fileVars == <<knownHosts, temporary>>

\* A file that is absent, empty or torn reads as one without pins.
NoPins == <<>>
Pins == UNION {[S -> HostKey] : S \in SUBSET SshHost}
NoFile == [there |-> FALSE, pins |-> NoPins]
Unverified == [at |-> "idle"]

\* VerifyHostKey of a connection: what it will write, and what its descriptor
\* of the temporary file names by now.
Verification == [at : {"read", "create", "write", "rename"}, host : SshHost, key : HostKey,
                 pins : Pins, fd : {"none", "temporary", "known", "gone"}]

\* Types of the files and of the verifications.
HostKeysTypeOK ==
  /\ knownHosts \in Pins /\ temporary \in [there : BOOLEAN, pins : Pins]
  /\ verify \in [Verifier -> {Unverified} \cup Verification]
  /\ accepted \subseteq SshHost \X HostKey /\ overlapped \in BOOLEAN
  /\ opens \in 0 .. MaxOpens /\ hostCrashes \in 0 .. MaxHostCrashes

HostKeysInit ==
  /\ verify = [v \in Verifier |-> Unverified] /\ knownHosts = NoPins /\ temporary = NoFile
  /\ accepted = {} /\ overlapped = FALSE /\ opens = 0 /\ hostCrashes = 0

-----------------------------------------------------------------------------
SetVerify(v, state) == verify' = [verify EXCEPT ![v] = state]

\* Another connection is between its read and its rename.
Creating == \E v \in Verifier : verify[v].at \in {"create", "write", "rename"}

\* Open dials, and the server presents a key.
Open(v, h, k) ==
  /\ verify[v].at = "idle" /\ opens < MaxOpens /\ opens' = opens + 1
  /\ SetVerify(v, [at |-> "read", host |-> h, key |-> k, pins |-> NoPins, fd |-> "none"])
  /\ UNCHANGED <<fileVars, accepted, overlapped, hostCrashes>>

\* The pins and a new one.
Pinned(pins, h, k) == [g \in DOMAIN pins \cup {h} |-> IF g = h THEN k ELSE pins[g]]

\* Mutant: a host that is pinned is not compared.
ReadsTrusting(v) ==
  LET h == verify[v].host k == verify[v].key IN
  /\ verify[v].at = "read"
  /\ SetVerify(v, [verify[v] EXCEPT !.at = "create", !.pins = Pinned(knownHosts, h, k)])
  /\ overlapped' = (overlapped \/ Creating)
  /\ UNCHANGED <<fileVars, accepted, opens, hostCrashes>>

\* Read and compare: equal, different, or not pinned yet.
Reads(v) ==
  LET h == verify[v].host k == verify[v].key IN
  /\ verify[v].at = "read"
  /\ IF h \in DOMAIN knownHosts
       THEN /\ SetVerify(v, Unverified) /\ UNCHANGED overlapped
            /\ accepted' = IF knownHosts[h] = k THEN accepted \cup {<<h, k>>} ELSE accepted
       ELSE /\ SetVerify(v, [verify[v] EXCEPT !.at = "create", !.pins = Pinned(knownHosts, h, k)])
            /\ overlapped' = (overlapped \/ Creating)
            /\ UNCHANGED accepted
  /\ UNCHANGED <<fileVars, opens, hostCrashes>>

\* os.WriteFile opens known-hosts.json.tmp, created or truncated ...
CreateTemporary(v) ==
  /\ verify[v].at = "create"
  /\ temporary' = [there |-> TRUE, pins |-> NoPins]
  /\ SetVerify(v, [verify[v] EXCEPT !.at = "write", !.fd = "temporary"])
  /\ UNCHANGED <<knownHosts, accepted, overlapped, opens, hostCrashes>>

\* ... and writes.  Over the longer text of another one it replaces only the
\* beginning.
Overwritten(old, new) ==
  IF Cardinality(DOMAIN old) > Cardinality(DOMAIN new) THEN NoPins ELSE new

WriteTemporary(v) ==
  LET new == verify[v].pins IN
  /\ verify[v].at = "write" /\ SetVerify(v, [verify[v] EXCEPT !.at = "rename"])
  /\ temporary' = IF verify[v].fd = "temporary"
                    THEN [temporary EXCEPT !.pins = Overwritten(@, new)] ELSE temporary
  /\ knownHosts' = IF verify[v].fd = "known" THEN Overwritten(knownHosts, new) ELSE knownHosts
  /\ UNCHANGED <<accepted, overlapped, opens, hostCrashes>>

\* Mutant: known-hosts.json is truncated and written in place.
RenameInPlace(v) ==
  /\ verify[v].at = "rename" /\ temporary' = NoFile /\ UNCHANGED <<overlapped, opens, hostCrashes>>
  /\ IF knownHosts # NoPins /\ knownHosts # verify[v].pins
       THEN knownHosts' = NoPins /\ UNCHANGED <<verify, accepted>>
       ELSE /\ knownHosts' = verify[v].pins /\ SetVerify(v, Unverified)
            /\ accepted' = accepted \cup {<<verify[v].host, verify[v].key>>}

\* os.Rename fails when another one has renamed the file.  Who still writes
\* into it writes into known-hosts.json from now on.
RenameTemporary(v) ==
  /\ verify[v].at = "rename" /\ UNCHANGED <<overlapped, opens, hostCrashes>>
  /\ IF ~temporary.there
       THEN SetVerify(v, Unverified) /\ UNCHANGED <<knownHosts, temporary, accepted>>
       ELSE /\ knownHosts' = temporary.pins /\ temporary' = NoFile
            /\ accepted' = accepted \cup {<<verify[v].host, verify[v].key>>}
            /\ verify' = [w \in Verifier |->
                 IF w = v THEN Unverified
                 ELSE IF verify[w].at # "write" THEN verify[w]
                 ELSE [verify[w] EXCEPT !.fd = IF @ = "temporary" THEN "known" ELSE "gone"]]

\* A read or a write that fails, and the connection with it.
VerifyFails(v) ==
  /\ verify[v].at # "idle" /\ SetVerify(v, Unverified)
  /\ UNCHANGED <<fileVars, accepted, overlapped, opens, hostCrashes>>

\* The agent is killed and started again.
AgentKilled ==
  /\ hostCrashes < MaxHostCrashes /\ hostCrashes' = hostCrashes + 1
  /\ verify' = [v \in Verifier |-> Unverified]
  /\ UNCHANGED <<fileVars, accepted, overlapped, opens>>

HostKeysNext ==
  \/ AgentKilled
  \/ \E v \in Verifier :
       \/ \E h \in SshHost, k \in HostKey : Open(v, h, k)
       \/ Reads(v) \/ CreateTemporary(v) \/ WriteTemporary(v) \/ RenameTemporary(v)
       \/ VerifyFails(v)

HostKeysSpec == HostKeysInit /\ [][HostKeysNext]_hostVars

\* A host that was accepted once is never accepted with another key, whatever
\* fails and whenever the agent is killed, as long as no two first
\* connections overlap: those lose or tear each other's pins.
KeyStaysPinned ==
  ~overlapped => \A p, q \in accepted : p[1] = q[1] => p[2] = q[2]

\* Types, and trust on first use only (VerifyHostKey).
HostKeysSafe == HostKeysTypeOK /\ KeyStaysPinned

\* A first connection to one host keeps the pins of the others.
OtherPinsKept ==
  ~overlapped => \A h \in DOMAIN knownHosts :
    h \in DOMAIN knownHosts' /\ knownHosts'[h] = knownHosts[h]
=============================================================================
