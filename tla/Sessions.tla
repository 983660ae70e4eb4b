------------------------------ MODULE Sessions ------------------------------
(***************************************************************************)
(* The frame loop of a relay socket (shellagent/relay.go,                  *)
(* handleRelaySocket) and the processes that its frames start              *)
(* (proc/process.go).  One socket carries the sessions of several browsers *)
(* one after another: a frame of another session resets the loop.  The     *)
(* loop is one goroutine; each process has readers and a waiter.           *)
(* A loopback socket is the case of one session without encryption.        *)
(*                                                                         *)
(* Output is counted in chunks; both streams share one budget.             *)
(***************************************************************************)
EXTENDS Naturals, FiniteSets, FiniteSetsExt

CONSTANTS
  Tenant,     \* relay sessions
  Encrypted,  \* Transport.E2EEncryption
  MaxProcs,   \* processes that are started in all
  MaxChunks,  \* chunks that a process writes to each stream
  Budget,     \* MaxOutputBytes, in chunks
  MaxFrames   \* frames handled in all

ASSUME SessionsAssumption ==
  /\ Encrypted \in BOOLEAN /\ MaxProcs \in Nat /\ MaxChunks \in Nat /\ Budget \in Nat
  /\ MaxFrames \in Nat

VARIABLES
  loop,     \* "read" or "done"
  session,  \* the current session, or NoTenant
  hello,    \* authenticated
  token,    \* the end-to-end key of the session is agreed
  records,  \* Set.records: handles that frames can address
  proc,     \* the processes that were started
  frames    \* frames handled

sessionVars == <<loop, session, hello, token, records, proc, frames>>

NoTenant == "none"
Stream == {"stdout", "stderr"}
Streams(p) == IF proc[p].pty THEN {"stdout"} ELSE Stream

ProcType ==
  [owner : Tenant, pty : BOOLEAN, state : {"running", "killed", "exited"},
   held : BOOLEAN,                         \* a descendant keeps the pipes open
   pipe : [Stream -> 0 .. MaxChunks], made : [Stream -> 0 .. MaxChunks],
   reader : [Stream -> {"copy", "eof"}], sent : 0 .. 2 * MaxChunks,
   waiter : {"drain", "wait", "exit", "forget", "gone"},
   closes : 0 .. 2]                        \* times the terminal was closed

\* Types of all the variables of the frame loop and its processes.
SessionsTypeOK ==
  /\ loop \in {"read", "done"}
  /\ session \in Tenant \cup {NoTenant}
  /\ hello \in BOOLEAN /\ token \in BOOLEAN
  /\ records \subseteq DOMAIN proc
  /\ \E n \in 0 .. MaxProcs : proc \in [1 .. n -> ProcType]
  /\ frames \in 0 .. MaxFrames

SessionsInit ==
  /\ loop = "read" /\ session = NoTenant /\ hello = FALSE /\ token = FALSE
  /\ records = {} /\ proc = [p \in 1 .. 0 |-> 0] /\ frames = 0

-----------------------------------------------------------------------------
(* CloseAll *)

\* Mutant: the terminal is closed without sync.OnceFunc.
ClosedAgain(r) ==
  [r EXCEPT !.state = IF @ = "running" THEN "killed" ELSE @, !.closes = IF r.pty THEN @ + 1 ELSE @]

\* Cancel, kill and close the terminal, which happens once.
Closed(r) ==
  [r EXCEPT !.state = IF @ = "running" THEN "killed" ELSE @,
            !.closes = IF r.pty /\ @ = 0 THEN 1 ELSE @]

CloseAll(R) == [p \in DOMAIN proc |-> IF p \in R THEN Closed(proc[p]) ELSE proc[p]]

-----------------------------------------------------------------------------
(* handleRelaySocket *)

\* A frame of the current session, or one that resets the loop to its own.
Frame(n) ==
  /\ loop = "read" /\ frames < MaxFrames /\ frames' = frames + 1
  /\ session' = n /\ loop' = loop

\* Mutant: the processes of the previous session stay.
ResetKeeping(n) == records' = records /\ proc' = proc

\* What reset does to the process set; the rest is in the handlers.
Reset(n) ==
  IF n = session THEN records' = records /\ proc' = proc
                 ELSE records' = {} /\ proc' = CloseAll(records)

HasToken(n) == n = session /\ token
HasHello(n) == n = session /\ hello

\* dynapp-e2ee-init with an accepted key; anything else is refused.
FrameInit(n) ==
  /\ Encrypted /\ ~HasToken(n) /\ Frame(n) /\ Reset(n)
  /\ token' \in BOOLEAN /\ hello' = FALSE

\* hello with an accepted credential, or a rejected first frame.
FrameHello(n) ==
  /\ (Encrypted => HasToken(n)) /\ ~HasHello(n) /\ Frame(n) /\ Reset(n)
  /\ hello' \in BOOLEAN /\ token' = HasToken(n)

\* The session may send requests.
SessionReady(n) == (Encrypted => HasToken(n)) /\ HasHello(n)

\* handleExec with stream: Set.Start registers the process after it runs and
\* before any of its goroutines.  A failure to start changes nothing.
FrameExec(n, pty) ==
  LET p == Cardinality(DOMAIN proc) + 1 IN
  /\ SessionReady(n) /\ Frame(n) /\ p <= MaxProcs
  /\ proc' = [q \in 1 .. p |-> IF q < p THEN proc[q] ELSE
       [owner |-> n, pty |-> pty, state |-> "running", held |-> FALSE,
        pipe |-> [s \in Stream |-> 0], made |-> [s \in Stream |-> 0],
        reader |-> [s \in Stream |-> "copy"], sent |-> 0, waiter |-> "drain", closes |-> 0]]
  /\ records' = records \cup {p}
  /\ UNCHANGED <<hello, token>>

\* Set.Handle: signal or close reach a process by its handle; the other
\* actions, and an unknown handle, change nothing here.
FrameSignal(n, p) ==
  /\ SessionReady(n) /\ Frame(n) /\ p \in records
  /\ proc' = [proc EXCEPT ![p].state = IF @ = "running" THEN "killed" ELSE @]
  /\ UNCHANGED <<hello, token, records>>

\* Read fails or the context is done; the deferred CloseAll runs.
LoopEnds ==
  /\ loop = "read" /\ loop' = "done"
  /\ proc' = CloseAll(records) /\ records' = {}
  /\ UNCHANGED <<session, hello, token, frames>>

-----------------------------------------------------------------------------
(* The process and its goroutines *)

Only(p, r) == proc' = [proc EXCEPT ![p] = r] /\ UNCHANGED <<loop, session, hello, token, records, frames>>

Writes(p, s) ==
  /\ proc[p].state = "running" \/ proc[p].held
  /\ s \in Streams(p) /\ proc[p].made[s] < MaxChunks
  /\ Only(p, [proc[p] EXCEPT !.made[s] = @ + 1, !.pipe[s] = @ + 1])

\* It exits by itself or is killed; a descendant may keep its pipes.
Exits(p, held) ==
  /\ proc[p].state # "exited"
  /\ Only(p, [proc[p] EXCEPT !.state = "exited", !.held = held])

DescendantExits(p) == proc[p].held /\ Only(p, [proc[p] EXCEPT !.held = FALSE])

\* copyOutput: what the budget does not allow is read and dropped.
Copy(p, s) ==
  /\ proc[p].reader[s] = "copy" /\ proc[p].pipe[s] > 0
  /\ Only(p, [proc[p] EXCEPT !.pipe[s] = @ - 1, !.sent = IF @ < Budget THEN @ + 1 ELSE @])

\* End of file, or the terminal was closed under the reader.
CopyEnds(p, s) ==
  /\ proc[p].reader[s] = "copy"
  /\ \/ proc[p].state = "exited" /\ ~proc[p].held /\ proc[p].pipe[s] = 0
     \/ proc[p].closes > 0
  /\ Only(p, [proc[p] EXCEPT !.reader[s] = "eof"])

\* Mutant: Wait comes before the pipes are drained, and closes them.
WaitsFirst(p) ==
  /\ proc[p].waiter = "drain" /\ proc[p].state = "exited"
  /\ Only(p, [proc[p] EXCEPT !.waiter = "wait", !.reader = [s \in Stream |-> "eof"]])

Drained(p) ==
  /\ proc[p].waiter = "drain" /\ \A s \in Streams(p) : proc[p].reader[s] = "eof"
  /\ Only(p, [proc[p] EXCEPT !.waiter = "wait"])

Waited(p) ==
  /\ proc[p].waiter = "wait" /\ proc[p].state = "exited"
  /\ Only(p, [proc[p] EXCEPT !.waiter = "exit"])

\* Mutant: exec-exit waits for a socket that takes it.
SendsExitLive(p) ==
  proc[p].waiter = "exit" /\ loop = "read" /\ Only(p, [proc[p] EXCEPT !.waiter = "forget"])

\* exec-exit is sent; then the handle is forgotten; then the terminal closes.
SendsExit(p) == proc[p].waiter = "exit" /\ Only(p, [proc[p] EXCEPT !.waiter = "forget"])

Forgets(p) ==
  /\ proc[p].waiter = "forget" /\ records' = records \ {p}
  /\ proc' = [proc EXCEPT ![p] = [Closed(@) EXCEPT !.waiter = "gone"]]
  /\ UNCHANGED <<loop, session, hello, token, frames>>

-----------------------------------------------------------------------------

Reader(p) == \E s \in Stream : Copy(p, s) \/ CopyEnds(p, s)
Waiter(p) == Drained(p) \/ Waited(p) \/ SendsExit(p) \/ Forgets(p)
KilledExits(p) == proc[p].state = "killed" /\ Exits(p, FALSE)

SessionsNext ==
  \/ \E n \in Tenant :
       \/ FrameInit(n) \/ FrameHello(n)
       \/ \E pty \in BOOLEAN : FrameExec(n, pty)
       \/ \E p \in DOMAIN proc : FrameSignal(n, p)
  \/ LoopEnds
  \/ \E p \in DOMAIN proc :
       \/ \E s \in Stream : Writes(p, s)
       \/ (\E held \in BOOLEAN : Exits(p, held)) \/ DescendantExits(p)
       \/ Reader(p) \/ Waiter(p)

\* Readers and waiters run and a killed process ends; a process that was not
\* killed, and the descendants that hold its pipes, may stay.
SessionsFairness ==
  \A p \in 1 .. MaxProcs :
    /\ WF_sessionVars(p \in DOMAIN proc /\ Reader(p))
    /\ WF_sessionVars(p \in DOMAIN proc /\ Waiter(p))
    /\ WF_sessionVars(p \in DOMAIN proc /\ KilledExits(p))

SessionsSpec == SessionsInit /\ [][SessionsNext]_sessionVars /\ SessionsFairness

-----------------------------------------------------------------------------
(* Properties *)

\* "Handles are scoped to a single authenticated socket, so another app,
\* browser session, or relay tenant can never address them" (process.go:96):
\* every handle that a frame can name was started in the current session, and
\* the processes of earlier sessions have been killed.
HandlesScoped ==
  /\ \A p \in records : proc[p].owner = session /\ loop # "done"
  /\ \A p \in DOMAIN proc : proc[p].state = "running" => p \in records

\* "Drain pipes before Wait ... which can drop the last bytes" (process.go):
\* when exec-exit is sent, all that the process wrote has been sent, up to the
\* budget that both streams share, unless the terminal was closed before.
ExitAfterOutput ==
  \A p \in DOMAIN proc :
    proc[p].waiter = "forget" /\ proc[p].closes = 0 =>
      proc[p].sent = Min({Budget, proc[p].made["stdout"] + proc[p].made["stderr"]})

\* Process exit and socket teardown race for the terminal, whose Close is not
\* safe to call twice (process.go, closeTerminal).
TerminalClosedOnce == \A p \in DOMAIN proc : proc[p].closes <= 1

\* A process belongs to one session, is closed once and loses no output.
SessionsSafe == SessionsTypeOK /\ HandlesScoped /\ ExitAfterOutput /\ TerminalClosedOnce

\* When the socket ends every process of it ends, and so do its goroutines,
\* once no descendant holds the pipes.
TeardownReaps ==
  []<>(loop = "done" => \A p \in DOMAIN proc : proc[p].waiter = "gone" \/ proc[p].held)
=============================================================================
