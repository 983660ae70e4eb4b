---------------------------- MODULE AgentSessions ----------------------------
(***************************************************************************)
(* The coding-agent sessions of one socket (shellagent/agent_sessions.go,  *)
(* claude_sessions.go, mcp_proxy.go).  The socket's frame loop runs every  *)
(* request to its end, so a call to Codex or a control request to Claude   *)
(* holds the loop.  Beside it run, per session, a goroutine that reads the *)
(* child's output, one that waits for its exit, and, for Claude, the       *)
(* handlers of the tool server.  The child and its MCP proxy are external. *)
(***************************************************************************)
EXTENDS Naturals, FiniteSets, TLC

CONSTANTS
  MaxStarts,  \* sessions started in all
  MaxCalls,   \* calls of one session
  MaxTools    \* tool calls in all

ASSUME AgentSessionsAssumption == {MaxStarts, MaxCalls, MaxTools} \subseteq Nat

VARIABLES
  serving,  \* the frame loop
  at,       \* the session it works on
  doing,    \* the method it calls
  gone,     \* the socket's context is done
  started,  \* agentService.next
  kind,     \* "codex" or "claude"
  listed,   \* the session is in a.sessions or a.claude
  child,    \* its process
  reading,  \* readOutput or readClaudeOutput runs
  waiter,   \* the goroutine of command.Wait
  next,     \* agentSession.next
  pending,  \* the calls whose channel is in the pending map
  reply,    \* the channel of the last call
  turnID, unstarted, newest, running, \* the turns
  closing,  \* how far stopClaude came
  server,   \* the tool server accepts requests
  tool      \* tool calls

loopVars == <<serving, at, doing, gone>>
processVars == <<listed, child, reading, waiter>>
callVars == <<next, pending, reply>>
turnVars == <<turnID, unstarted, newest, running>>
closeVars == <<closing, server>>
agentVars == <<loopVars, started, kind, processVars, callVars, turnVars, closeVars, tool>>

Ids == 1 .. MaxStarts
Methods == {"initialize", "thread/start", "turn/start", "turn/interrupt", "model/list"}
NoTool == [of |-> 0, step |-> "none", chan |-> "empty", first |-> "empty", result |-> "none"]

\* Types of the sessions; a call waits for at most one reply.
AgentSessionsTypeOK ==
  /\ serving \in {"read", "write", "wait", "stop", "close", "done"}
  /\ at \in 0 .. MaxStarts /\ started \in 0 .. MaxStarts
  /\ doing \in Methods \cup {""} /\ gone \in BOOLEAN
  /\ kind \in [Ids -> {"codex", "claude"}]
  /\ {listed, reading, server} \subseteq [Ids -> BOOLEAN]
  /\ child \in [Ids -> {"none", "run", "killed", "dead"}]
  /\ waiter \in [Ids -> {"none", "wait", "stop", "done"}]
  /\ next \in [Ids -> 0 .. MaxCalls] /\ pending \in [Ids -> SUBSET (1 .. MaxCalls)]
  /\ reply \in [Ids -> {"none", "ok", "error"}]
  /\ {turnID, newest, running} \subseteq [Ids -> 0 .. MaxCalls]
  /\ unstarted \in [Ids -> SUBSET (1 .. MaxCalls)]
  /\ closing \in [Ids -> {"no", "shutdown", "fail", "kill", "done"}]
  /\ tool \in [1 .. MaxTools -> [of : 0 .. MaxStarts,
                 step : {"none", "arrived", "open", "taken", "done"},
                 chan : {"empty", "app", "again", "closed"},
                 first : {"empty", "app", "again", "closed"},
                 result : {"none", "app", "again", "closed", "timeout", "gone"}]]

AgentSessionsInit ==
  /\ serving = "read" /\ at = 0 /\ doing = "" /\ gone = FALSE /\ started = 0
  /\ kind \in [Ids -> {"codex", "claude"}]
  /\ listed = [i \in Ids |-> FALSE] /\ child = [i \in Ids |-> "none"]
  /\ reading = [i \in Ids |-> FALSE] /\ waiter = [i \in Ids |-> "none"]
  /\ next = [i \in Ids |-> 0] /\ pending = [i \in Ids |-> {}]
  /\ reply = [i \in Ids |-> "none"]
  /\ turnID = [i \in Ids |-> 0] /\ newest = [i \in Ids |-> 0]
  /\ running = [i \in Ids |-> 0] /\ unstarted = [i \in Ids |-> {}]
  /\ closing = [i \in Ids |-> "no"] /\ server = [i \in Ids |-> FALSE]
  /\ tool = [t \in 1 .. MaxTools |-> NoTool]

-----------------------------------------------------------------------------
(* Stopping a session *)

\* stop of a Codex session: out of the table, and the process is killed.
StopCodex(i) ==
  /\ listed' = [listed EXCEPT ![i] = FALSE]
  /\ child' = [child EXCEPT ![i] = IF listed[i] /\ @ = "run" THEN "killed" ELSE @]

\* Whoever finds the Claude session in the table runs the rest of stopClaude.
TakeClaude(i) ==
  /\ listed' = [listed EXCEPT ![i] = FALSE]
  /\ closing' = [closing EXCEPT ![i] = IF listed[i] THEN "shutdown" ELSE @]

\* closeToolServer: Shutdown refuses new requests and waits a second for
\* those that run.
Shutdown(i) ==
  /\ closing[i] = "shutdown"
  /\ server' = [server EXCEPT ![i] = FALSE]
  /\ closing' = [closing EXCEPT ![i] = "fail"]
  /\ UNCHANGED <<loopVars, started, kind, processVars, callVars, turnVars, tool>>

Offered(c, value) ==
  IF c.chan = "empty"
    THEN [c EXCEPT !.chan = value, !.first = IF @ = "empty" THEN value ELSE @]
    ELSE c

\* Mutant: the session's end replaces an answer that is still in the channel.
Overwritten(i) ==
  [t \in 1 .. MaxTools |->
     IF tool[t].of = i /\ tool[t].step \in {"open", "taken"}
       THEN [tool[t] EXCEPT !.chan = "closed", !.first = IF @ = "empty" THEN "closed" ELSE @]
       ELSE tool[t]]

\* Every pending tool call is told that the session closed, unless an answer
\* is in its channel.
ToldClosed(i) ==
  [t \in 1 .. MaxTools |->
     IF tool[t].of = i /\ tool[t].step \in {"open", "taken"}
       THEN Offered(tool[t], "closed") ELSE tool[t]]

\* The second half of closeToolServer, under s.mu.
FailPending(i) ==
  /\ closing[i] = "fail" /\ closing' = [closing EXCEPT ![i] = "kill"]
  /\ tool' = ToldClosed(i)
  /\ reply' = [reply EXCEPT ![i] = IF next[i] \in pending[i] /\ @ = "none" THEN "error" ELSE @]
  /\ pending' = [pending EXCEPT ![i] = {}]
  /\ UNCHANGED <<loopVars, started, kind, processVars, next, turnVars, server>>

\* The end of stopClaude.
KillClaude(i) ==
  /\ closing[i] = "kill" /\ closing' = [closing EXCEPT ![i] = "done"]
  /\ child' = [child EXCEPT ![i] = IF @ = "run" THEN "killed" ELSE @]
  /\ UNCHANGED <<loopVars, started, kind, listed, reading, waiter, callVars, turnVars,
                 server, tool>>

-----------------------------------------------------------------------------
(* The frame loop *)

\* start or startClaude up to the first call.  Nothing is left behind when
\* the child does not start (the tool server is closed again).
Start ==
  /\ serving = "read" /\ ~gone /\ started < MaxStarts
  /\ started' = started + 1
  /\ LET i == started + 1 IN
       \/ /\ listed' = [listed EXCEPT ![i] = TRUE]
          /\ child' = [child EXCEPT ![i] = "run"]
          /\ reading' = [reading EXCEPT ![i] = TRUE]
          /\ waiter' = [waiter EXCEPT ![i] = "wait"]
          /\ \E tools \in IF kind[i] = "claude" THEN BOOLEAN ELSE {FALSE} :
               server' = [server EXCEPT ![i] = tools]
          /\ serving' = "write" /\ doing' = "initialize" /\ at' = i
       \/ UNCHANGED <<processVars, server, serving, doing, at>>
  /\ UNCHANGED <<gone, kind, callVars, turnVars, closing, tool>>

\* prompt, interrupt, listModels and setModel.  A Claude prompt is only
\* written; an interrupt without a turn, and Claude's models, need no call.
Request(i, method) ==
  /\ serving = "read" /\ ~gone /\ listed[i] /\ next[i] < MaxCalls
  /\ method = "turn/interrupt" => kind[i] = "claude" \/ turnID[i] # 0
  /\ method = "turn/start" => kind[i] = "codex"
  /\ serving' = "write" /\ at' = i /\ doing' = method
  /\ UNCHANGED <<gone, started, kind, processVars, callVars, turnVars, closeVars, tool>>

\* What a failed call leads to: start stops the session.
CallFails ==
  IF doing \in {"initialize", "thread/start"}
    THEN IF kind[at] = "codex"
           THEN StopCodex(at) /\ serving' = "read" /\ UNCHANGED closing
           ELSE /\ TakeClaude(at) /\ serving' = IF listed[at] THEN "stop" ELSE "read"
                /\ UNCHANGED child
    ELSE serving' = "read" /\ UNCHANGED <<listed, child, closing>>

\* call and control: a channel in the pending map and a write, which fails
\* when the child is gone and then leaves the entry behind.
WriteCall ==
  /\ serving = "write" /\ next[at] < MaxCalls
  /\ next' = [next EXCEPT ![at] = @ + 1]
  /\ pending' = [pending EXCEPT ![at] = @ \cup {next[at] + 1}]
  /\ reply' = [reply EXCEPT ![at] = "none"]
  /\ \/ /\ child[at] # "dead" /\ serving' = "wait"
        /\ unstarted' = [unstarted EXCEPT ![at] =
                           IF doing = "turn/start" THEN @ \cup {next[at] + 1} ELSE @]
        /\ UNCHANGED <<listed, child, closing>>
     \/ /\ child[at] = "dead" /\ CallFails /\ UNCHANGED unstarted
  /\ UNCHANGED <<at, doing, gone, started, kind, reading, waiter, turnID, newest, running,
                 server, tool>>

\* The reply arrived.  thread/start may come back without an id.
CallReturns ==
  /\ serving = "wait" /\ reply[at] = "ok"
  /\ CASE doing = "initialize" /\ kind[at] = "codex" ->
            /\ doing' = "thread/start" /\ serving' = "write"
            /\ UNCHANGED <<listed, child, turnID>>
       [] doing = "thread/start" ->
            /\ serving' = "read" /\ UNCHANGED <<doing, turnID>>
            /\ StopCodex(at) \/ UNCHANGED <<listed, child>>
       [] doing = "turn/start" ->
            /\ turnID' = [turnID EXCEPT ![at] = next[at]]
            /\ serving' = "read" /\ UNCHANGED <<doing, listed, child>>
       [] OTHER -> serving' = "read" /\ UNCHANGED <<doing, listed, child, turnID>>
  /\ UNCHANGED <<at, gone, started, kind, reading, waiter, callVars, unstarted, newest,
                 running, closeVars, tool>>

\* An error reply, the socket's context, or 120 seconds (30 for Claude).
CallEnds ==
  /\ serving = "wait" /\ CallFails
  /\ UNCHANGED <<at, doing, gone, started, kind, reading, waiter, callVars, turnVars, server,
                 tool>>

\* respondTool: the call must be in pendingTools and its channel empty.
RespondTool(t) ==
  /\ serving = "read" /\ ~gone
  /\ tool[t].step \in {"open", "taken"} /\ closing[tool[t].of] \notin {"kill", "done"}
  /\ tool' = [tool EXCEPT ![t] = Offered(@, IF @.first = "empty" THEN "app" ELSE "again")]
  /\ UNCHANGED <<loopVars, started, kind, processVars, callVars, turnVars, closeVars>>

\* The "stop" request.
StopRequest(i) ==
  /\ serving = "read" /\ ~gone /\ listed[i]
  /\ IF kind[i] = "codex"
       THEN StopCodex(i) /\ UNCHANGED <<serving, at, closing>>
       ELSE TakeClaude(i) /\ serving' = "stop" /\ at' = i /\ UNCHANGED child
  /\ UNCHANGED <<doing, gone, started, kind, reading, waiter, callVars, turnVars, server, tool>>

\* stopClaude returned; in closeAll the loop goes on with the next session.
StopReturns ==
  /\ serving = "stop" /\ closing[at] = "done" /\ serving' = "read"
  /\ UNCHANGED <<at, doing, gone, started, kind, processVars, callVars, turnVars, closeVars, tool>>

SocketGone ==
  /\ ~gone /\ gone' = TRUE
  /\ UNCHANGED <<serving, at, doing, started, kind, processVars, callVars, turnVars, closeVars, tool>>

\* The loop ends with closeAll: the Codex sessions first, then the Claude
\* sessions one after the other.
CloseCodex ==
  /\ serving = "read" /\ gone /\ serving' = "close"
  /\ listed' = [i \in Ids |-> listed[i] /\ kind[i] = "claude"]
  /\ child' = [i \in Ids |-> IF listed[i] /\ kind[i] = "codex" /\ child[i] = "run"
                               THEN "killed" ELSE child[i]]
  /\ UNCHANGED <<at, doing, gone, started, kind, reading, waiter, callVars, turnVars, closeVars,
                 tool>>

\* Mutant: closeAll from before Claude was supported.
CloseNoClaude ==
  /\ serving = "close" /\ serving' = "done"
  /\ UNCHANGED <<at, doing, gone, started, kind, processVars, callVars, turnVars, closeVars, tool>>

CloseClaude ==
  /\ serving = "close"
  /\ IF \E i \in Ids : listed[i]
       THEN \E i \in Ids : listed[i] /\ TakeClaude(i) /\ at' = i /\ serving' = "stop"
       ELSE serving' = "done" /\ UNCHANGED <<at, listed, closing>>
  /\ UNCHANGED <<doing, gone, started, kind, child, reading, waiter, callVars, turnVars, server,
                 tool>>

-----------------------------------------------------------------------------
(* The child and the goroutines of a session *)

\* A response is read: the entry is deleted and its channel answered.
Response(i, c, outcome) ==
  /\ reading[i] /\ c \in pending[i]
  /\ pending' = [pending EXCEPT ![i] = @ \ {c}]
  /\ reply' = [reply EXCEPT ![i] = IF c = next[i] /\ @ = "none" THEN outcome ELSE @]
  /\ UNCHANGED <<loopVars, started, kind, processVars, next, turnVars, closeVars, tool>>

\* Mutant: "turn/started" is ignored.
TurnIgnored(i) ==
  /\ reading[i] /\ running[i] = 0
  /\ \E c \in unstarted[i] :
       /\ \A d \in unstarted[i] : c <= d
       /\ running' = [running EXCEPT ![i] = c] /\ newest' = [newest EXCEPT ![i] = c]
       /\ unstarted' = [unstarted EXCEPT ![i] = @ \ {c}]
  /\ UNCHANGED <<loopVars, started, kind, processVars, callVars, closeVars, tool, turnID>>

\* "turn/started": the turns run one after the other.
TurnStarted(i) ==
  /\ reading[i] /\ running[i] = 0
  /\ \E c \in unstarted[i] :
       /\ \A d \in unstarted[i] : c <= d
       /\ running' = [running EXCEPT ![i] = c] /\ newest' = [newest EXCEPT ![i] = c]
       /\ turnID' = [turnID EXCEPT ![i] = c]
       /\ unstarted' = [unstarted EXCEPT ![i] = @ \ {c}]
  /\ UNCHANGED <<loopVars, started, kind, processVars, callVars, closeVars, tool>>

\* "turn/completed".
TurnCompleted(i) ==
  /\ reading[i] /\ running[i] # 0
  /\ running' = [running EXCEPT ![i] = 0] /\ turnID' = [turnID EXCEPT ![i] = 0]
  /\ UNCHANGED <<loopVars, started, kind, processVars, callVars, unstarted, newest, closeVars, tool>>

\* The child exits, by itself or because it was killed.
ChildExits(i) ==
  /\ child[i] \in {"run", "killed"} /\ child' = [child EXCEPT ![i] = "dead"]
  /\ UNCHANGED <<loopVars, started, kind, listed, reading, waiter, callVars, turnVars, closeVars,
                 tool>>

ReadEnds(i) ==
  /\ reading[i] /\ child[i] = "dead" /\ reading' = [reading EXCEPT ![i] = FALSE]
  /\ UNCHANGED <<loopVars, started, kind, listed, child, waiter, callVars, turnVars, closeVars,
                 tool>>

\* Command.Wait returned and the waiter's publish of "stopped" returns: a write
\* without a deadline, so only after the browser has read or the socket is gone.
Published(i) ==
  /\ waiter[i] = "wait" /\ child[i] = "dead"
  /\ waiter' = [waiter EXCEPT ![i] = "stop"]
  /\ UNCHANGED <<loopVars, started, kind, listed, child, closing, reading, callVars, turnVars,
                 server, tool>>

\* Mutant: the waiter only publishes "stopped".
ExitedQuietly(i) ==
  /\ waiter[i] = "stop" /\ waiter' = [waiter EXCEPT ![i] = "done"]
  /\ UNCHANGED <<loopVars, started, kind, listed, child, closing, reading, callVars, turnVars,
                 server, tool>>

\* The waiter stops the session.
Exited(i) ==
  /\ waiter[i] = "stop" /\ waiter' = [waiter EXCEPT ![i] = "done"]
  /\ IF kind[i] = "codex" THEN StopCodex(i) /\ UNCHANGED closing
                          ELSE TakeClaude(i) /\ UNCHANGED child
  /\ UNCHANGED <<loopVars, started, kind, reading, callVars, turnVars, server, tool>>

-----------------------------------------------------------------------------
(* The tool server *)

\* A request of the MCP proxy, up to the registration of its channel.
ToolArrives(t) ==
  /\ tool[t].step = "none"
  /\ \E i \in Ids : /\ server[i] /\ child[i] = "run"
                    /\ tool' = [tool EXCEPT ![t].of = i, ![t].step = "arrived"]
  /\ UNCHANGED <<loopVars, started, kind, processVars, callVars, turnVars, closeVars>>

ToolOpens(t) ==
  /\ tool[t].step = "arrived" /\ tool' = [tool EXCEPT ![t].step = "open"]
  /\ UNCHANGED <<loopVars, started, kind, processVars, callVars, turnVars, closeVars>>

ToolAnswered(t) ==
  /\ tool[t].step = "open" /\ tool[t].chan # "empty"
  /\ tool' = [tool EXCEPT ![t].step = "taken", ![t].result = tool[t].chan,
                            ![t].chan = "empty"]
  /\ UNCHANGED <<loopVars, started, kind, processVars, callVars, turnVars, closeVars>>

\* Two minutes pass, or the client is gone.
ToolGivenUp(t) ==
  /\ tool[t].step = "open"
  /\ \E why \in {"timeout"} \cup (IF child[tool[t].of] = "dead" THEN {"gone"} ELSE {}) :
       tool' = [tool EXCEPT ![t].step = "taken", ![t].result = why]
  /\ UNCHANGED <<loopVars, started, kind, processVars, callVars, turnVars, closeVars>>

ToolDone(t) ==
  /\ tool[t].step = "taken" /\ tool' = [tool EXCEPT ![t].step = "done"]
  /\ UNCHANGED <<loopVars, started, kind, processVars, callVars, turnVars, closeVars>>

-----------------------------------------------------------------------------
Loop ==
  \/ Start \/ WriteCall \/ CallReturns \/ CallEnds \/ StopReturns \/ CloseCodex \/ CloseClaude
  \/ \E i \in Ids : StopRequest(i) \/ \E m \in Methods \ {"initialize", "thread/start"} :
                                          Request(i, m)
  \/ \E t \in 1 .. MaxTools : RespondTool(t)

Stopping(i) == Shutdown(i) \/ FailPending(i) \/ KillClaude(i)
Handler(t) == ToolOpens(t) \/ ToolAnswered(t) \/ ToolGivenUp(t) \/ ToolDone(t)

AgentSessionsNext ==
  \/ Loop \/ SocketGone
  \/ \E i \in Ids :
       \/ Stopping(i) \/ TurnStarted(i) \/ TurnCompleted(i) \/ ChildExits(i) \/ ReadEnds(i)
       \/ Published(i) \/ Exited(i)
       \/ \E c \in 1 .. MaxCalls, outcome \in {"ok", "error"} : Response(i, c, outcome)
  \/ \E t \in 1 .. MaxTools : ToolArrives(t) \/ Handler(t)

\* A write to the pipe of a child that is gone fails at once; one to a child
\* that runs returns when the child reads.
WriteFails == serving = "write" /\ child[at] = "dead" /\ WriteCall

\* The loop goes on, a killed child ends, the goroutines run and the timers
\* fire.  The child and the app owe nothing: no write to a running child has to
\* return, and no write to the browser before the socket is gone.
AgentSessionsFairness ==
  /\ WF_agentVars(WriteFails \/ CallReturns \/ CallEnds \/ StopReturns \/ CloseCodex \/ CloseClaude)
  /\ \A i \in Ids : /\ WF_agentVars(Stopping(i)) /\ WF_agentVars(Exited(i))
                     /\ WF_agentVars(gone /\ Published(i))
                     /\ WF_agentVars(child[i] = "killed" /\ ChildExits(i))
  /\ \A t \in 1 .. MaxTools : WF_agentVars(gone /\ Handler(t))

AgentSessionsSpec == AgentSessionsInit /\ [][AgentSessionsNext]_agentVars /\ AgentSessionsFairness

\* A tool call gets the first answer that was put into its channel, from the
\* app or from the session's end, and never a later one.
FirstAnswerWins ==
  \A t \in 1 .. MaxTools : tool[t].result \in {"none", "timeout", "gone", tool[t].first}

\* interrupt never names a turn older than the newest one that Codex has
\* announced: turnID is set by the reader and by prompt, without a lock.
InterruptNewestTurn ==
  \A i \in Ids : turnID[i] # 0 => turnID[i] >= newest[i]

\* Answers and interrupts reach what they were meant for.
AgentSessionsSafe == AgentSessionsTypeOK /\ FirstAnswerWins /\ InterruptNewestTurn

\* A child that ended, at any point of its session's start, calls or stop, is
\* taken out of the table and its tool server is closed, as soon as the browser
\* has read that the session stopped or the socket is gone.
EndedSessionsCleaned ==
  \A i \in Ids :
    []<>(child[i] = "dead" /\ (waiter[i] # "wait" \/ gone) => ~listed[i] /\ ~server[i])

\* When the socket is gone, the loop ends, every child is killed and every
\* tool call that was in flight is over, but for a loop that is still writing
\* to a running child that does not read.
SessionsReaped ==
  []<>(gone =>
         \/ /\ serving = "done"
            /\ \A i \in Ids : child[i] \in {"none", "dead"} /\ ~server[i]
            /\ \A t \in 1 .. MaxTools : tool[t].step \in {"none", "done"}
         \/ serving = "write" /\ child[at] # "dead")
====
