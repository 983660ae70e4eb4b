---------------------------- MODULE AccountLogin ----------------------------
(***************************************************************************)
(* Signing the agent in to a Dyner account from the settings page          *)
(* (shellagent/settings_login.go, account.go): a random state is issued    *)
(* for ten minutes, Dyner redirects the browser to the callback with a     *)
(* token, and the callback takes the state, verifies the token, writes     *)
(* auth.json in place and activates the account.  Callbacks run            *)
(* concurrently; the agent may be killed and reads auth.json when it       *)
(* starts.                                                                 *)
(***************************************************************************)
EXTENDS Naturals, FiniteSets

CONSTANTS
  Callback,       \* callbacks in progress
  LoginState,     \* random states
  Token,          \* account tokens
  Refused,        \* those that Dyner does not accept
  MaxLoginKills   \* times that the agent is killed

\* "none" and "torn" stand for the absent and the cut file, not for tokens.
ASSUME LoginAssumption ==
  Refused \subseteq Token /\ {"none", "torn"} \cap Token = {} /\ MaxLoginKills \in Nat

VARIABLES
  loginStates,   \* the states issued and not taken: fresh, or older than ten minutes
  unused,        \* states that have not been issued
  uses,          \* callbacks that went on with each state
  callback,      \* handleSettingsLoginCallback; alone is whether no other one overlaps its storing
  authFile,      \* auth.json: a token, none, or torn
  accountToken,  \* the account of the running agent
  met,           \* since the last sign-in that no other one overlapped, callbacks have
                 \* overlapped, or a write was cut off or failed
  loginKills

loginVars == <<loginStates, unused, uses, callback, authFile, accountToken, met, loginKills>>
stateVars == <<loginStates, unused, uses>>
accountVars == <<authFile, accountToken>>

Age == {"fresh", "old"}
Nobody == "none"
Torn == "torn"
Returned == [at |-> "idle", token |-> Nobody, alone |-> FALSE]

\* Types of the states, of the callbacks and of the account.
LoginTypeOK ==
  /\ DOMAIN loginStates \subseteq LoginState /\ unused \subseteq LoginState
  /\ \A s \in DOMAIN loginStates : loginStates[s] \in Age
  /\ uses \in [LoginState -> 0 .. 2]
  /\ \A c \in Callback : callback[c].at \in {"idle", "verify", "truncate", "write", "activate"}
  /\ authFile \in Token \cup {Nobody, Torn} /\ accountToken \in Token \cup {Nobody}
  /\ met \in BOOLEAN /\ loginKills \in 0 .. MaxLoginKills

LoginInit ==
  /\ loginStates = <<>> /\ unused = LoginState /\ uses = [s \in LoginState |-> 0]
  /\ callback = [c \in Callback |-> Returned]
  /\ authFile = Nobody /\ accountToken = Nobody /\ met = FALSE /\ loginKills = 0

-----------------------------------------------------------------------------
SetCallback(c, state) == callback' = [callback EXCEPT ![c] = state]
Storing(c) == callback[c].at \in {"truncate", "write", "activate"}

\* handleSettingsLoginStart: the states that have expired are dropped.
LoginStart(s) ==
  /\ s \in unused /\ unused' = unused \ {s}
  /\ LET kept == {k \in DOMAIN loginStates : loginStates[k] = "fresh"} IN
     loginStates' = [k \in kept \cup {s} |-> "fresh"]
  /\ UNCHANGED <<uses, callback, accountVars, met, loginKills>>

\* Ten minutes pass for a state.
Expires(s) ==
  /\ s \in DOMAIN loginStates /\ loginStates[s] = "fresh"
  /\ loginStates' = [loginStates EXCEPT ![s] = "old"]
  /\ UNCHANGED <<unused, uses, callback, accountVars, met, loginKills>>

\* Mutant: a state is looked up and not removed.
ConsumeKeeping(c, s, t) ==
  /\ callback[c].at = "idle" /\ s \in DOMAIN loginStates
  /\ IF loginStates[s] = "fresh"
       THEN SetCallback(c, [Returned EXCEPT !.at = "verify", !.token = t])
            /\ uses' = [uses EXCEPT ![s] = @ + 1]
       ELSE UNCHANGED <<callback, uses>>
  /\ UNCHANGED <<loginStates, unused, accountVars, met, loginKills>>

\* consumeLoginState: the callback goes on with a state that was issued and
\* is fresh; any other one ends it.
ConsumeLoginState(c, s, t) ==
  /\ callback[c].at = "idle" /\ s \in DOMAIN loginStates
  /\ loginStates' = [k \in DOMAIN loginStates \ {s} |-> loginStates[k]]
  /\ IF loginStates[s] = "fresh"
       THEN SetCallback(c, [Returned EXCEPT !.at = "verify", !.token = t])
            /\ uses' = [uses EXCEPT ![s] = @ + 1]
       ELSE UNCHANGED <<callback, uses>>
  /\ UNCHANGED <<unused, accountVars, met, loginKills>>

\* A callback begins to store its token, perhaps beside others.
BeginStoring(c) ==
  LET others == {d \in Callback \ {c} : Storing(d)} IN
  /\ callback' = [d \in Callback |->
       IF d = c THEN [callback[c] EXCEPT !.at = "truncate", !.alone = others = {}]
       ELSE IF d \in others THEN [callback[d] EXCEPT !.alone = FALSE] ELSE callback[d]]
  /\ met' = (met \/ others # {})

\* Mutant: an answer that is not 2xx is read all the same.
VerifyAnyStatus(c) ==
  /\ callback[c].at = "verify" /\ BeginStoring(c)
  /\ UNCHANGED <<stateVars, accountVars, loginKills>>

\* Dyner is asked for the account of the token.
Verify(c) ==
  /\ callback[c].at = "verify" /\ callback[c].token \notin Refused /\ BeginStoring(c)
  /\ UNCHANGED <<stateVars, accountVars, loginKills>>

\* Dyner refuses it or does not answer, or auth.json cannot be opened.
CallbackFails(c) ==
  /\ callback[c].at \in {"verify", "truncate"} /\ SetCallback(c, Returned)
  /\ UNCHANGED <<stateVars, accountVars, met, loginKills>>

\* os.WriteFile fails after it has truncated auth.json, or only its Close does:
\* the account is not activated, and nothing puts the old file back.
WriteFails(c) ==
  /\ callback[c].at = "write" /\ authFile' \in {authFile, Torn, callback[c].token}
  /\ SetCallback(c, Returned) /\ met' = TRUE
  /\ UNCHANGED <<stateVars, accountToken, loginKills>>

\* os.WriteFile truncates auth.json ...
TruncateAuth(c) ==
  /\ callback[c].at = "truncate" /\ authFile' = Torn
  /\ SetCallback(c, [callback[c] EXCEPT !.at = "write"])
  /\ UNCHANGED <<stateVars, accountToken, met, loginKills>>

\* Mutant: the account is only activated.
WriteNothing(c) ==
  /\ callback[c].at = "write" /\ UNCHANGED authFile
  /\ SetCallback(c, [callback[c] EXCEPT !.at = "activate"])
  /\ UNCHANGED <<stateVars, accountToken, met, loginKills>>

\* ... and writes the record.
WriteAuth(c) ==
  /\ callback[c].at = "write" /\ authFile' = callback[c].token
  /\ SetCallback(c, [callback[c] EXCEPT !.at = "activate"])
  /\ UNCHANGED <<stateVars, accountToken, met, loginKills>>

Activate(c) ==
  /\ callback[c].at = "activate" /\ accountToken' = callback[c].token
  /\ SetCallback(c, Returned)
  /\ met' = (met /\ ~callback[c].alone) /\ UNCHANGED <<stateVars, authFile, loginKills>>

\* The agent is killed and starts again with the account on file; a torn file
\* is logged and leaves it signed out.
LoadDynerAccountToken ==
  /\ loginKills < MaxLoginKills /\ loginKills' = loginKills + 1
  /\ met' = (authFile = Torn)
  /\ callback' = [c \in Callback |-> Returned] /\ loginStates' = <<>>
  /\ accountToken' = IF authFile = Torn THEN Nobody ELSE authFile
  /\ UNCHANGED <<unused, uses, authFile>>

LoginNext ==
  \/ LoadDynerAccountToken
  \/ \E s \in LoginState : LoginStart(s) \/ Expires(s)
  \/ \E c \in Callback :
       \/ \E s \in LoginState, t \in Token : ConsumeLoginState(c, s, t)
       \/ Verify(c) \/ CallbackFails(c) \/ TruncateAuth(c) \/ WriteAuth(c) \/ WriteFails(c)
       \/ Activate(c)

LoginSpec == LoginInit /\ [][LoginNext]_loginVars

\* A state signs in at most once, however the callbacks race, whatever they
\* fail with and when the agent starts again.
StateUsedOnce == \A s \in LoginState : uses[s] <= 1

\* Only an account that Dyner has confirmed is stored or activated.
OnlyConfirmed == authFile \notin Refused /\ accountToken \notin Refused

\* Between sign-ins the account on file is the one that is active, so a restart
\* keeps it.  Callbacks that overlap and a write that fails or is cut off part
\* them; a sign-in that stores alone, and a start that can read the file, bring
\* them together again.
AccountOnFile ==
  ~met /\ (\A c \in Callback : ~Storing(c)) => authFile = accountToken

\* Only a confirmed token of a fresh state becomes the account, in memory and
\* on file alike (handleSettingsLoginCallback, storeAccountToken).
LoginSafe == LoginTypeOK /\ StateUsedOnce /\ OnlyConfirmed /\ AccountOnFile
=============================================================================
