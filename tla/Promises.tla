------------------------------ MODULE Promises ------------------------------
(***************************************************************************)
(* Promised files (shellagent/clipboard.go, file_promise.go, drag.go): an  *)
(* app offers files that it will write when they are pasted.  The native   *)
(* helper, or another app, requests a promise; the agent opens the target  *)
(* file and asks the app, which writes it and finishes or cancels.         *)
(*                                                                         *)
(* Every client is a socket of one app; one that has closed asks nothing   *)
(* any more, and nothing ends its promises.  A handler holds promiseMu for *)
(* one step; what it read before it took the lock again is in its job.     *)
(* The length of a file is counted in chunks; an offer declares it to be 0 *)
(* or does not declare it.                                                 *)
(***************************************************************************)
EXTENDS Integers, FiniteSets, Functions

CONSTANTS
  Client,       \* sockets of the app
  MaxPromises,  \* promises in all
  MaxLength,    \* chunks of a file
  MaxCopies,    \* the paths that clipboardAvailablePath tries
  MaxCloses     \* sockets that close

ASSUME PromisesAssumption == {MaxPromises, MaxLength, MaxCopies, MaxCloses} \subseteq Nat

VARIABLES
  made,       \* promises published so far, the ids of which never repeat
  promises,   \* s.promises
  handle,     \* the open file of each promise that was pasted: "open" or "closed"
  disk,       \* the files and their lengths
  job,        \* what each client's handler is doing
  bridge,     \* s.promiseBridge is set
  helper,     \* its process runs
  offered,    \* promises that the helper knows
  waiting,    \* pastes that the helper waits for
  delivered,  \* promises that were finished without an error, and where
  gone,       \* sockets that have closed
  crashed     \* the agent panicked

files == <<promises, handle, disk>>
helperSide == <<bridge, helper, offered>>
promiseVars == <<made, promises, handle, disk, job, bridge, helper, offered, waiting, delivered,
                 gone, crashed>>

Promise == 1 .. MaxPromises
Length == 0 .. MaxLength
Unknown == -1
\* The free names that an app's paste tries in turn, and the path that the
\* desktop chose for a paste of its own.
Path == ({"copy"} \X (1 .. MaxCopies)) \cup ({"drop"} \X Promise)
NoPath == <<"none", 0>>
Services == {"clipboard", "drag"}
Record == [service : Services, size : Length \cup {Unknown}, path : Path \cup {NoPath},
           socket : Client]
Idle == [op |-> "idle"]
Jobs ==
  {Idle} \cup [op : {"send"}, id : Promise, attempt : 0 .. 1]
    \cup [op : {"choose"}, id : Promise] \cup [op : {"open"}, id : Promise, path : Path]
    \cup [op : {"finish"}, id : Promise]
    \cup [op : {"tell"}, ids : SUBSET Promise]

\* Types; the file of a promise is open as long as the promise is listed.
PromisesTypeOK ==
  /\ made \in 0 .. MaxPromises
  /\ DOMAIN promises \subseteq Promise /\ Range(promises) \subseteq Record
  /\ DOMAIN handle \subseteq Promise /\ Range(handle) \subseteq {"open", "closed"}
  /\ DOMAIN disk \subseteq Path /\ Range(disk) \subseteq Length
  /\ job \in [Client -> Jobs]
  /\ {bridge, helper, crashed} \subseteq BOOLEAN
  /\ offered \subseteq Promise /\ waiting \subseteq offered
  /\ DOMAIN delivered \subseteq Promise /\ Range(delivered) \subseteq Path
  /\ gone \subseteq Client

PromisesInit ==
  /\ made = 0 /\ promises = <<>> /\ handle = <<>> /\ disk = <<>>
  /\ job = [c \in Client |-> Idle]
  /\ bridge = FALSE /\ helper = FALSE /\ crashed = FALSE
  /\ offered = {} /\ waiting = {} /\ delivered = <<>> /\ gone = {}

-----------------------------------------------------------------------------
(* Helpers *)

Started(id) == id \in DOMAIN handle
Drop(f, S) == Restrict(f, DOMAIN f \ S)
Mapped(f, x, v) == [y \in DOMAIN f \cup {x} |-> IF y = x THEN v ELSE f[y]]
\* A connected socket with no handler under way; a handler goes on after its socket.
Free(c) == job[c] = Idle /\ c \notin gone
Begin(c, j) == job' = [job EXCEPT ![c] = j]
End(c) == Begin(c, Idle)

\* bridge.complete: the helper ends the paste; a helper that died hears nothing.
Told(S) == waiting' = waiting \ S

-----------------------------------------------------------------------------
(* publishFilePromises *)

\* Mutant: a new offer also drops what is being written.
ReplacedAll(service) == {id \in DOMAIN promises : promises[id].service = service}

\* A new offer replaces the promises that nobody has pasted yet.
Replaced(service) ==
  {id \in DOMAIN promises : promises[id].service = service /\ ~Started(id)}

Publish(c, service, size) ==
  LET id == made + 1 IN
    /\ Free(c) /\ made < MaxPromises /\ made' = id
    /\ promises' = Mapped(Drop(promises, Replaced(service)), id,
                          [service |-> service, size |-> size, path |-> NoPath, socket |-> c])
    /\ Begin(c, [op |-> "send", id |-> id, attempt |-> 0])
    /\ UNCHANGED <<handle, disk, helperSide, waiting, delivered, crashed>>

\* ensureFilePromiseBridge, which may fail to start the helper, and the send.
\* A send to a dead helper discards it, and the second attempt starts another.
PublishSend(c) ==
  /\ job[c].op = "send"
  /\ \/ /\ bridge => helper
        /\ bridge' = TRUE /\ helper' = TRUE
        /\ offered' = offered \cup {job[c].id} /\ End(c)
     \/ /\ bridge /\ ~helper
        /\ bridge' = FALSE /\ helper' = FALSE /\ offered' = {}
        /\ IF job[c].attempt = 0 THEN Begin(c, [job[c] EXCEPT !.attempt = 1]) ELSE End(c)
     \/ /\ ~bridge /\ End(c)
        /\ UNCHANGED <<helperSide>>
  /\ UNCHANGED <<made, files, waiting, delivered, crashed>>

-----------------------------------------------------------------------------
(* requestFilePromise *)

\* The promise may be pasted: it is listed and nobody pastes it.
Active(id) == id \in DOMAIN promises /\ ~Started(id)

\* O_CREATE and O_TRUNC; the app is asked through its socket.
OpenAt(id, path) ==
  /\ promises' = [promises EXCEPT ![id].path = path]
  /\ handle' = Mapped(handle, id, "open")
  /\ disk' = Mapped(disk, path, 0)

\* Mutant: a paste that fails is not reported.
RequestSilently(id) ==
  /\ helper /\ id \in offered
  /\ waiting' = waiting \cup {id}
  /\ IF Active(id) THEN OpenAt(id, <<"drop", id>>) ELSE UNCHANGED files
  /\ UNCHANGED <<made, job, helperSide, delivered, crashed>>

\* handleFilePromiseRequest: an inactive promise, one that is being pasted or
\* a path that cannot be opened is reported at once.
HelperRequest(id) ==
  /\ helper /\ id \in offered
  /\ \/ /\ Active(id)
        /\ waiting' = waiting \cup {id} /\ OpenAt(id, <<"drop", id>>)
     \/ /\ waiting' = waiting \ {id}
        /\ UNCHANGED files
  /\ UNCHANGED <<made, job, helperSide, delivered, crashed>>

\* requestClipboardPromise looks at the promise, chooses a free path without
\* the lock, and then opens it.
AppRequest(c, id) ==
  /\ Free(c) /\ Active(id) /\ Begin(c, [op |-> "choose", id |-> id])
  /\ UNCHANGED <<made, files, helperSide, waiting, delivered, crashed>>

\* Mutant: one name too many is tried.
FreeCopiesOff == {n \in 1 .. MaxCopies + 1 : <<"copy", n>> \notin DOMAIN disk}

FreeCopies == {n \in 1 .. MaxCopies : <<"copy", n>> \notin DOMAIN disk}

ChoosePath(c) ==
  /\ job[c].op = "choose"
  /\ IF FreeCopies = {} THEN End(c)
     ELSE \E n \in FreeCopies :
            /\ \A m \in FreeCopies : n <= m
            /\ Begin(c, [op |-> "open", id |-> job[c].id, path |-> <<"copy", n>>])
  /\ UNCHANGED <<made, files, helperSide, waiting, delivered, crashed>>

OpenPromise(c) ==
  /\ job[c].op = "open" /\ End(c)
  /\ IF Active(job[c].id) THEN OpenAt(job[c].id, job[c].path)
                          ELSE UNCHANGED files
  /\ UNCHANGED <<made, helperSide, waiting, delivered, crashed>>

-----------------------------------------------------------------------------
(* The app writes and finishes *)

\* ownedPromise: the promise is listed and its file is open.  A promise that
\* goes between this look and the write, or the second look of a size, makes
\* them fail as if it had gone before: they are one step.
Owned(c, id) == Free(c) /\ id \in DOMAIN promises /\ Started(id)

WriteChunk(c, id) ==
  /\ Owned(c, id)
  /\ LET path == promises[id].path IN
       path \in DOMAIN disk /\ disk[path] < MaxLength /\ disk' = [disk EXCEPT ![path] = @ + 1]
  /\ UNCHANGED <<made, promises, handle, job, helperSide, waiting, delivered, crashed>>

\* Mutant: a size that was declared may be changed.
SetSizeAgain(c, id, size) ==
  /\ Owned(c, id) /\ promises' = [promises EXCEPT ![id].size = size]
  /\ UNCHANGED <<made, handle, disk, job, helperSide, waiting, delivered, crashed>>

SetSize(c, id, size) ==
  /\ Owned(c, id) /\ promises[id].size = Unknown
  /\ promises' = [promises EXCEPT ![id].size = size]
  /\ UNCHANGED <<made, handle, disk, job, helperSide, waiting, delivered, crashed>>

\* finishClipboardPromise looks twice too, and closes the file after the second.
FinishBegin(c, id) ==
  /\ Owned(c, id) /\ Begin(c, [op |-> "finish", id |-> id])
  /\ UNCHANGED <<made, files, helperSide, waiting, delivered, crashed>>

\* Mutant: the promise is not looked up again, so a second finish closes the
\* file again, fails, and removes what the first one delivered.
FinishUnchecked(c) ==
  /\ job[c].op = "finish" /\ End(c)
  /\ LET id == job[c].id
         path == IF id \in DOMAIN promises THEN promises[id].path ELSE <<"drop", id>>
         ok == /\ handle[id] = "open" /\ path \in DOMAIN disk
               /\ disk[path] = promises[id].size IN
     /\ handle' = [handle EXCEPT ![id] = "closed"]
     /\ disk' = IF ok THEN disk ELSE Drop(disk, {path})
     /\ promises' = Drop(promises, {id}) /\ Told({id})
     /\ delivered' = IF ok THEN Mapped(delivered, id, path) ELSE delivered
  /\ UNCHANGED <<made, helperSide, crashed>>

\* The file is closed, its size is compared, and a failure removes it.  The
\* app itself may report an error.
Finish(c) ==
  /\ job[c].op = "finish" /\ End(c)
  /\ LET id == job[c].id IN
     IF id \notin DOMAIN promises
       THEN UNCHANGED <<promises, handle, disk, waiting, delivered>>
       ELSE LET path == promises[id].path
                ok == path \in DOMAIN disk /\ disk[path] = promises[id].size IN
            \E good \in {ok, FALSE} :
              /\ handle' = [handle EXCEPT ![id] = "closed"]
              /\ disk' = IF good THEN disk ELSE Drop(disk, {path})
              /\ promises' = Drop(promises, {id}) /\ Told({id})
              /\ delivered' = IF good THEN Mapped(delivered, id, path) ELSE delivered
  /\ UNCHANGED <<made, helperSide, crashed>>

\* Mutant: the files of cancelled promises stay open.
ClosedNone(S) == handle

ClosedOnCancel(S) == [id \in DOMAIN handle |-> IF id \in S THEN "closed" ELSE handle[id]]

Cancel(c, service) ==
  LET S == {id \in DOMAIN promises : promises[id].service = service} IN
  /\ Free(c)
  /\ promises' = Drop(promises, S)
  /\ handle' = ClosedOnCancel(S)
  /\ disk' = Drop(disk, {promises[id].path : id \in S})
  /\ Begin(c, IF S = {} THEN Idle ELSE [op |-> "tell", ids |-> S])
  /\ UNCHANGED <<made, helperSide, waiting, delivered, crashed>>

\* The helper hears of the cancelled promises; without one, the agent panics.
CancelTell(c) ==
  /\ job[c].op = "tell" /\ End(c)
  /\ Told(job[c].ids) /\ crashed' = ~bridge
  /\ UNCHANGED <<made, files, helperSide, delivered>>

-----------------------------------------------------------------------------
(* The helper and the sockets *)

\* handleFilePromiseDragEnd: what was not dropped is forgotten.
DragEnd ==
  /\ helper /\ offered # {}
  /\ promises' = Drop(promises, offered \cap Replaced("drag"))
  /\ UNCHANGED <<made, handle, disk, job, helperSide, waiting, delivered, crashed>>

HelperDies ==
  /\ helper /\ helper' = FALSE /\ waiting' = {} /\ offered' = {}
  /\ UNCHANGED <<made, files, job, bridge, delivered, crashed>>

\* The reading goroutine forgets the helper.
HelperReaped ==
  /\ bridge /\ ~helper /\ bridge' = FALSE
  /\ UNCHANGED <<made, files, job, helper, offered, waiting, delivered, crashed>>

\* The socket of an app ends: its promises stay listed and their files open, and
\* an app that is asked through it never hears of the paste.  (One that has no
\* promises may end unnoticed: it is as one that asks nothing more.)
SocketCloses(c) ==
  /\ \E id \in DOMAIN promises : promises[id].socket = c
  /\ c \notin gone /\ Cardinality(gone) < MaxCloses /\ gone' = gone \cup {c}
  /\ UNCHANGED <<made, files, job, helperSide, waiting, delivered, crashed>>

AgentNext ==
  \/ \E c \in Client :
       \/ \E s \in Services, n \in {0, Unknown} : Publish(c, s, n)
       \/ PublishSend(c) \/ ChoosePath(c) \/ OpenPromise(c) \/ Finish(c)
       \/ \E id \in Promise : AppRequest(c, id) \/ WriteChunk(c, id) \/ FinishBegin(c, id)
       \/ \E id \in Promise, n \in 1 .. MaxLength : SetSize(c, id, n)
       \/ \E s \in Services : Cancel(c, s)
       \/ CancelTell(c)
  \/ \E id \in Promise : HelperRequest(id)
  \/ DragEnd \/ HelperDies \/ HelperReaped

PromisesNext ==
  ~crashed /\ \/ AgentNext /\ UNCHANGED gone
              \/ \E c \in Client : SocketCloses(c)

PromisesSpec == PromisesInit /\ [][PromisesNext]_promiseVars

-----------------------------------------------------------------------------
(* Properties *)

\* A file is open exactly while its promise is listed: no handler forgets a
\* promise without closing its file, whichever of finish, cancel, a new offer
\* and the end of a drag comes first.
NoOpenFileLost ==
  \A id \in DOMAIN handle : handle[id] = "open" <=> id \in DOMAIN promises

\* The file of a paste is open for the app that offered it; its socket is
\* connected, or it has closed.
BeingWritten(id) ==
  id \in DOMAIN promises /\ handle[id] = "open" /\ promises[id].socket \notin gone
Orphaned(id) ==
  id \in DOMAIN promises /\ handle[id] = "open" /\ promises[id].socket \in gone
AnswerComes(id) == \E c \in Client : job[c].op = "tell" /\ id \in job[c].ids

\* What the desktop waits for can be written by a connected app that was asked,
\* or a handler is about to tell the helper that it was cancelled, or the socket
\* that offered it has closed.  Of the last nobody tells the helper, which waits
\* until another socket of the app finishes or cancels the promise: a send that
\* fails is not a failure of handleFilePromiseRequest.
PasteHasWriter ==
  \A id \in waiting : BeingWritten(id) \/ AnswerComes(id) \/ Orphaned(id)

\* A file that was delivered to the desktop is not removed again by a finish
\* or a cancel that raced with the one that delivered it.
DeliveredStays ==
  \A id \in DOMAIN delivered :
    delivered[id][1] = "drop" => delivered[id] \in DOMAIN disk

\* Every promise has one end: its file is closed, whoever waits for it is told
\* or has a writer while the socket that offered it lasts, and what was delivered
\* stays.
PromisesSafe == PromisesTypeOK /\ NoOpenFileLost /\ PasteHasWriter /\ DeliveredStays

\* The declared size of a promise never changes.
SizeFixed ==
  \A id \in DOMAIN promises \cap DOMAIN promises' :
    promises[id].size # Unknown => promises'[id].size = promises[id].size
=============================================================================
