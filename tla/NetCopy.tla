------------------------------ MODULE NetCopy -------------------------------
(***************************************************************************)
(* Copies between a network file system and this computer                  *)
(* (shellagent/netfiles/network_files.go): copyToLocal through a temporary *)
(* file, copyFromLocal and copyRemote in place.  A copy lists a directory  *)
(* and streams one file after the other.  An SFTP write is answered by the *)
(* server; an FTP upload is a STOR goroutine fed through a pipe, whose     *)
(* outcome Close waits for.  An FTP server that ends the data connection   *)
(* early looks like the end of the file.                                   *)
(***************************************************************************)
EXTENDS Naturals, FiniteSets

CONSTANTS
  Copier,          \* copies in progress, each with a connection of its own
  FileName,        \* the files of a directory
  MaxCopyCalls,    \* copies that are asked for
  MaxChunks,       \* the longest file, in buffers of streamCopy
  MaxCopyKills     \* times that the agent is killed

ASSUME NetCopyAssumption ==
  /\ MaxChunks \in Nat \ {0} /\ MaxCopyCalls \in Nat /\ MaxCopyKills \in Nat
  /\ IsFiniteSet(FileName)

VARIABLES
  protocol,   \* of the server: "sftp" or "ftp"
  dirs,       \* the files of each directory
  temps,      \* .dynapp-download-* of each copy
  copy,       \* the state of each copy; cut holds the files that an FTP server ended early,
              \* sized is whether the sizes of the source could be read
  copies, copyKills

copyVars == <<protocol, dirs, temps, copy, copies, copyKills>>

\* A local directory, and two of the server.
Side == {"local", "remote", "second"}
CopyKinds == {<<"remote", "local">>, <<"local", "remote">>, <<"remote", "second">>}
NoEntry == [chunks |-> 0, is |-> "absent"]
HalfFile(n) == [chunks |-> n, is |-> "part"]
WholeFile(n) == [chunks |-> n, is |-> "whole"]
\* What an FTP server sent before it ended the connection.
EndedFile(n) == [chunks |-> n, is |-> "ended"]
File == [chunks : 0 .. MaxChunks, is : {"absent", "part", "ended", "whole"}]
Resting == [at |-> "idle", from |-> "local", to |-> "remote", todo |-> {}, files |-> {},
            file |-> "", read |-> 0, arrived |-> 0, stor |-> "none",
            bytes |-> 0, total |-> 0, sized |-> TRUE, cut |-> {}, mixed |-> FALSE]

\* Types of the directories and of the copies.
NetCopyTypeOK ==
  /\ protocol \in {"sftp", "ftp"} /\ dirs \in [Side -> [FileName -> File]]
  /\ temps \subseteq Copier
  /\ copies \in 0 .. MaxCopyCalls /\ copyKills \in 0 .. MaxCopyKills
  /\ \A c \in Copier :
       /\ copy[c].at \in {"idle", "list", "next", "create", "stream", "close", "rename",
                          "done", "failed"}
       /\ copy[c].stor \in {"none", "asked", "open", "failed"}
       /\ copy[c].arrived <= copy[c].read /\ copy[c].read <= MaxChunks

\* The first directories hold a long and an empty file, or one of them; an
\* older file is in the way of every copy.
NetCopyInit ==
  /\ protocol \in {"sftp", "ftp"} /\ temps = {} /\ copies = 0 /\ copyKills = 0
  /\ copy = [c \in Copier |-> Resting]
  /\ \E old \in FileName :
       dirs = [s \in Side |-> [f \in FileName |->
         CASE s = "remote" -> WholeFile(IF f = old THEN MaxChunks ELSE 0)
           [] s = "local" -> IF f = old THEN WholeFile(1) ELSE NoEntry
           [] s = "second" -> IF f = old THEN NoEntry ELSE WholeFile(1)]]

-----------------------------------------------------------------------------
SetCopy(c, state) == copy' = [copy EXCEPT ![c] = state]
Present(s) == {f \in FileName : dirs[s][f] # NoEntry}
Put(s, f, file) == dirs' = [dirs EXCEPT ![s][f] = file]
Longer(m, n) == IF m > n THEN m ELSE n
ToLocal(c) == copy[c].to = "local"
ByStor(c) == ~ToLocal(c) /\ protocol = "ftp"

\* networkPathSize, localPathSize: the files of a directory, one by one.
Sizes(files, directory) ==
  LET sum[S \in SUBSET FileName] ==
        IF S = {} THEN 0
        ELSE LET f == CHOOSE f \in S : TRUE IN directory[f].chunks + sum[S \ {f}]
  IN  sum[files]

\* Two copies meet in a directory that one of them writes.
Meets(d, from, to) == copy[d].at # "idle" /\ (copy[d].to \in {from, to} \/ copy[d].from = to)

\* HandleRPC: a copy and its total.  An error of networkPathSize counts as
\* nothing, localPathSize leaves what it has seen until then; both are dropped.
BeginCopy(c, from, to) ==
  /\ copy[c].at = "idle" /\ copies < MaxCopyCalls /\ copies' = copies + 1
  /\ LET others == {d \in Copier \ {c} : Meets(d, from, to)} IN
     \E seen \in IF from = "local" THEN SUBSET Present(from) ELSE {{}, Present(from)} :
     copy' = [d \in Copier |->
       IF d = c
         THEN [Resting EXCEPT !.at = "list", !.from = from, !.to = to,
                 !.total = Sizes(seen, dirs[from]), !.sized = (seen = Present(from)),
                 !.mixed = others # {}]
         ELSE IF d \in others THEN [copy[d] EXCEPT !.mixed = TRUE] ELSE copy[d]]
  /\ UNCHANGED <<protocol, dirs, temps, copyKills>>

\* The target directory is made and the source listed.
ListSource(c) ==
  LET files == Present(copy[c].from) IN
  /\ copy[c].at = "list"
  /\ SetCopy(c, [copy[c] EXCEPT !.at = "next", !.todo = files, !.files = files])
  /\ UNCHANGED <<protocol, dirs, temps, copies, copyKills>>

\* OpenRead of the next file; the copy is over when there is none.
OpenRead(c) ==
  /\ copy[c].at = "next"
  /\ \/ /\ copy[c].todo = {} /\ SetCopy(c, [copy[c] EXCEPT !.at = "done"])
     \/ \E f \in copy[c].todo :
          SetCopy(c, [copy[c] EXCEPT !.at = "create", !.todo = @ \ {f}, !.file = f,
                                     !.read = 0, !.arrived = 0])
  /\ UNCHANGED <<protocol, dirs, temps, copies, copyKills>>

\* Mutant: a download is written in place.
OpenWriteInPlace(c) ==
  /\ copy[c].at = "create" /\ UNCHANGED <<protocol, copies, copyKills>>
  /\ SetCopy(c, [copy[c] EXCEPT !.at = "stream", !.stor = IF ByStor(c) THEN "asked" ELSE "none"])
  /\ temps' = IF ToLocal(c) THEN temps \cup {c} ELSE temps
  /\ IF ByStor(c) THEN UNCHANGED dirs
     ELSE Put(copy[c].to, copy[c].file, HalfFile(0))

\* os.CreateTemp for a download; SFTP creates or truncates the target; FTP
\* starts the STOR goroutine.
OpenWrite(c) ==
  /\ copy[c].at = "create" /\ UNCHANGED <<protocol, copies, copyKills>>
  /\ SetCopy(c, [copy[c] EXCEPT !.at = "stream", !.stor = IF ByStor(c) THEN "asked" ELSE "none"])
  /\ temps' = IF ToLocal(c) THEN temps \cup {c} ELSE temps
  /\ IF ToLocal(c) \/ ByStor(c) THEN UNCHANGED dirs
     ELSE Put(copy[c].to, copy[c].file, HalfFile(0))

\* The server takes STOR.  On the connection of a copyRemote it still sends
\* the source and does not.
StorOpens(c) ==
  /\ copy[c].stor = "asked" /\ copy[c].from = "local"
  /\ SetCopy(c, [copy[c] EXCEPT !.stor = "open"])
  /\ Put(copy[c].to, copy[c].file, HalfFile(0))
  /\ UNCHANGED <<protocol, temps, copies, copyKills>>

StorFails(c) ==
  /\ copy[c].stor \in {"asked", "open"} /\ SetCopy(c, [copy[c] EXCEPT !.stor = "failed"])
  /\ UNCHANGED <<protocol, dirs, temps, copies, copyKills>>

\* The server stores a chunk that the pipe has handed over.
Arrive(c) ==
  /\ copy[c].stor = "open" /\ copy[c].arrived < copy[c].read
  /\ SetCopy(c, [copy[c] EXCEPT !.arrived = @ + 1])
  /\ Put(copy[c].to, copy[c].file,
         HalfFile(Longer(dirs[copy[c].to][copy[c].file].chunks, copy[c].arrived + 1)))
  /\ UNCHANGED <<protocol, temps, copies, copyKills>>

\* streamCopy: a buffer is read and written, and counted.
StreamChunk(c) ==
  LET s == copy[c].from t == copy[c].to f == copy[c].file IN
  /\ copy[c].at = "stream" /\ copy[c].read < dirs[s][f].chunks
  /\ ByStor(c) => copy[c].stor = "open"
  /\ SetCopy(c, [copy[c] EXCEPT !.read = @ + 1, !.bytes = @ + 1])
  /\ IF ToLocal(c) \/ ByStor(c) THEN UNCHANGED dirs
     ELSE Put(t, f, HalfFile(Longer(dirs[t][f].chunks, copy[c].read + 1)))
  /\ UNCHANGED <<protocol, temps, copies, copyKills>>

\* The end of the source, or of an FTP server's patience.
SourceEnds(c) ==
  LET short == copy[c].read < dirs[copy[c].from][copy[c].file].chunks IN
  /\ copy[c].at = "stream" /\ (short => protocol = "ftp" /\ copy[c].from # "local")
  /\ SetCopy(c, [copy[c] EXCEPT !.at = "close", !.cut = IF short THEN @ \cup {copy[c].file} ELSE @])
  /\ UNCHANGED <<protocol, dirs, temps, copies, copyKills>>

\* Mutant: Close does not wait for the STOR.
CloseEarly(c) ==
  /\ copy[c].at = "close" /\ UNCHANGED <<protocol, temps, copies, copyKills>>
  /\ SetCopy(c, [copy[c] EXCEPT !.at = IF ToLocal(c) THEN "rename" ELSE "next", !.stor = "none"])
  /\ IF ToLocal(c) THEN UNCHANGED dirs
     ELSE Put(copy[c].to, copy[c].file,
              WholeFile(Longer(dirs[copy[c].to][copy[c].file].chunks, copy[c].arrived)))

\* Close: a STOR has stored all it was given and the server says so.
CloseWriter(c) ==
  /\ copy[c].at = "close" /\ UNCHANGED <<protocol, temps, copies, copyKills>>
  /\ ByStor(c) => copy[c].stor = "open" /\ copy[c].arrived = copy[c].read
  /\ SetCopy(c, [copy[c] EXCEPT !.at = IF ToLocal(c) THEN "rename" ELSE "next", !.stor = "none"])
  /\ IF ToLocal(c) THEN UNCHANGED dirs
     ELSE Put(copy[c].to, copy[c].file,
              WholeFile(Longer(dirs[copy[c].to][copy[c].file].chunks, copy[c].read)))

\* The temporary file takes the target's place, with all that was read: the
\* reader's Close, which would report an early end, is deferred and dropped.
RenameDownload(c) ==
  /\ copy[c].at = "rename" /\ temps' = temps \ {c}
  /\ Put("local", copy[c].file, IF copy[c].file \in copy[c].cut THEN EndedFile(copy[c].read)
                                                             ELSE WholeFile(copy[c].read))
  /\ SetCopy(c, [copy[c] EXCEPT !.at = "next"])
  /\ UNCHANGED <<protocol, copies, copyKills>>

\* Mutant: the temporary file is only removed when the download is renamed.
CopyFailsLeaving(c) ==
  /\ copy[c].at \in {"list", "next", "create", "stream", "close", "rename"}
  /\ SetCopy(c, [copy[c] EXCEPT !.at = "failed", !.stor = "none"])
  /\ UNCHANGED <<protocol, dirs, temps, copies, copyKills>>

\* A step of the copy fails, or the STOR has: the temporary file is removed
\* and no other file is copied.  A target on the server stays as it is.
CopyFails(c) ==
  /\ copy[c].at \in {"list", "next", "create", "stream", "close", "rename"}
  /\ SetCopy(c, [copy[c] EXCEPT !.at = "failed", !.stor = "none"]) /\ temps' = temps \ {c}
  /\ UNCHANGED <<protocol, dirs, copies, copyKills>>

CopyReturns(c) ==
  /\ copy[c].at \in {"done", "failed"} /\ SetCopy(c, Resting)
  /\ UNCHANGED <<protocol, dirs, temps, copies, copyKills>>

\* The agent is killed: what a STOR has sent stays.
CopyKilled ==
  /\ copyKills < MaxCopyKills /\ copyKills' = copyKills + 1
  /\ copy' = [c \in Copier |-> Resting] /\ UNCHANGED <<protocol, dirs, temps, copies>>

NetCopyNext ==
  \/ CopyKilled
  \/ \E c \in Copier :
       \/ \E k \in CopyKinds : BeginCopy(c, k[1], k[2])
       \/ ListSource(c) \/ OpenRead(c) \/ OpenWrite(c) \/ StorOpens(c) \/ StorFails(c)
       \/ Arrive(c) \/ StreamChunk(c) \/ SourceEnds(c) \/ CloseWriter(c)
       \/ RenameDownload(c) \/ CopyFails(c) \/ CopyReturns(c)

NetCopySpec == NetCopyInit /\ [][NetCopyNext]_copyVars

\* The name of a local file never stands for a download in progress or a failed
\* one: copies that overlap, fail or are killed leave the old file or all that
\* was read.  That is all the source held, or, from an FTP server, perhaps what it
\* sent before it ended the connection.
LocalWhole ==
  \A f \in Present("local") :
    dirs["local"][f].is \in {"whole"} \cup IF protocol = "ftp" THEN {"ended"} ELSE {}

\* No temporary file outlives its download, except when the agent is killed.
TempsRemoved ==
  copyKills = 0 => \A c \in temps : copy[c].at \in {"stream", "close", "rename"}

\* A copy that reports success and met no other one has copied every file of
\* the listing, the server has stored all of it, and the progress reached the
\* total when the sizes could be read; unless an FTP server ended one of its
\* downloads early.
CopiedAll ==
  \A c \in Copier :
    copy[c].at = "done" /\ ~copy[c].mixed /\ copy[c].cut = {} =>
      /\ \A f \in copy[c].files :
           dirs[copy[c].to][f] = WholeFile(dirs[copy[c].from][f].chunks)
      /\ copy[c].sized => copy[c].bytes = copy[c].total

\* A copy that fails leaves nothing half done on this computer, and one that
\* reports success has done all of it.
NetCopySafe == NetCopyTypeOK /\ LocalWhole /\ TempsRemoved /\ CopiedAll
=============================================================================
