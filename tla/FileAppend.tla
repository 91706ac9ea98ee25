------------------------------ MODULE FileAppend -------------------------------
(***************************************************************************)
(* Appending to a file of Alluxio, whose files are written once:           *)
(* openFileForAppend copies the file to one named <path>.append,           *)
(* completeAppend replaces the original by it. Every call of the Alluxio   *)
(* client may throw, and a client may stop anywhere.                       *)
(*                                                                         *)
(* The namespace is Alluxio's, seen from the calls the library makes: the  *)
(* two paths name inodes, a stream is bound to an inode whatever its name  *)
(* becomes, an inode that is closed is not written again.                  *)
(***************************************************************************)
EXTENDS Naturals, Sequences, SequencesExt

CONSTANTS
  Clients,      \* processes or threads that append to the same path
  Inodes,       \* inodes of the Alluxio master
  NoInode,      \* the path names nothing; NULL stream
  Nothing,      \* see AppendSpec
  BufferSize,   \* bytes of the copy buffer (1000000 in the code)
  InitialSize,  \* the file has at most this many bytes at first
  MaxSize,      \* bound: the application writes no more when a file has this size
  Environments  \* what an execution may meet, see env

\* An environment says whether
\*   faults       a call may throw though Alluxio could have served it, a client may stop;
\*   lostReplies  a call may throw though Alluxio has served it;
\*   shortReads   InStream::read may answer less than is left of the file;
\*   retry        the application may call completeAppend again after it threw.
AllEnvironments == [faults : BOOLEAN, lostReplies : BOOLEAN, shortReads : BOOLEAN, retry : BOOLEAN]

\* A byte of the original file is its index, one of an application is the client.
Bytes == Nat \cup Clients

ASSUME AppendAssumption ==
  /\ NoInode \notin Inodes
  /\ BufferSize \in Nat \ {0}
  /\ InitialSize \in Nat
  /\ MaxSize \in Nat
  /\ InitialSize <= MaxSize
  /\ Nothing \notin Seq(Bytes)
  /\ Environments \subseteq AllEnvironments

VARIABLES
  path, appendPath,  \* the inodes the two paths name
  content,           \* content[i]: the bytes written to inode i
  closed,            \* inodes that are complete
  pc,                \* the call each client is about to make
  in, out,           \* inodes of origFile and of the stream returned to the caller
  pos,               \* bytes origFile has been read
  env                \* the environment of this execution, which never changes

namespace == <<path, appendPath, content, closed>>
vars == <<namespace, pc, in, out, pos, env>>

-------------------------------------------------------------------------------
Opening == {"openFile", "createFile", "copy", "closeIn"}
Completing == {"close", "deletePath", "renameFile"}
Labels == {"idle", "write", "failed"} \cup Opening \cup Completing

Initial(n) == [k \in 1..n |-> k]

\* An idle client has no stream.
Goto(c, label) ==
  /\ pc' = [pc EXCEPT ![c] = label]
  /\ in' = IF label = "idle" THEN [in EXCEPT ![c] = NoInode] ELSE in
  /\ out' = IF label = "idle" THEN [out EXCEPT ![c] = NoInode] ELSE out
  /\ pos' = IF label = "idle" THEN [pos EXCEPT ![c] = 0] ELSE pos

\* An exception in openFileForAppend leaves the caller without a stream, one in
\* completeAppend with the stream it passed.
Throw(c) == Goto(c, IF pc[c] \in Opening THEN "idle" ELSE "failed")

\* Alluxio served the call; its answer may be lost.
Served(c, next) == Goto(c, next) \/ (env.lostReplies /\ Throw(c))

Fresh(i) == i \notin {path, appendPath} \cup {in[c] : c \in Clients} \cup {out[c] : c \in Clients}

Init ==
  /\ path \in Inodes
  /\ appendPath = NoInode
  /\ \E n \in 0..InitialSize : content = [i \in Inodes |-> IF i = path THEN Initial(n) ELSE <<>>]
  /\ closed = {path}
  /\ pc = [c \in Clients |-> "idle"]
  /\ in = [c \in Clients |-> NoInode]
  /\ out = [c \in Clients |-> NoInode]
  /\ pos = [c \in Clients |-> 0]
  /\ env \in Environments

-------------------------------------------------------------------------------
(* AlluxioFileSystem::openFileForAppend *)

StartAppend(c) ==
  /\ pc[c] = "idle"
  /\ Goto(c, "openFile")
  /\ UNCHANGED namespace

OpenFile(c) ==
  /\ pc[c] = "openFile"
  /\ path \in closed
  /\ pc' = [pc EXCEPT ![c] = "createFile"]
  /\ in' = [in EXCEPT ![c] = path]
  /\ UNCHANGED <<namespace, out, pos>>

\* Mutant: an existing <path>.append is replaced.
CreateFile_Overwrite(c) ==
  /\ pc[c] = "createFile"
  /\ \E i \in Inodes :
       /\ Fresh(i)
       /\ appendPath' = i
       /\ content' = [content EXCEPT ![i] = <<>>]
       /\ closed' = closed \ {i}
       /\ out' = [out EXCEPT ![c] = i]
  /\ pc' = [pc EXCEPT ![c] = "copy"]
  /\ UNCHANGED <<path, in, pos>>

CreateFile(c) ==
  /\ pc[c] = "createFile"
  /\ appendPath = NoInode
  /\ \E i \in Inodes :
       /\ Fresh(i)
       /\ appendPath' = i
       /\ content' = [content EXCEPT ![i] = <<>>]
       /\ closed' = closed \ {i}
       /\ \/ /\ pc' = [pc EXCEPT ![c] = "copy"]
             /\ out' = [out EXCEPT ![c] = i]
             /\ UNCHANGED <<in, pos>>
          \/ env.lostReplies /\ Throw(c)
  /\ UNCHANGED path

\* What one read can answer, 0 for the -1 of the end of the file.
ReadSizes(left) ==
  IF left = 0 THEN {0}
  ELSE {n \in 1..BufferSize : n <= left /\ (env.shortReads \/ n = left \/ n = BufferSize)}

\* Mutants of the copy loop: one turn only; the buffer is written whole, and at
\* the end of the file too; the end of the file is not recognised.
CopyChunk_OneTurn(c) ==
  /\ pc[c] = "copy"
  /\ \E bytesRead \in ReadSizes(Len(content[in[c]]) - pos[c]) :
       /\ content' = [content EXCEPT ![out[c]] =
                        @ \o SubSeq(content[in[c]], pos[c] + 1, pos[c] + bytesRead)]
       /\ pos' = [pos EXCEPT ![c] = @ + bytesRead]
  /\ pc' = [pc EXCEPT ![c] = "closeIn"]
  /\ UNCHANGED <<path, appendPath, closed, in, out>>

CopyChunk_WholeBuffer(c) ==
  /\ pc[c] = "copy"
  /\ \E bytesRead \in ReadSizes(Len(content[in[c]]) - pos[c]) :
       /\ content' = [content EXCEPT ![out[c]] = @ \o Initial(BufferSize)]
       /\ pos' = [pos EXCEPT ![c] = @ + bytesRead]
       /\ pc' = [pc EXCEPT ![c] = IF bytesRead = BufferSize THEN "copy" ELSE "closeIn"]
  /\ UNCHANGED <<path, appendPath, closed, in, out>>

CopyChunk_NoEnd(c) ==
  /\ pc[c] = "copy"
  /\ \E bytesRead \in ReadSizes(Len(content[in[c]]) - pos[c]) :
       /\ content' = [content EXCEPT ![out[c]] =
                        @ \o SubSeq(content[in[c]], pos[c] + 1, pos[c] + bytesRead)]
       /\ pos' = [pos EXCEPT ![c] = @ + bytesRead]
  /\ UNCHANGED <<path, appendPath, closed, in, out, pc>>

\* One turn of `while (bytesRead == bufferSize)'.
CopyChunk(c) ==
  /\ pc[c] = "copy"
  /\ \E bytesRead \in ReadSizes(Len(content[in[c]]) - pos[c]) :
       /\ content' = [content EXCEPT ![out[c]] =
                        @ \o SubSeq(content[in[c]], pos[c] + 1, pos[c] + bytesRead)]
       /\ pos' = [pos EXCEPT ![c] = @ + bytesRead]
       /\ pc' = [pc EXCEPT ![c] = IF bytesRead = BufferSize THEN "copy" ELSE "closeIn"]
  /\ UNCHANGED <<path, appendPath, closed, in, out>>

CloseIn(c) ==
  /\ pc[c] = "closeIn"
  /\ Goto(c, "write")
  /\ UNCHANGED namespace

-------------------------------------------------------------------------------
(* The application's own writes, and AlluxioFileSystem::completeAppend *)

Write(c) ==
  /\ pc[c] = "write"
  /\ Len(content[out[c]]) < MaxSize
  /\ content' = [content EXCEPT ![out[c]] = Append(@, c)]
  /\ UNCHANGED <<path, appendPath, closed, pc, in, out, pos>>

\* Mutant: the stream is not closed before the original is deleted.
CompleteAppend_NoClose(c) ==
  /\ pc[c] = "write" \/ (env.retry /\ pc[c] = "failed")
  /\ Goto(c, "deletePath")
  /\ UNCHANGED namespace

CompleteAppend(c) ==
  /\ pc[c] = "write" \/ (env.retry /\ pc[c] = "failed")
  /\ Goto(c, "close")
  /\ UNCHANGED namespace

\* Mutant: the renaming comes before the deletion.
Close_ThenRename(c) ==
  /\ pc[c] = "close"
  /\ closed' = closed \cup {out[c]}
  /\ Served(c, "renameFile")
  /\ UNCHANGED <<path, appendPath, content>>

\* Closing a stream twice is harmless.
Close(c) ==
  /\ pc[c] = "close"
  /\ closed' = closed \cup {out[c]}
  /\ Served(c, "deletePath")
  /\ UNCHANGED <<path, appendPath, content>>

DeletePath(c) ==
  /\ pc[c] = "deletePath"
  /\ path # NoInode
  /\ path' = NoInode
  /\ Served(c, "renameFile")
  /\ UNCHANGED <<appendPath, content, closed>>

RenameFile(c) ==
  /\ pc[c] = "renameFile"
  /\ appendPath # NoInode
  /\ path = NoInode
  /\ path' = appendPath
  /\ appendPath' = NoInode
  /\ Served(c, "idle")
  /\ UNCHANGED <<content, closed>>

-------------------------------------------------------------------------------
(* Failures *)

\* Alluxio cannot serve the call: a path that is missing, or in the way, or a
\* file that was deleted while it was read.
Refused(c) ==
  \/ pc[c] = "openFile" /\ path \notin closed
  \/ pc[c] = "createFile" /\ appendPath # NoInode
  \/ pc[c] = "copy" /\ in[c] # path
  \/ pc[c] = "deletePath" /\ path = NoInode
  \/ pc[c] = "renameFile" /\ (appendPath = NoInode \/ path # NoInode)

CallFails(c) ==
  /\ pc[c] \in Opening \cup Completing
  /\ Refused(c) \/ env.faults
  /\ Throw(c)
  /\ UNCHANGED namespace

\* The client stops: it dies and is started again, or the application drops the stream.
Stop(c) ==
  /\ env.faults
  /\ pc[c] # "idle"
  /\ Goto(c, "idle")
  /\ UNCHANGED namespace

-------------------------------------------------------------------------------
\* A call of the library takes its next step.
CallStep(c) ==
  /\ \/ OpenFile(c) \/ CreateFile(c) \/ CopyChunk(c) \/ CloseIn(c)
     \/ Close(c) \/ DeletePath(c) \/ RenameFile(c) \/ CallFails(c)
  /\ UNCHANGED env

ApplicationStep(c) ==
  /\ StartAppend(c) \/ Write(c) \/ CompleteAppend(c) \/ Stop(c)
  /\ UNCHANGED env

Next == \E c \in Clients : CallStep(c) \/ ApplicationStep(c)

Spec == Init /\ [][Next]_vars

\* A call that has begun goes on: the library's code is sequential and each
\* call of the Alluxio client returns or throws. No application must append.
FairSpec == Spec /\ \A c \in Clients : WF_vars(CallStep(c))

-------------------------------------------------------------------------------
TypeOK ==
  /\ path \in Inodes \cup {NoInode}
  /\ appendPath \in Inodes \cup {NoInode}
  /\ DOMAIN content = Inodes
  /\ \A i \in Inodes : Len(content[i]) <= MaxSize
  /\ closed \subseteq Inodes
  /\ pc \in [Clients -> Labels]
  /\ in \in [Clients -> Inodes \cup {NoInode}]
  /\ out \in [Clients -> Inodes \cup {NoInode}]
  /\ pos \in [Clients -> 0..MaxSize]
  /\ env \in Environments

\* Between the creation of <path>.append and the renaming, the name is the
\* client's own stream: it works as a lock, so that no two clients copy, complete
\* or delete at the same time, and a retried completeAppend renames what it wrote.
Owning ==
  {"copy", "closeIn", "write"} \cup Completing \cup (IF env.retry THEN {"failed"} ELSE {})
AppendPathOwned ==
  \A c \in Clients : pc[c] \in Owning => out[c] # NoInode /\ appendPath = out[c]

\* Whatever fails and wherever a client stops, a complete file is left under one
\* of the two paths, and the original one is missing only if the copy is complete.
CompleteFileKept ==
  \/ path \in closed
  \/ path = NoInode /\ appendPath \in closed

\* A <path>.append that no client writes any more is never overwritten, deleted
\* or renamed: its data stays, and so does the file as it is, because every later
\* append is refused.
Abandoned == appendPath # NoInode /\ \A c \in Clients : out[c] # appendPath
AbandonedStays == [][Abandoned => UNCHANGED <<path, appendPath>>]_vars

\* The file, wherever it is.
file == content[IF path # NoInode THEN path ELSE appendPath]

\* A client's append is over when the copy it has closed is no longer <path>.append.
seen ==
  [c \in Clients |->
     IF in[c] # NoInode /\ (out[c] \in closed => appendPath = out[c])
       THEN content[in[c]] ELSE Nothing]
Abstract == INSTANCE AppendSpec WITH visible <- (path # NoInode)

\* A completed append is what the client saw of the file, whole, and its own
\* data after it, whatever the size of the copy buffer.
SnapshotAppend == Abstract!Spec

\* Nothing that was in the file is ever lost: true of one client at a time only,
\* and of reads that answer all they can.
BytesKept == [][env.shortReads \/ IsPrefix(file, file')]_vars

\* Every call of openFileForAppend or completeAppend returns or throws.
CallsReturn ==
  \A c \in Clients : pc[c] \in Opening \cup Completing ~> pc[c] \in {"idle", "write", "failed"}

\* Without failures, and without another client, appends succeed.
CallsSucceed ==
  \A c \in Clients : /\ (pc[c] = "openFile" /\ ~env.faults) ~> pc[c] = "write"
                     /\ (pc[c] = "close" /\ ~env.faults) ~> pc[c] = "idle"
                     /\ [](pc[c] = "failed" => env.faults)

-------------------------------------------------------------------------------
\* What the lock and the complete file rest on. An application may retry a
\* completeAppend that threw only if a call that threw was not served.
NoBlindRetry == \A e \in Environments : ~(e.lostReplies /\ e.retry)

OneOwner == \A c, d \in Clients : pc[c] \in Owning /\ pc[d] \in Owning => c = d

CompletingInv ==
  \A c \in Clients : /\ pc[c] \in {"deletePath", "renameFile"} => out[c] \in closed
                     /\ pc[c] = "renameFile" => path = NoInode

NamespaceInv ==
  /\ path # NoInode => path \in closed
  /\ path # NoInode => path # appendPath

IInv ==
  /\ path \in Inodes \cup {NoInode} /\ appendPath \in Inodes \cup {NoInode}
  /\ closed \subseteq Inodes
  /\ pc \in [Clients -> Labels]
  /\ in \in [Clients -> Inodes \cup {NoInode}]
  /\ out \in [Clients -> Inodes \cup {NoInode}]
  /\ env \in Environments
  /\ OneOwner
  /\ AppendPathOwned
  /\ CompletingInv
  /\ NamespaceInv
  /\ CompleteFileKept
===============================================================================
