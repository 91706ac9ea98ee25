--------------------------- MODULE FileAppendProofs ----------------------------
(***************************************************************************)
(* Proofs about FileAppend, for every set of clients, any file, and any    *)
(* size of the copy buffer. They assume NoBlindRetry: without it the       *)
(* properties are false.                                                   *)
(***************************************************************************)
EXTENDS FileAppend, SequenceTheorems, TLAPS

\* A file alone under its path satisfies the inductive invariant.
LEMMA InitInv == Init => IInv
BY AppendAssumption
   DEF Init, IInv, OneOwner, AppendPathOwned, CompletingInv, NamespaceInv, CompleteFileKept,
       Labels, Owning, Opening, Completing

\* Every call of a client keeps it, served or not.
LEMMA StepInv == ASSUME NoBlindRetry PROVE IInv /\ [Next]_vars => IInv'
<1> SUFFICES ASSUME IInv, [Next]_vars PROVE IInv'
  OBVIOUS
<1> USE AppendAssumption, NoBlindRetry
    DEF NoBlindRetry, AllEnvironments, IInv, OneOwner, AppendPathOwned, CompletingInv, NamespaceInv, CompleteFileKept,
        Labels, Owning, Opening, Completing, namespace, Goto, Throw, Served
<1>1. ASSUME NEW c \in Clients, StartAppend(c), UNCHANGED env PROVE IInv'
  BY <1>1 DEF StartAppend
<1>2. ASSUME NEW c \in Clients, OpenFile(c), UNCHANGED env PROVE IInv'
  BY <1>2 DEF OpenFile
<1>3. ASSUME NEW c \in Clients, CreateFile(c), UNCHANGED env PROVE IInv'
  BY <1>3 DEF CreateFile, Fresh
<1>4. ASSUME NEW c \in Clients, CopyChunk(c), UNCHANGED env PROVE IInv'
  BY <1>4 DEF CopyChunk
<1>5. ASSUME NEW c \in Clients, CloseIn(c), UNCHANGED env PROVE IInv'
  BY <1>5 DEF CloseIn
<1>6. ASSUME NEW c \in Clients, Write(c), UNCHANGED env PROVE IInv'
  BY <1>6 DEF Write
<1>7. ASSUME NEW c \in Clients, CompleteAppend(c), UNCHANGED env PROVE IInv'
  BY <1>7 DEF CompleteAppend
<1>8. ASSUME NEW c \in Clients, Close(c), UNCHANGED env PROVE IInv'
  BY <1>8 DEF Close
<1>9. ASSUME NEW c \in Clients, DeletePath(c), UNCHANGED env PROVE IInv'
  BY <1>9 DEF DeletePath
<1>10. ASSUME NEW c \in Clients, RenameFile(c), UNCHANGED env PROVE IInv'
  BY <1>10 DEF RenameFile
<1>11. ASSUME NEW c \in Clients, CallFails(c), UNCHANGED env PROVE IInv'
  BY <1>11 DEF CallFails, Refused
<1>12. ASSUME NEW c \in Clients, Stop(c), UNCHANGED env PROVE IInv'
  BY <1>12 DEF Stop
<1>13. CASE UNCHANGED vars
  BY <1>13 DEF vars
<1> QED
  BY <1>1, <1>2, <1>3, <1>4, <1>5, <1>6, <1>7, <1>8, <1>9, <1>10, <1>11, <1>12, <1>13
  DEF Next, ApplicationStep, CallStep

\* The invariant of every execution.
THEOREM InductiveInvariant == ASSUME NoBlindRetry PROVE Spec => []IInv
BY InitInv, StepInv, PTL DEF Spec

\* The name <path>.append is a lock for any number of clients.
THEOREM AppendPathIsLock == ASSUME NoBlindRetry PROVE Spec => []AppendPathOwned
<1>1. IInv => AppendPathOwned
  BY DEF IInv
<1> QED BY <1>1, InductiveInvariant, PTL

\* No failure, lost answer or stop of a client leaves the file without a
\* complete copy under one of the two paths.
THEOREM NoFailureLosesTheFile == ASSUME NoBlindRetry PROVE Spec => []CompleteFileKept
<1>1. IInv => CompleteFileKept
  BY DEF IInv
<1> QED BY <1>1, InductiveInvariant, PTL

\* An abandoned <path>.append stays where it is and keeps the file as it was.
THEOREM AbandonedIsKept == ASSUME NoBlindRetry PROVE Spec => AbandonedStays
<1>1. IInv /\ [Next]_vars => [Abandoned => UNCHANGED <<path, appendPath>>]_vars
  <2> SUFFICES ASSUME IInv, Abandoned, NEW c \in Clients, CallStep(c) \/ ApplicationStep(c)
               PROVE  UNCHANGED <<path, appendPath>>
    BY DEF Next, vars
  <2>1. pc[c] \notin Owning
    BY DEF IInv, AppendPathOwned, Abandoned
  <2>2. ~DeletePath(c) /\ ~RenameFile(c)
    BY <2>1 DEF DeletePath, RenameFile, Owning, Completing
  <2>3. ~CreateFile(c)
    BY DEF CreateFile, Abandoned
  <2> QED
    BY <2>2, <2>3 DEF ApplicationStep, CallStep, StartAppend, OpenFile, CopyChunk, CloseIn, Write,
                      CompleteAppend, Close, CallFails, Stop, namespace
<1> QED BY <1>1, InductiveInvariant, PTL DEF Spec, AbandonedStays

-------------------------------------------------------------------------------
(* The data: what a client has read, and what its copy holds *)

DataInv ==
  /\ content \in [Inodes -> Seq(Bytes)]
  /\ \A i \in Inodes : Len(content[i]) <= MaxSize
  /\ pos \in [Clients -> 0..MaxSize]

\* A client reads an inode that is complete, and writes one of its own that is not.
StreamsFor(c) ==
  /\ pc[c] \in {"idle", "openFile"} <=> in[c] = NoInode
  /\ pc[c] \in {"idle", "openFile", "createFile"} <=> out[c] = NoInode
  /\ pc[c] \in {"idle", "openFile", "createFile"} => pos[c] = 0
  /\ in[c] # NoInode => in[c] \in closed
  /\ pc[c] \in {"copy", "closeIn", "write"} => out[c] \notin closed
OwnStreams == \A c, d \in Clients : out[c] = out[d] /\ out[c] # NoInode => c = d

Extending(c) ==
  /\ IsPrefix(content[in[c]], content[out[c]])
  /\ \A k \in DOMAIN content[out[c]] : k > Len(content[in[c]]) => content[out[c]][k] = c

\* The copy is what has been read of the file; then the whole of it, and own data.
CopyFor(c) ==
  /\ pc[c] \in {"copy", "closeIn"} => /\ pos[c] <= Len(content[in[c]])
                                      /\ content[out[c]] = SubSeq(content[in[c]], 1, pos[c])
  /\ pc[c] = "closeIn" => env.shortReads \/ content[out[c]] = content[in[c]]
  /\ pc[c] \in {"write", "failed"} \cup Completing => env.shortReads \/ Extending(c)

SInv == DataInv /\ OwnStreams /\ \A c \in Clients : StreamsFor(c) /\ CopyFor(c)

\* The first n elements of a sequence.
LEMMA StartOfSeq ==
  ASSUME NEW S, NEW s \in Seq(S), NEW n \in 0..Len(s)
  PROVE  /\ SubSeq(s, 1, n) \in Seq(S) /\ Len(SubSeq(s, 1, n)) = n
         /\ \A i \in 1..n : SubSeq(s, 1, n)[i] = s[i]
<1>1. Len(s) \in Nat /\ \A i \in 1..n : i \in 1..Len(s)
  BY LenProperties
<1>2. \A i \in 1..n : s[i] \in S
  BY <1>1, ElementOfSeq
<1> QED
  BY <1>1, <1>2, SubSeqProperties

\* Nobody has read or written anything yet.
LEMMA DataInit == Init => SInv
<1> SUFFICES ASSUME Init PROVE SInv
  OBVIOUS
<1> USE AppendAssumption
<1>1. PICK n \in 0..InitialSize : content = [i \in Inodes |-> IF i = path THEN Initial(n) ELSE <<>>]
  BY DEF Init
<1>2. Initial(n) \in Seq(Bytes) /\ Len(Initial(n)) = n
  <2>1. Initial(n) \in [1..n -> Bytes] /\ n \in Nat
    BY DEF Initial, Bytes
  <2> QED
    BY <2>1, SeqDef
<1>3. <<>> \in Seq(Bytes) /\ Len(<<>>) = 0
  BY EmptySeq
<1>4. DataInv
  BY <1>1, <1>2, <1>3 DEF Init, DataInv
<1> QED
  BY <1>4 DEF Init, SInv, OwnStreams, StreamsFor, CopyFor, Completing

\* What a step of one client leaves to the others.
LEMMA OthersKept ==
  ASSUME NEW d \in Clients, StreamsFor(d), CopyFor(d), env' = env,
         pc'[d] = pc[d], in'[d] = in[d], out'[d] = out[d], pos'[d] = pos[d],
         in[d] # NoInode => in[d] \in closed' /\ content'[in[d]] = content[in[d]],
         out[d] # NoInode => /\ content'[out[d]] = content[out[d]]
                             /\ out[d] \in closed' => out[d] \in closed
  PROVE  StreamsFor(d)' /\ CopyFor(d)'
<1>1. StreamsFor(d)'
  BY DEF StreamsFor
<1>2. pc[d] \in {"copy", "closeIn", "write", "failed"} \cup Completing
        => content'[in'[d]] = content[in[d]] /\ content'[out'[d]] = content[out[d]]
  BY DEF StreamsFor, Completing
<1>3. CopyFor(d)'
  BY <1>2 DEF CopyFor, Extending
<1> QED
  BY <1>1, <1>3

\* A step that leaves the namespace and sets the place of a client only.
LEMMA GotoKeeps ==
  ASSUME IInv, SInv, NEW c \in Clients, NEW label \in Labels \ {"createFile", "copy", "closeIn"},
         Goto(c, label), content' = content, env' = env,
         closed' = closed \/ (closed' = closed \cup {out[c]} /\ pc[c] = "close"),
         label = "openFile" => pc[c] = "idle",
         label = "write" => pc[c] = "closeIn",
         label = "failed" => pc[c] \in Completing,
         label \in Completing => pc[c] \in {"write", "failed"} \cup Completing
  PROVE  SInv'
<1> USE AppendAssumption DEF IInv, SInv, Goto, Labels, Opening, Completing
<1>1. DataInv'
  BY DEF DataInv
<1>2. /\ pc'[c] = label
      /\ IF label = "idle" THEN in'[c] = NoInode /\ out'[c] = NoInode /\ pos'[c] = 0
         ELSE in'[c] = in[c] /\ out'[c] = out[c] /\ pos'[c] = pos[c]
      /\ \A d \in Clients : d # c =>
           pc'[d] = pc[d] /\ in'[d] = in[d] /\ out'[d] = out[d] /\ pos'[d] = pos[d]
  BY DEF DataInv
<1>3. OwnStreams'
  BY <1>2 DEF OwnStreams
<1>4. ASSUME NEW d \in Clients, d # c PROVE StreamsFor(d)' /\ CopyFor(d)'
  <2>1. /\ in[d] # NoInode => in[d] \in closed' /\ content'[in[d]] = content[in[d]]
        /\ out[d] # NoInode => /\ content'[out[d]] = content[out[d]]
                               /\ out[d] \in closed' => out[d] \in closed
    BY <1>4 DEF OwnStreams, StreamsFor
  <2>2. pc'[d] = pc[d] /\ in'[d] = in[d] /\ out'[d] = out[d] /\ pos'[d] = pos[d]
    BY <1>2, <1>4
  <2>3. StreamsFor(d) /\ CopyFor(d)
    OBVIOUS
  <2> QED
    BY <2>1, <2>2, <2>3, OthersKept
<1>5. StreamsFor(c)'
  BY <1>2 DEF StreamsFor
<1>6. CopyFor(c)'
  <2>1. CASE label \in {"idle", "openFile"}
    BY <1>2, <2>1 DEF CopyFor
  <2>2. CASE label = "write"
    <3>1. env.shortReads \/ content[out[c]] = content[in[c]]
      BY <2>2 DEF CopyFor
    <3>2. content[in[c]] \in Seq(Bytes)
      BY <2>2 DEF StreamsFor, DataInv
    <3>3. env.shortReads \/ Extending(c)
      BY <3>1, <3>2, LenProperties DEF Extending, IsPrefix
    <3> QED
      BY <1>2, <2>2, <3>3 DEF CopyFor, Extending
  <2>3. CASE label \in {"failed"} \cup Completing
    <3>1. env.shortReads \/ Extending(c)
      BY <2>3 DEF CopyFor
    <3> QED
      BY <1>2, <2>3, <3>1 DEF CopyFor, Extending
  <2> QED
    BY <2>1, <2>2, <2>3
<1> QED
  BY <1>1, <1>3, <1>4, <1>5, <1>6

\* A client that opens the file has read nothing of it.
LEMMA OpenFileKeeps ==
  ASSUME IInv, SInv, NEW c \in Clients, OpenFile(c), env' = env PROVE SInv'
<1> USE AppendAssumption DEF IInv, SInv, OpenFile, namespace
<1>1. DataInv' /\ OwnStreams'
  BY DEF DataInv, OwnStreams
<1>2. ASSUME NEW d \in Clients, d # c PROVE StreamsFor(d)' /\ CopyFor(d)'
  <2>1. /\ in[d] # NoInode => in[d] \in closed' /\ content'[in[d]] = content[in[d]]
        /\ out[d] # NoInode => /\ content'[out[d]] = content[out[d]]
                               /\ out[d] \in closed' => out[d] \in closed
    BY DEF StreamsFor
  <2>2. pc'[d] = pc[d] /\ in'[d] = in[d] /\ out'[d] = out[d] /\ pos'[d] = pos[d]
    BY <1>2
  <2>3. StreamsFor(d) /\ CopyFor(d)
    OBVIOUS
  <2> QED
    BY <2>1, <2>2, <2>3, OthersKept
<1>3. StreamsFor(c)' /\ CopyFor(c)'
  BY DEF StreamsFor, CopyFor, Completing
<1> QED
  BY <1>1, <1>2, <1>3

\* The new copy is nobody's, empty, and not complete.
LEMMA CreateFileKeeps ==
  ASSUME IInv, SInv, NEW c \in Clients, CreateFile(c), env' = env PROVE SInv'
<1> USE AppendAssumption DEF IInv, SInv
<1> PICK i \in Inodes :
      /\ Fresh(i)
      /\ appendPath' = i
      /\ content' = [content EXCEPT ![i] = <<>>]
      /\ closed' = closed \ {i}
      /\ \/ /\ pc' = [pc EXCEPT ![c] = "copy"]
            /\ out' = [out EXCEPT ![c] = i]
            /\ UNCHANGED <<in, pos>>
         \/ env.lostReplies /\ Throw(c)
  BY DEF CreateFile
<1>1. pc[c] = "createFile"
  BY DEF CreateFile
<1>2. \A d \in Clients : in[d] # i /\ out[d] # i
  BY DEF Fresh
<1>3. \A d \in Clients : d # c =>
         pc'[d] = pc[d] /\ in'[d] = in[d] /\ out'[d] = out[d] /\ pos'[d] = pos[d]
  BY DEF Throw, Goto, DataInv
<1>4. content' \in [Inodes -> Seq(Bytes)] /\ \A j \in Inodes : Len(content'[j]) <= MaxSize
  <2>1. <<>> \in Seq(Bytes) /\ Len(<<>>) = 0
    BY EmptySeq
  <2> QED
    BY <2>1 DEF DataInv
<1>5. DataInv'
  <2>1. pos' = pos \/ pos' = [pos EXCEPT ![c] = 0]
    BY DEF Throw, Goto
  <2>2. 0 \in 0..MaxSize /\ pos \in [Clients -> 0..MaxSize]
    BY DEF DataInv
  <2>3. pos' \in [Clients -> 0..MaxSize]
    BY <2>1, <2>2
  <2> QED
    BY <1>4, <2>3 DEF DataInv
<1>6. ASSUME NEW d \in Clients, d # c PROVE StreamsFor(d)' /\ CopyFor(d)'
  <2>1. in[d] # NoInode => in[d] \in closed' /\ content'[in[d]] = content[in[d]]
    BY <1>2 DEF StreamsFor, DataInv
  <2>2. out[d] # NoInode => content'[out[d]] = content[out[d]] /\ (out[d] \in closed' => out[d] \in closed)
    BY <1>2 DEF DataInv
  <2> QED
    BY <1>3, <1>6, <2>1, <2>2, OthersKept
<1>7. CASE pc' = [pc EXCEPT ![c] = "copy"] /\ out' = [out EXCEPT ![c] = i] /\ UNCHANGED <<in, pos>>
  <2>1. OwnStreams'
    BY <1>2, <1>7 DEF OwnStreams
  <2>2. StreamsFor(c)'
    BY <1>1, <1>2, <1>7 DEF StreamsFor
  <2>3. CopyFor(c)'
    <3>1. pos'[c] = 0 /\ content'[out'[c]] = <<>> /\ in'[c] = in[c] /\ in[c] \in Inodes
      BY <1>1, <1>7 DEF StreamsFor, DataInv
    <3>2. content'[in[c]] \in Seq(Bytes) /\ Len(content'[in[c]]) \in Nat
      BY <1>4, <3>1, LenProperties
    <3>3. SubSeq(content'[in[c]], 1, 0) = <<>>
      BY <3>2, SubSeqEmpty
    <3>4. pc'[c] = "copy"
      BY <1>7
    <3>5. 0 <= Len(content'[in[c]])
      BY <3>2
    <3>6. content'[out'[c]] = SubSeq(content'[in'[c]], 1, pos'[c]) /\ pos'[c] <= Len(content'[in'[c]])
      BY <3>1, <3>3, <3>5
    <3> QED
      BY <3>4, <3>6 DEF CopyFor, Completing
  <2> QED
    BY <1>5, <1>6, <2>1, <2>2, <2>3
<1>8. CASE Throw(c)
  <2>1. pc'[c] = "idle" /\ in'[c] = NoInode /\ out'[c] = NoInode /\ pos'[c] = 0
    BY <1>1, <1>8 DEF Throw, Goto, Opening, DataInv
  <2>2. OwnStreams'
    BY <1>3, <2>1 DEF OwnStreams
  <2>3. StreamsFor(c)' /\ CopyFor(c)'
    BY <2>1 DEF StreamsFor, CopyFor, Completing
  <2> QED
    BY <1>5, <1>6, <2>2, <2>3
<1> QED
  BY <1>7, <1>8

\* What one read answers is between nothing and what is left; without short
\* reads it is all that is left, or a whole buffer.
LEMMA ReadSize ==
  ASSUME NEW left \in Nat, NEW n \in ReadSizes(left)
  PROVE  n \in Nat /\ n <= left /\ (env.shortReads \/ n = left \/ n = BufferSize)
BY AppendAssumption DEF ReadSizes

\* One turn of the copy loop leaves a longer part of the same file.
LEMMA CopyChunkKeeps ==
  ASSUME IInv, SInv, NEW c \in Clients, CopyChunk(c), env' = env PROVE SInv'
<1> USE AppendAssumption DEF IInv, SInv
<1> DEFINE x == content[in[c]]
           y == content[out[c]]
<1>1. pc[c] = "copy"
  BY DEF CopyChunk
<1>2. /\ in[c] \in Inodes /\ out[c] \in Inodes /\ in[c] # out[c]
      /\ in[c] \in closed /\ out[c] \notin closed
  BY <1>1 DEF StreamsFor
<1>3. /\ x \in Seq(Bytes) /\ Len(x) \in Nat /\ Len(x) <= MaxSize
      /\ pos[c] \in Nat /\ pos[c] <= Len(x) /\ y = SubSeq(x, 1, pos[c])
  BY <1>1, <1>2, LenProperties DEF DataInv, CopyFor
<1> PICK n \in ReadSizes(Len(x) - pos[c]) :
      /\ content' = [content EXCEPT ![out[c]] = @ \o SubSeq(x, pos[c] + 1, pos[c] + n)]
      /\ pos' = [pos EXCEPT ![c] = @ + n]
      /\ pc' = [pc EXCEPT ![c] = IF n = BufferSize THEN "copy" ELSE "closeIn"]
  BY DEF CopyChunk
<1> HIDE DEF x, y
<1>4. UNCHANGED <<closed, in, out>>
  BY DEF CopyChunk
<1>5. n \in Nat /\ n <= Len(x) - pos[c] /\ (env.shortReads \/ n = Len(x) - pos[c] \/ n = BufferSize)
  BY <1>3, ReadSize
<1>6. content'[out[c]] = SubSeq(x, 1, pos[c] + n)
  <2>1. content'[out[c]] = y \o SubSeq(x, pos[c] + 1, pos[c] + n)
    BY <1>2 DEF DataInv, y
  <2>2. 1 \in 1..Len(x) + 1 /\ pos[c] \in 1 - 1..Len(x) /\ pos[c] + n \in pos[c]..Len(x)
    BY <1>3, <1>5
  <2> QED
    BY <1>3, <2>1, <2>2, ConcatAdjacentSubSeq
<1>7. \A i \in Inodes : i # out[c] => content'[i] = content[i]
  BY DEF DataInv
<1>8. /\ content'[out[c]] \in Seq(Bytes) /\ Len(content'[out[c]]) <= MaxSize
      /\ pos[c] + n = Len(x) => content'[out[c]] = x
  <2>1. \A i \in 1..pos[c] + n : x[i] \in Bytes
    BY <1>3, <1>5, ElementOfSeq
  <2>2. SubSeq(x, 1, pos[c] + n) \in Seq(Bytes) /\ Len(SubSeq(x, 1, pos[c] + n)) = pos[c] + n
    BY <1>3, <1>5, <2>1, SubSeqProperties
  <2>3. SubSeq(x, 1, Len(x)) = x
    BY <1>3, SubSeqFull
  <2>4. pos[c] + n = Len(x) => content'[out[c]] = x
    BY <1>6, <2>3
  <2>5. pos[c] + n <= MaxSize
    BY <1>3, <1>5
  <2> QED
    BY <1>6, <2>2, <2>4, <2>5
<1>9. DataInv'
  <2>1. DOMAIN content' = Inodes /\ content' \in [Inodes -> Seq(Bytes)]
    BY <1>7, <1>8 DEF DataInv
  <2>2. \A i \in Inodes : Len(content'[i]) <= MaxSize
    BY <1>7, <1>8 DEF DataInv
  <2>3. pos' \in [Clients -> 0..MaxSize]
    BY <1>3, <1>5 DEF DataInv
  <2> QED
    BY <2>1, <2>2, <2>3 DEF DataInv
<1>10. OwnStreams'
  BY <1>4 DEF OwnStreams
<1>11. ASSUME NEW d \in Clients, d # c PROVE StreamsFor(d)' /\ CopyFor(d)'
  <2>1. /\ in[d] # NoInode => in[d] \in closed' /\ content'[in[d]] = content[in[d]]
        /\ out[d] # NoInode => /\ content'[out[d]] = content[out[d]]
                               /\ out[d] \in closed' => out[d] \in closed
    BY <1>2, <1>4, <1>7, <1>11 DEF StreamsFor, OwnStreams
  <2>2. pc'[d] = pc[d] /\ in'[d] = in[d] /\ out'[d] = out[d] /\ pos'[d] = pos[d]
    BY <1>4, <1>11 DEF DataInv
  <2>3. StreamsFor(d) /\ CopyFor(d)
    OBVIOUS
  <2> QED
    BY <2>1, <2>2, <2>3, OthersKept
<1>12. StreamsFor(c)'
  BY <1>1, <1>4 DEF StreamsFor
<1>13. CopyFor(c)'
  <2>1. /\ pc'[c] \in {"copy", "closeIn"} /\ pos'[c] = pos[c] + n
        /\ pc'[c] = "closeIn" => n # BufferSize
        /\ content'[in'[c]] = x /\ out'[c] = out[c]
    BY <1>2, <1>3, <1>4, <1>7 DEF DataInv, x
  <2>2. pos'[c] <= Len(content'[in'[c]]) /\ content'[out'[c]] = SubSeq(content'[in'[c]], 1, pos'[c])
    <3>1. pos[c] + n <= Len(x)
      BY <1>3, <1>5
    <3> QED
      BY <1>6, <2>1, <3>1
  <2>3. pc'[c] = "closeIn" => env.shortReads \/ content'[out'[c]] = content'[in'[c]]
    <3>1. pc'[c] = "closeIn" => env.shortReads \/ pos[c] + n = Len(x)
      BY <1>3, <1>5, <2>1
    <3> QED
      BY <1>8, <2>1, <3>1
  <2>4. pc'[c] \notin {"write", "failed"} \cup Completing
    BY <2>1 DEF Completing
  <2> QED
    BY <2>1, <2>2, <2>3, <2>4 DEF CopyFor
<1> QED
  BY <1>9, <1>10, <1>11, <1>12, <1>13

\* A write of the application adds a byte of its own behind the copy.
LEMMA WriteKeeps ==
  ASSUME IInv, SInv, NEW c \in Clients, Write(c), env' = env PROVE SInv'
<1> USE AppendAssumption DEF IInv, SInv
<1> DEFINE x == content[in[c]]
           y == content[out[c]]
<1>1. /\ pc[c] = "write" /\ Len(y) < MaxSize
      /\ content' = [content EXCEPT ![out[c]] = Append(@, c)]
      /\ UNCHANGED <<closed, pc, in, out, pos>>
  BY DEF Write
<1>2. /\ in[c] \in Inodes /\ out[c] \in Inodes /\ in[c] # out[c]
      /\ in[c] \in closed /\ out[c] \notin closed
  BY <1>1 DEF StreamsFor
<1>3. /\ x \in Seq(Bytes) /\ Len(x) \in Nat /\ y \in Seq(Bytes) /\ Len(y) \in Nat
      /\ content'[out[c]] = Append(y, c)
      /\ \A i \in Inodes : i # out[c] => content'[i] = content[i]
  BY <1>1, <1>2, LenProperties DEF DataInv
<1>4. content'[in[c]] = x
  BY <1>2, <1>3
<1> HIDE DEF x, y
<1>5. /\ Append(y, c) \in Seq(Bytes) /\ Len(Append(y, c)) = Len(y) + 1
      /\ \A k \in 1..Len(y) : Append(y, c)[k] = y[k]
      /\ Append(y, c)[Len(y) + 1] = c
  <2>1. c \in Bytes
    BY DEF Bytes
  <2> QED
    BY <1>3, <2>1, AppendProperties
<1>6. DataInv'
  <2>1. DOMAIN content' = Inodes /\ content' \in [Inodes -> Seq(Bytes)]
    <3>1. content \in [Inodes -> Seq(Bytes)]
      BY DEF DataInv
    <3>2. content' = [i \in Inodes |-> IF i = out[c] THEN content'[out[c]] ELSE content[i]]
      BY <1>1, <1>2, <1>3, <3>1
    <3>3. \A i \in Inodes : (IF i = out[c] THEN content'[out[c]] ELSE content[i]) \in Seq(Bytes)
      BY <1>3, <1>5, <3>1
    <3> QED
      BY <3>2, <3>3
  <2>2. Len(Append(y, c)) <= MaxSize
    BY <1>1, <1>3, <1>5 DEF y
  <2>3. \A i \in Inodes : Len(content'[i]) <= MaxSize
    BY <1>3, <2>2 DEF DataInv
  <2> QED
    BY <1>1, <2>1, <2>3 DEF DataInv
<1>7. OwnStreams'
  BY <1>1 DEF OwnStreams
<1>8. ASSUME NEW d \in Clients, d # c PROVE StreamsFor(d)' /\ CopyFor(d)'
  <2>1. /\ in[d] # NoInode => in[d] \in closed' /\ content'[in[d]] = content[in[d]]
        /\ out[d] # NoInode => /\ content'[out[d]] = content[out[d]]
                               /\ out[d] \in closed' => out[d] \in closed
    BY <1>1, <1>2, <1>3, <1>8 DEF StreamsFor, OwnStreams
  <2>2. pc'[d] = pc[d] /\ in'[d] = in[d] /\ out'[d] = out[d] /\ pos'[d] = pos[d]
    BY <1>1
  <2>3. StreamsFor(d) /\ CopyFor(d)
    OBVIOUS
  <2> QED
    BY <2>1, <2>2, <2>3, OthersKept
<1>9. StreamsFor(c)'
  BY <1>1 DEF StreamsFor
<1>10. CopyFor(c)'
  <2>1. env.shortReads \/ (/\ IsPrefix(x, y)
                           /\ \A k \in DOMAIN y : k > Len(x) => y[k] = c)
    BY <1>1 DEF CopyFor, Extending, x, y
  <2>2. ASSUME IsPrefix(x, y), \A k \in DOMAIN y : k > Len(x) => y[k] = c
        PROVE  /\ IsPrefix(x, Append(y, c))
               /\ \A k \in DOMAIN Append(y, c) : k > Len(x) => Append(y, c)[k] = c
    <3>1. DOMAIN y = 1..Len(y) /\ DOMAIN Append(y, c) = 1..Len(y) + 1
      BY <1>3, <1>5, LenProperties
    <3>2. Len(x) <= Len(y) /\ SubSeq(x, 1, Len(x)) = SubSeq(y, 1, Len(x))
      BY <2>2 DEF IsPrefix
    <3>3. SubSeq(Append(y, c), 1, Len(x)) = SubSeq(y, 1, Len(x))
      <4>1. Len(x) \in 0..Len(y) /\ Len(x) \in 0..Len(Append(y, c))
        BY <1>3, <1>5, <3>2
      <4>2. /\ SubSeq(y, 1, Len(x)) \in Seq(Bytes) /\ Len(SubSeq(y, 1, Len(x))) = Len(x)
            /\ \A i \in 1..Len(x) : SubSeq(y, 1, Len(x))[i] = y[i]
        BY <1>3, <4>1, StartOfSeq
      <4>3. /\ SubSeq(Append(y, c), 1, Len(x)) \in Seq(Bytes)
            /\ Len(SubSeq(Append(y, c), 1, Len(x))) = Len(x)
            /\ \A i \in 1..Len(x) : SubSeq(Append(y, c), 1, Len(x))[i] = Append(y, c)[i]
        BY <1>5, <4>1, StartOfSeq
      <4>4. \A i \in 1..Len(x) : Append(y, c)[i] = y[i]
        BY <1>5, <4>1
      <4> QED
        BY <4>2, <4>3, <4>4, SeqEqual
    <3>4. IsPrefix(x, Append(y, c))
      BY <1>3, <1>5, <3>2, <3>3 DEF IsPrefix
    <3>5. ASSUME NEW k \in 1..Len(y) + 1, k > Len(x) PROVE Append(y, c)[k] = c
      BY <1>3, <1>5, <2>2, <3>1, <3>5
    <3> QED
      BY <3>1, <3>4, <3>5
  <2>3. env.shortReads \/ Extending(c)'
    BY <1>1, <1>3, <1>4, <2>1, <2>2 DEF Extending
  <2> QED
    BY <1>1, <2>3 DEF CopyFor, Completing
<1> QED
  BY <1>6, <1>7, <1>8, <1>9, <1>10

\* An exception ends the call and leaves the data.
LEMMA ThrowKeeps ==
  ASSUME IInv, SInv, NEW c \in Clients, pc[c] \in Opening \cup Completing, Throw(c),
         content' = content, env' = env,
         closed' = closed \/ (closed' = closed \cup {out[c]} /\ pc[c] = "close")
  PROVE  SInv'
<1>1. CASE pc[c] \in Opening
  <2>1. Goto(c, "idle") /\ "idle" \in Labels \ {"createFile", "copy", "closeIn"}
    BY <1>1 DEF Throw, Labels
  <2> QED
    BY <2>1, GotoKeeps DEF Completing
<1>2. CASE pc[c] \in Completing
  <2>1. Goto(c, "failed") /\ "failed" \in Labels \ {"createFile", "copy", "closeIn"}
    BY <1>2 DEF Throw, Labels, Opening, Completing
  <2> QED
    BY <1>2, <2>1, GotoKeeps DEF Completing
<1> QED
  BY <1>1, <1>2

\* Every step keeps what streams and copies hold.
LEMMA StepSInv == ASSUME NoBlindRetry PROVE IInv /\ SInv /\ [Next]_vars => SInv'
<1> SUFFICES ASSUME IInv, SInv, [Next]_vars PROVE SInv'
  OBVIOUS
<1> USE DEF namespace
<1>1. ASSUME NEW c \in Clients, CallStep(c) PROVE SInv'
  <2>1. env' = env
    BY <1>1 DEF CallStep
  <2>2. CASE OpenFile(c) \/ CreateFile(c) \/ CopyChunk(c)
    BY <2>1, <2>2, OpenFileKeeps, CreateFileKeeps, CopyChunkKeeps
  <2>3. CASE CloseIn(c)
    <3>1. /\ pc[c] = "closeIn" /\ Goto(c, "write") /\ content' = content /\ closed' = closed
          /\ "write" \in Labels \ {"createFile", "copy", "closeIn"}
      BY <2>3 DEF CloseIn, Labels
    <3> QED
      BY <2>1, <3>1, GotoKeeps DEF Completing
  <2>4. CASE Close(c) \/ DeletePath(c) \/ RenameFile(c)
    <3>1. /\ pc[c] \in Completing /\ content' = content
          /\ closed' = closed \/ (closed' = closed \cup {out[c]} /\ pc[c] = "close")
          /\ \/ Throw(c)
             \/ \E label \in {"deletePath", "renameFile", "idle"} : Goto(c, label)
      BY <2>4 DEF Close, DeletePath, RenameFile, Served, Completing
    <3>2. CASE Throw(c)
      BY <2>1, <3>1, <3>2, ThrowKeeps
    <3>3. ASSUME NEW label \in {"deletePath", "renameFile", "idle"}, Goto(c, label) PROVE SInv'
      <4>1. label \in Labels \ {"createFile", "copy", "closeIn"}
        BY DEF Labels, Completing
      <4> QED
        BY <2>1, <3>1, <3>3, <4>1, GotoKeeps DEF Completing
    <3> QED
      BY <3>1, <3>2, <3>3
  <2>5. CASE CallFails(c)
    BY <2>1, <2>5, ThrowKeeps DEF CallFails
  <2> QED
    BY <1>1, <2>2, <2>3, <2>4, <2>5 DEF CallStep
<1>2. ASSUME NEW c \in Clients, ApplicationStep(c) PROVE SInv'
  <2>1. env' = env
    BY <1>2 DEF ApplicationStep
  <2>2. CASE Write(c)
    BY <2>1, <2>2, WriteKeeps
  <2>3. CASE StartAppend(c)
    <3>1. /\ pc[c] = "idle" /\ Goto(c, "openFile") /\ content' = content /\ closed' = closed
          /\ "openFile" \in Labels \ {"createFile", "copy", "closeIn"}
      BY <2>3 DEF StartAppend, Labels, Opening
    <3> QED
      BY <2>1, <3>1, GotoKeeps DEF Completing
  <2>4. CASE CompleteAppend(c)
    <3>1. /\ pc[c] \in {"write", "failed"} /\ Goto(c, "close") /\ content' = content /\ closed' = closed
          /\ "close" \in Labels \ {"createFile", "copy", "closeIn"}
      BY <2>4 DEF CompleteAppend, Labels, Completing
    <3> QED
      BY <2>1, <3>1, GotoKeeps DEF Completing
  <2>5. CASE Stop(c)
    <3>1. /\ Goto(c, "idle") /\ content' = content /\ closed' = closed
          /\ "idle" \in Labels \ {"createFile", "copy", "closeIn"}
      BY <2>5 DEF Stop, Labels
    <3> QED
      BY <2>1, <3>1, GotoKeeps DEF Completing
  <2> QED
    BY <1>2, <2>2, <2>3, <2>4, <2>5 DEF ApplicationStep
<1>3. CASE UNCHANGED vars
  BY <1>3 DEF vars, SInv, DataInv, OwnStreams, StreamsFor, CopyFor, Extending
<1> QED
  BY <1>1, <1>2, <1>3 DEF Next

\* What a client has read is a part of the file, and its copy is what it has read.
THEOREM DataInvariant == ASSUME NoBlindRetry PROVE Spec => [](IInv /\ SInv)
<1>1. Init => IInv /\ SInv
  BY InitInv, DataInit
<1>2. (IInv /\ SInv) /\ [Next]_vars => (IInv /\ SInv)'
  BY StepInv, StepSInv
<1> QED
  BY <1>1, <1>2, PTL DEF Spec

\* Files and positions stay within the bound on the application's writes.
THEOREM TypeCorrect == ASSUME NoBlindRetry PROVE Spec => []TypeOK
<1>1. IInv /\ SInv => TypeOK
  BY AppendAssumption DEF TypeOK, IInv, SInv, DataInv
<1> QED
  BY <1>1, DataInvariant, PTL

-------------------------------------------------------------------------------
(* The refinement of AppendSpec *)

NoShortReads == \A e \in Environments : ~e.shortReads

\* The abstract steps that leave the file as it is: all but Replace.
FileStays == \E c \in Clients : Abstract!Open(c) \/ Abstract!Forget(c) \/ Abstract!Publish(c)

\* The append of client c is not over, as `seen' says it.
Pending(c) == out[c] \in closed => appendPath = out[c]

\* A client whose append is as pending as before sees the same file.
LEMMA SeesTheSame ==
  ASSUME NEW d \in Clients, in'[d] = in[d], Pending(d)' <=> Pending(d),
         in[d] # NoInode => content'[in[d]] = content[in[d]]
  PROVE  seen'[d] = seen[d]
BY DEF seen, Pending

\* A step after which each client but c sees what it saw.
LEMMA SeenExcept ==
  ASSUME NEW c \in Clients, \A d \in Clients \ {c} : seen'[d] = seen[d]
  PROVE  /\ seen' = [seen EXCEPT ![c] = seen'[c]]
         /\ seen'[c] = seen[c] => seen' = seen
<1>1. seen = [d \in Clients |-> seen[d]] /\ seen' = [d \in Clients |-> seen'[d]]
  BY DEF seen
<1> QED
  BY <1>1

\* The step of a client that goes elsewhere: it forgets the file, or nothing changes.
LEMMA GotoRefines ==
  ASSUME NEW c \in Clients, NEW label, Goto(c, label), UNCHANGED namespace,
         IInv, SInv
  PROVE  [FileStays]_(Abstract!vars)
<1>1. UNCHANGED <<file, path # NoInode>>
  BY DEF namespace, file
<1>2. \A d \in Clients \ {c} : seen'[d] = seen[d]
  <2> SUFFICES ASSUME NEW d \in Clients \ {c} PROVE seen'[d] = seen[d]
    OBVIOUS
  <2>1. in'[d] = in[d] /\ out'[d] = out[d]
    BY DEF Goto, IInv
  <2> QED
    BY <2>1, SeesTheSame DEF namespace, Pending
<1>3. CASE label = "idle"
  <2>1. in'[c] = NoInode
    BY <1>3 DEF Goto, IInv
  <2>2. seen'[c] = Nothing
    BY <2>1 DEF seen
  <2> QED
    BY <1>1, <1>2, <2>2, SeenExcept DEF FileStays, Abstract!Forget
<1>4. CASE label # "idle"
  <2>1. seen' = seen
    BY <1>4 DEF Goto, namespace, seen
  <2> QED
    BY <1>1, <2>1 DEF Abstract!vars
<1> QED
  BY <1>3, <1>4

\* A step that writes an inode that is not complete changes nothing to be seen.
LEMMA WritingRefines ==
  ASSUME IInv, SInv, NEW i \in Inodes, i \notin closed,
         \A j \in Inodes \ {i} : content'[j] = content[j],
         UNCHANGED <<path, appendPath, closed, in, out>>
  PROVE  UNCHANGED Abstract!vars
<1>1. file' = file
  <2>1. (IF path # NoInode THEN path ELSE appendPath) \in closed
    BY AppendAssumption DEF IInv, CompleteFileKept
  <2>2. closed \subseteq Inodes
    BY DEF IInv
  <2> QED
    BY <2>1, <2>2 DEF file
<1>2. ASSUME NEW d \in Clients PROVE seen'[d] = seen[d]
  <2>1. in[d] # NoInode => in[d] \in closed /\ closed \subseteq Inodes
    BY DEF SInv, StreamsFor, IInv
  <2> QED
    BY <2>1, SeesTheSame DEF Pending
<1>3. seen' = seen
  BY <1>2 DEF seen
<1> QED
  BY <1>1, <1>3 DEF Abstract!vars

\* The creation of <path>.append cannot be seen; if its answer is lost, the append is over.
LEMMA CreateFileRefines ==
  ASSUME IInv, SInv, NEW c \in Clients, CreateFile(c)
  PROVE  [FileStays]_(Abstract!vars)
<1> USE AppendAssumption
<1> PICK i \in Inodes :
      /\ Fresh(i)
      /\ appendPath' = i
      /\ content' = [content EXCEPT ![i] = <<>>]
      /\ closed' = closed \ {i}
      /\ \/ /\ pc' = [pc EXCEPT ![c] = "copy"]
            /\ out' = [out EXCEPT ![c] = i]
            /\ UNCHANGED <<in, pos>>
         \/ env.lostReplies /\ Throw(c)
  BY DEF CreateFile
<1>1. /\ pc[c] = "createFile" /\ appendPath = NoInode /\ path' = path
      /\ path \in closed /\ path # NoInode /\ path # i
      /\ \A d \in Clients : in[d] # i /\ out[d] # i
  BY DEF CreateFile, Fresh, IInv, CompleteFileKept
<1>2. \A j \in Inodes \ {i} : content'[j] = content[j]
  BY DEF SInv, DataInv
<1>3. UNCHANGED <<file, path # NoInode>>
  BY <1>1, <1>2 DEF file, IInv
<1>4. \A d \in Clients \ {c} : seen'[d] = seen[d]
  <2> SUFFICES ASSUME NEW d \in Clients \ {c} PROVE seen'[d] = seen[d]
    OBVIOUS
  <2>1. in'[d] = in[d] /\ out'[d] = out[d]
    BY DEF Throw, Goto, IInv
  <2>2. in[d] # NoInode => content'[in[d]] = content[in[d]]
    BY <1>1, <1>2 DEF IInv
  <2>3. Pending(d)' <=> Pending(d)
    BY <1>1, <2>1 DEF Pending, IInv
  <2> QED
    BY <2>1, <2>2, <2>3, SeesTheSame
<1>5. CASE pc' = [pc EXCEPT ![c] = "copy"] /\ out' = [out EXCEPT ![c] = i] /\ UNCHANGED <<in, pos>>
  <2>1. out[c] = NoInode /\ in'[c] = in[c] /\ out'[c] = i
    BY <1>1, <1>5 DEF SInv, StreamsFor, IInv
  <2>2. Pending(c)' <=> Pending(c)
    BY <2>1 DEF Pending, IInv
  <2>3. in[c] # NoInode => content'[in[c]] = content[in[c]]
    BY <1>1, <1>2 DEF IInv
  <2>4. seen'[c] = seen[c]
    BY <2>1, <2>2, <2>3, SeesTheSame
  <2>5. seen' = seen
    BY <1>4, <2>4, SeenExcept
  <2> QED
    BY <1>3, <2>5 DEF Abstract!vars
<1>6. CASE Throw(c)
  <2>1. in'[c] = NoInode
    BY <1>1, <1>6 DEF Throw, Goto, Opening, IInv
  <2>2. seen'[c] = Nothing
    BY <2>1 DEF seen
  <2> QED
    BY <1>3, <1>4, <2>2, SeenExcept DEF FileStays, Abstract!Forget
<1> QED
  BY <1>5, <1>6

\* DeletePath takes the file out of sight, and leaves under <path>.append what
\* the client saw, with its own data behind.
LEMMA DeletePathRefines ==
  ASSUME NoShortReads, IInv, SInv, NEW c \in Clients, DeletePath(c)
  PROVE  [Abstract!Next]_(Abstract!vars)
<1> USE AppendAssumption
<1>1. /\ pc[c] = "deletePath" /\ path # NoInode /\ path' = NoInode
      /\ UNCHANGED <<appendPath, content, closed, in, out>>
  BY DEF DeletePath, Served, Throw, Goto, Opening
<1>2. /\ out[c] \in closed /\ appendPath = out[c] /\ in[c] # NoInode /\ in[c] \in Inodes
  BY <1>1 DEF IInv, AppendPathOwned, CompletingInv, Owning, Completing, SInv, StreamsFor
<1>3. seen' = seen /\ seen[c] = content[in[c]]
  BY <1>1, <1>2 DEF seen
<1>4. content[in[c]] # Nothing
  BY <1>2 DEF SInv, DataInv
<1>5. file' = content[out[c]]
  BY <1>1, <1>2 DEF file
<1>6. Extending(c)
  BY <1>1 DEF NoShortReads, IInv, SInv, CopyFor, Completing
<1>7. Abstract!Replace(c)
  BY <1>1, <1>3, <1>4, <1>5, <1>6
  DEF Extending, Abstract!Replace, Abstract!IsPrefix, IsPrefix
<1> QED
  BY <1>7 DEF Abstract!Next

\* RenameFile puts the file back in sight; the append of its client is over.
LEMMA RenameFileRefines ==
  ASSUME IInv, SInv, NEW c \in Clients, RenameFile(c)
  PROVE  [FileStays]_(Abstract!vars)
<1> USE AppendAssumption
<1>1. /\ pc[c] = "renameFile" /\ path = NoInode /\ path' = appendPath /\ appendPath # NoInode
      /\ appendPath' = NoInode /\ UNCHANGED <<content, closed>>
  BY DEF RenameFile
<1>2. out[c] \in closed /\ appendPath = out[c]
  BY <1>1 DEF IInv, AppendPathOwned, CompletingInv, Owning, Completing
<1>3. file' = file
  BY <1>1 DEF file
<1>4. \A d \in Clients : d # c => in'[d] = in[d] /\ out'[d] = out[d]
  BY DEF RenameFile, Served, Throw, Goto, IInv
<1>5. \A d \in Clients \ {c} : seen'[d] = seen[d]
  <2> SUFFICES ASSUME NEW d \in Clients \ {c} PROVE seen'[d] = seen[d]
    OBVIOUS
  <2>1. out[d] # out[c] /\ (out[d] \in closed => out[d] # NoInode)
    BY <1>1, <1>2 DEF SInv, OwnStreams, IInv
  <2>2. Pending(d)' <=> Pending(d)
    BY <1>1, <1>2, <1>4, <2>1 DEF Pending
  <2> QED
    BY <1>1, <1>4, <2>2, SeesTheSame
<1>6. seen'[c] = Nothing
  <2>1. in'[c] = NoInode \/ out'[c] = out[c]
    BY DEF RenameFile, Served, Throw, Goto, IInv
  <2>2. in'[c] = NoInode \/ ~Pending(c)'
    BY <1>1, <1>2, <2>1 DEF Pending
  <2> QED
    BY <2>2 DEF seen, Pending
<1>7. Abstract!Publish(c)
  BY <1>1, <1>3, <1>5, <1>6, SeenExcept DEF Abstract!Publish
<1> QED
  BY <1>7 DEF FileStays

\* Every step but deletePath leaves the file, wherever it is.
LEMMA OtherStepRefines ==
  ASSUME IInv, SInv, NEW c \in Clients, CallStep(c) \/ ApplicationStep(c), ~DeletePath(c)
  PROVE  [FileStays]_(Abstract!vars)
<1> USE AppendAssumption
<1>1. CASE StartAppend(c) \/ CloseIn(c) \/ CompleteAppend(c) \/ CallFails(c) \/ Stop(c)
  <2>1. UNCHANGED namespace /\ \E label \in Labels : Goto(c, label)
    BY <1>1 DEF StartAppend, CloseIn, CompleteAppend, CallFails, Stop, Throw, Labels, Opening, Completing
  <2> QED
    BY <2>1, GotoRefines
<1>2. CASE OpenFile(c)
  <2>1. /\ path \in closed /\ path # NoInode /\ UNCHANGED <<path, appendPath, content, closed, out>>
        /\ in' = [in EXCEPT ![c] = path] /\ out[c] = NoInode
    BY <1>2 DEF OpenFile, namespace, IInv, SInv, StreamsFor
  <2>2. file' = file /\ file = content[path]
    BY <2>1 DEF file
  <2>3. \A d \in Clients \ {c} : seen'[d] = seen[d]
    BY <2>1 DEF seen, IInv
  <2>4. seen'[c] = content[path]
    BY <2>1 DEF seen, IInv
  <2>5. Abstract!Open(c)
    BY <2>1, <2>2, <2>3, <2>4, SeenExcept DEF Abstract!Open
  <2> QED
    BY <2>5 DEF FileStays
<1>3. CASE CreateFile(c)
  BY <1>3, CreateFileRefines
<1>4. CASE CopyChunk(c) \/ Write(c)
  <2>1. /\ out[c] \in Inodes /\ out[c] \notin closed
    BY <1>4 DEF CopyChunk, Write, IInv, SInv, StreamsFor
  <2>2. \A j \in Inodes \ {out[c]} : content'[j] = content[j]
    BY <1>4 DEF CopyChunk, Write, SInv, DataInv
  <2>3. UNCHANGED <<path, appendPath, closed, in, out>>
    BY <1>4 DEF CopyChunk, Write
  <2> QED
    BY <2>1, <2>2, <2>3, WritingRefines
<1>5. CASE Close(c)
  <2>1. /\ pc[c] = "close" /\ closed' = closed \cup {out[c]}
        /\ UNCHANGED <<path, appendPath, content, in, out>> /\ appendPath = out[c]
    BY <1>5 DEF Close, Served, Throw, Goto, Opening, IInv, AppendPathOwned, Owning, Completing
  <2>2. ASSUME NEW d \in Clients PROVE seen'[d] = seen[d]
    <3>1. Pending(d)' <=> Pending(d)
      BY <2>1 DEF Pending
    <3> QED
      BY <2>1, <3>1, SeesTheSame
  <2>3. seen' = seen
    BY <2>2 DEF seen
  <2>4. file' = file
    BY <2>1 DEF file
  <2> QED
    BY <2>1, <2>3, <2>4 DEF Abstract!vars
<1>6. CASE RenameFile(c)
  BY <1>6, RenameFileRefines
<1> QED
  BY <1>1, <1>2, <1>3, <1>4, <1>5, <1>6 DEF CallStep, ApplicationStep

\* Every step is one of the abstract specification, or a stutter.
LEMMA StepRefines ==
  ASSUME NoShortReads PROVE IInv /\ SInv /\ [Next]_vars => [Abstract!Next]_(Abstract!vars)
<1> SUFFICES ASSUME IInv, SInv, [Next]_vars PROVE [Abstract!Next]_(Abstract!vars)
  OBVIOUS
<1>1. ASSUME NEW c \in Clients, CallStep(c) \/ ApplicationStep(c)
      PROVE  [Abstract!Next]_(Abstract!vars)
  <2>1. CASE DeletePath(c)
    BY <2>1, DeletePathRefines
  <2>2. CASE ~DeletePath(c)
    BY <1>1, <2>2, OtherStepRefines DEF FileStays, Abstract!Next
  <2> QED
    BY <2>1, <2>2
<1>2. CASE UNCHANGED vars
  BY <1>2 DEF vars, namespace, Abstract!vars, file, seen
<1> QED
  BY <1>1, <1>2 DEF Next

\* The appends of any number of clients are snapshots with own data behind, as
\* long as a read answers all it can.
THEOREM AppendsAreSnapshots ==
  ASSUME NoBlindRetry, NoShortReads PROVE Spec => SnapshotAppend
<1>1. Init => Abstract!Init
  BY AppendAssumption DEF Init, Abstract!Init, seen
<1> QED
  BY <1>1, StepRefines, DataInvariant, PTL DEF Spec, SnapshotAppend, Abstract!Spec

-------------------------------------------------------------------------------
(* One client at a time *)

OneClient == \A c, d \in Clients : c = d

\* A lone client reads the file under its path, which can only be its own copy
\* once it has renamed that.
ReadsPath == \A c \in Clients : in[c] # NoInode /\ path # NoInode => path \in {in[c], out[c]}

\* No other client can put another file under the path.
LEMMA ReadsPathKept ==
  ASSUME OneClient, NoBlindRetry PROVE IInv /\ SInv /\ ReadsPath /\ [Next]_vars => ReadsPath'
<1> SUFFICES ASSUME IInv, SInv, ReadsPath, [Next]_vars PROVE ReadsPath'
  OBVIOUS
<1> USE AppendAssumption DEF IInv, ReadsPath, namespace, OneClient
<1>1. ASSUME NEW c \in Clients, CallStep(c) \/ ApplicationStep(c) PROVE ReadsPath'
  <2>1. CASE OpenFile(c)
    BY <2>1 DEF OpenFile
  <2>2. CASE CreateFile(c)
    <3>1. out[c] = NoInode /\ path \in Inodes
      BY <2>2 DEF CreateFile, SInv, StreamsFor, CompleteFileKept
    <3>2. path' = path /\ in'[c] \in {in[c], NoInode}
      BY <2>2 DEF CreateFile, Throw, Goto, Opening
    <3>3. in[c] # NoInode => path = in[c]
      BY <3>1
    <3> QED
      BY <3>2, <3>3
  <2>3. CASE CopyChunk(c) \/ Write(c)
    BY <2>3 DEF CopyChunk, Write
  <2>4. CASE StartAppend(c) \/ CloseIn(c) \/ CompleteAppend(c) \/ CallFails(c) \/ Stop(c) \/ Close(c)
    <3>1. path' = path /\ (in'[c] = NoInode \/ (in'[c] = in[c] /\ out'[c] = out[c]))
      BY <2>4 DEF StartAppend, CloseIn, CompleteAppend, CallFails, Stop, Close, Served, Throw, Goto
    <3> QED
      BY <3>1
  <2>5. CASE DeletePath(c)
    BY <2>5 DEF DeletePath
  <2>6. CASE RenameFile(c)
    <3>1. path' = out[c] /\ (in'[c] = NoInode \/ (in'[c] = in[c] /\ out'[c] = out[c]))
      BY <2>6 DEF RenameFile, Served, Throw, Goto, AppendPathOwned, Owning, Completing
    <3> QED
      BY <3>1
  <2> QED
    BY <1>1, <2>1, <2>2, <2>3, <2>4, <2>5, <2>6 DEF CallStep, ApplicationStep
<1>2. CASE UNCHANGED vars
  BY <1>2 DEF vars
<1> QED
  BY <1>1, <1>2 DEF Next

\* Nothing that was in the file is ever lost by a client alone.
THEOREM NoByteIsLost == ASSUME OneClient, NoBlindRetry PROVE Spec => BytesKept
<1>1. Init => ReadsPath
  BY DEF Init, ReadsPath
<1>2. IInv /\ SInv /\ ReadsPath /\ [Next]_vars => [env.shortReads \/ IsPrefix(file, file')]_vars
  <2> SUFFICES ASSUME IInv, SInv, ReadsPath, NEW c \in Clients, CallStep(c) \/ ApplicationStep(c),
                      ~env.shortReads
               PROVE  IsPrefix(file, file')
    BY DEF Next, vars
  <2>1. file \in Seq(Bytes)
    BY AppendAssumption DEF file, IInv, CompleteFileKept, SInv, DataInv
  <2>2. CASE file' = file
    <3>1. Len(file) \in Nat
      BY <2>1, LenProperties
    <3> QED
      BY <2>2, <3>1 DEF IsPrefix
  <2>3. CASE DeletePath(c)
    <3>1. /\ pc[c] = "deletePath" /\ path # NoInode /\ path' = NoInode
          /\ UNCHANGED <<appendPath, content>>
      BY <2>3 DEF DeletePath
    <3>2. /\ out[c] \in closed /\ appendPath = out[c] /\ in[c] # NoInode
      BY <3>1 DEF IInv, AppendPathOwned, CompletingInv, Owning, Completing, SInv, StreamsFor
    <3>3. path = in[c]
      BY <3>1, <3>2 DEF ReadsPath, IInv, NamespaceInv
    <3>4. file = content[in[c]] /\ file' = content[out[c]]
      BY <3>1, <3>2, <3>3 DEF file
    <3>5. Extending(c)
      BY <3>1 DEF SInv, CopyFor, Completing
    <3> QED
      BY <3>4, <3>5 DEF Extending
  <2>4. CASE ~DeletePath(c)
    <3>1. [FileStays]_(Abstract!vars)
      BY <2>4, OtherStepRefines
    <3>2. file' = file
      BY <3>1 DEF FileStays, Abstract!vars, Abstract!Open, Abstract!Forget, Abstract!Publish
    <3> QED
      BY <2>2, <3>2
  <2> QED
    BY <2>3, <2>4
<1> QED
  BY <1>1, <1>2, ReadsPathKept, DataInvariant, PTL DEF Spec, BytesKept

-------------------------------------------------------------------------------
(* How long a call is *)

\* The steps a client's call still takes: the turns of the copy loop are as many as
\* the bytes left to read at most, for a turn that reads none is the last.
Left(c) ==
  CASE pc[c] = "openFile" -> MaxSize + 4
    [] pc[c] = "createFile" -> Len(content[in[c]]) + 3
    [] pc[c] = "copy" -> Len(content[in[c]]) - pos[c] + 2
    [] pc[c] = "close" -> 3
    [] pc[c] = "deletePath" -> 2
    [] pc[c] \in {"closeIn", "renameFile"} -> 1
    [] OTHER -> 0
LeftInv ==
  \A c \in Clients : Left(c) \in 0..MaxSize + 4 /\ (Left(c) > 0 <=> pc[c] \in Opening \cup Completing)

\* Whatever the clients do, a call comes nearer to its end by a step of its own
\* client, or is left where it is: nobody else can lengthen the file it reads.
CallGoesOn ==
  [][\A c \in Clients :
       pc[c] \in Opening \cup Completing =>
         \/ (CallStep(c) \/ ApplicationStep(c)) /\ Left(c)' < Left(c)
         \/ pc'[c] = pc[c] /\ Left(c)' = Left(c)]_vars

\* The file a client reads, and how much of it it has read.
LEMMA Reading ==
  ASSUME IInv, SInv, NEW c \in Clients, pc[c] \in {"createFile", "copy"}
  PROVE  /\ in[c] \in Inodes /\ in[c] \in closed
         /\ Len(content[in[c]]) \in 0..MaxSize
         /\ pos[c] \in 0..Len(content[in[c]])
         /\ pc[c] = "createFile" => pos[c] = 0
<1> USE AppendAssumption DEF IInv, SInv
<1>1. in[c] \in Inodes /\ in[c] \in closed /\ pos[c] \in Nat
  <2>1. StreamsFor(c) /\ pos \in [Clients -> 0..MaxSize] /\ closed \subseteq Inodes
    BY DEF DataInv
  <2>2. in[c] \in closed
    BY <2>1 DEF StreamsFor
  <2> QED
    BY <2>1, <2>2
<1>2. Len(content[in[c]]) \in Nat /\ Len(content[in[c]]) <= MaxSize
  BY <1>1, LenProperties DEF DataInv
<1>3. pc[c] = "createFile" => pos[c] = 0
  BY DEF StreamsFor
<1>4. pc[c] = "copy" => pos[c] <= Len(content[in[c]])
  BY DEF CopyFor
<1> QED
  BY <1>1, <1>2, <1>3, <1>4

LEMMA LeftIsNat == IInv /\ SInv => LeftInv
<1> SUFFICES ASSUME IInv, SInv, NEW c \in Clients
             PROVE  Left(c) \in 0..MaxSize + 4 /\ (Left(c) > 0 <=> pc[c] \in Opening \cup Completing)
  BY DEF LeftInv
<1>1. MaxSize \in Nat
  BY AppendAssumption
<1>2. CASE pc[c] \in {"createFile", "copy"}
  <2> DEFINE n == Len(content[in[c]])
  <2>1. n \in 0..MaxSize /\ pos[c] \in 0..n
    BY <1>2, Reading
  <2>2. Left(c) = IF pc[c] = "createFile" THEN n + 3 ELSE n - pos[c] + 2
    BY <1>2 DEF Left
  <2> HIDE DEF n
  <2> QED
    BY <1>1, <1>2, <2>1, <2>2 DEF Opening
<1>3. CASE pc[c] \notin {"createFile", "copy"}
  BY <1>1, <1>3 DEF Left, Opening, Completing
<1> QED
  BY <1>2, <1>3

\* A step of a call is a step nearer to its end.
LEMMA CallStepNearer ==
  ASSUME IInv, SInv, NEW c \in Clients, CallStep(c) PROVE Left(c)' < Left(c)
<1> DEFINE x == content[in[c]]
<1>1. /\ MaxSize \in Nat /\ pc \in [Clients -> Labels]
      /\ in \in [Clients -> Inodes \cup {NoInode}] /\ DOMAIN content = Inodes
      /\ pos \in [Clients -> 0..MaxSize]
  BY AppendAssumption DEF IInv, SInv, DataInv
<1>2. pc[c] \in {"createFile", "copy"} =>
        /\ in[c] \in Inodes /\ in[c] \in closed /\ Len(x) \in 0..MaxSize /\ pos[c] \in 0..Len(x)
        /\ pc[c] = "createFile" => pos[c] = 0
  BY Reading
<1>3. LeftInv
  BY LeftIsNat
<1>4. ASSUME Throw(c), pc[c] \in Opening \cup Completing PROVE Left(c)' < Left(c)
  <2>1. pc'[c] \in {"idle", "failed"}
    BY <1>1, <1>4 DEF Throw, Goto
  <2>2. Left(c)' = 0
    BY <2>1 DEF Left
  <2> QED
    BY <1>1, <1>3, <1>4, <2>2 DEF LeftInv
<1>5. CASE OpenFile(c)
  <2>1. /\ pc[c] = "openFile" /\ pc'[c] = "createFile" /\ content' = content
        /\ in'[c] = path /\ path \in Inodes
    BY <1>1, <1>5, AppendAssumption DEF OpenFile, namespace, IInv
  <2>2. Len(content[path]) \in Nat /\ Len(content[path]) <= MaxSize
    BY <2>1, LenProperties DEF SInv, DataInv
  <2>3. Left(c) = MaxSize + 4 /\ Left(c)' = Len(content[path]) + 3
    BY <2>1 DEF Left
  <2> QED
    BY <1>1, <2>2, <2>3
<1>6. CASE CreateFile(c)
  <2>1. CASE Throw(c)
    BY <1>4, <1>6, <2>1 DEF CreateFile, Opening
  <2>2. CASE ~Throw(c)
    <3>1. PICK i \in Inodes : Fresh(i) /\ content' = [content EXCEPT ![i] = <<>>]
      BY <1>6 DEF CreateFile
    <3>2. /\ pc[c] = "createFile" /\ pc'[c] = "copy" /\ in' = in /\ pos' = pos
      BY <1>1, <1>6, <2>2 DEF CreateFile
    <3>3. content'[in'[c]] = x
      BY <1>1, <1>2, <3>1, <3>2 DEF Fresh
    <3>4. Left(c) = Len(x) + 3 /\ Left(c)' = Len(x) - pos[c] + 2
      BY <3>2, <3>3 DEF Left
    <3> QED
      BY <1>2, <3>2, <3>4
  <2> QED
    BY <2>1, <2>2
<1>7. CASE CopyChunk(c)
  <2>1. pc[c] = "copy" /\ in' = in
    BY <1>7 DEF CopyChunk
  <2>2. in[c] # out[c]
    BY <1>2, <2>1 DEF SInv, StreamsFor
  <2>3. PICK n \in ReadSizes(Len(x) - pos[c]) :
          /\ content' = [content EXCEPT ![out[c]] = @ \o SubSeq(x, pos[c] + 1, pos[c] + n)]
          /\ pos' = [pos EXCEPT ![c] = @ + n]
          /\ pc' = [pc EXCEPT ![c] = IF n = BufferSize THEN "copy" ELSE "closeIn"]
    BY <1>7 DEF CopyChunk
  <2>4. content'[in'[c]] = x
    BY <1>1, <1>2, <2>1, <2>2, <2>3
  <2>5. n \in Nat /\ pos'[c] = pos[c] + n /\ Left(c) = Len(x) - pos[c] + 2
    <3>1. n \in Nat
      BY <1>2, <2>1, <2>3, ReadSize
    <3> QED
      BY <1>1, <2>1, <2>3, <3>1 DEF Left
  <2>6. CASE n = BufferSize
    <3>1. pc'[c] = "copy" /\ n > 0
      BY <1>1, <2>3, <2>6, AppendAssumption
    <3>2. Left(c)' = Len(x) - pos'[c] + 2
      BY <2>4, <3>1 DEF Left
    <3> QED
      BY <1>2, <2>1, <2>5, <3>1, <3>2
  <2>7. CASE n # BufferSize
    <3>1. pc'[c] = "closeIn"
      BY <1>1, <2>3, <2>7
    <3>2. Left(c)' = 1
      BY <3>1 DEF Left
    <3> QED
      BY <1>2, <2>1, <2>5, <3>2
  <2> QED
    BY <2>6, <2>7
<1>8. CASE (CloseIn(c) \/ Close(c) \/ DeletePath(c) \/ RenameFile(c)) /\ ~Throw(c)
  <2>1. \/ pc[c] = "closeIn" /\ pc'[c] = "write"
        \/ pc[c] = "close" /\ pc'[c] = "deletePath"
        \/ pc[c] = "deletePath" /\ pc'[c] = "renameFile"
        \/ pc[c] = "renameFile" /\ pc'[c] = "idle"
    BY <1>1, <1>8 DEF CloseIn, Close, DeletePath, RenameFile, Served, Goto
  <2> QED
    BY <2>1 DEF Left
<1>9. CASE (CloseIn(c) \/ Close(c) \/ DeletePath(c) \/ RenameFile(c) \/ CallFails(c)) /\ Throw(c)
  <2>1. pc[c] \in Opening \cup Completing
    BY <1>9 DEF CloseIn, Close, DeletePath, RenameFile, CallFails, Opening, Completing
  <2> QED
    BY <1>4, <1>9, <2>1
<1>10. CallFails(c) => Throw(c)
  BY DEF CallFails
<1> QED
  BY <1>5, <1>6, <1>7, <1>8, <1>9, <1>10 DEF CallStep

\* A step of one client leaves the calls of the others where they are.
LEMMA OthersWait ==
  ASSUME IInv, SInv, NEW c \in Clients, NEW d \in Clients, d # c,
         CallStep(d) \/ ApplicationStep(d)
  PROVE  pc'[c] = pc[c] /\ Left(c)' = Left(c)
<1>1. /\ pc \in [Clients -> Labels] /\ pos \in [Clients -> 0..MaxSize]
      /\ in \in [Clients -> Inodes \cup {NoInode}] /\ DOMAIN content = Inodes
  BY DEF IInv, SInv, DataInv
<1>2. pc'[c] = pc[c] /\ in'[c] = in[c] /\ pos'[c] = pos[c]
  BY <1>1 DEF CallStep, OpenFile, CreateFile, CopyChunk, CloseIn, Close, DeletePath, RenameFile,
              CallFails, ApplicationStep, StartAppend, Write, CompleteAppend, Stop, Served, Throw, Goto
<1>3. pc[c] \in {"createFile", "copy"} => content'[in[c]] = content[in[c]]
  <2> SUFFICES ASSUME pc[c] \in {"createFile", "copy"} PROVE content'[in[c]] = content[in[c]]
    OBVIOUS
  <2>1. in[c] \in Inodes /\ in[c] \in closed
    BY Reading
  <2>2. CASE CreateFile(d)
    <3>1. PICK i \in Inodes : Fresh(i) /\ content' = [content EXCEPT ![i] = <<>>]
      BY <2>2 DEF CreateFile
    <3> QED
      BY <1>1, <2>1, <3>1 DEF Fresh
  <2>3. CASE CopyChunk(d) \/ Write(d)
    <3>1. pc[d] \in {"copy", "write"} /\ \A i \in Inodes : i # out[d] => content'[i] = content[i]
      BY <1>1, <2>3 DEF CopyChunk, Write
    <3>2. out[d] \notin closed
      BY <3>1 DEF SInv, StreamsFor
    <3> QED
      BY <2>1, <3>1, <3>2
  <2>4. CASE ~CreateFile(d) /\ ~CopyChunk(d) /\ ~Write(d)
    <3>1. content' = content
      BY <2>4 DEF CallStep, OpenFile, CloseIn, Close, DeletePath, RenameFile, CallFails,
                  ApplicationStep, StartAppend, CompleteAppend, Stop, namespace
    <3> QED
      BY <3>1
  <2> QED
    BY <2>2, <2>3, <2>4
<1> QED
  BY <1>2, <1>3 DEF Left

\* openFileForAppend (Alluxio.cc:567) and completeAppend (Alluxio.cc:619) end after
\* as many steps as the file has bytes, and four more, for any number of clients:
\* this is what CallsReturn rests on, without the fairness.
THEOREM CallsAreBounded == ASSUME NoBlindRetry PROVE Spec => []LeftInv /\ CallGoesOn
<1>1. IInv /\ SInv => LeftInv
  BY LeftIsNat
<1>2. ASSUME IInv, SInv, NEW c \in Clients, pc[c] \in Opening \cup Completing,
             NEW d \in Clients, CallStep(d) \/ ApplicationStep(d)
      PROVE  \/ (CallStep(c) \/ ApplicationStep(c)) /\ Left(c)' < Left(c)
             \/ pc'[c] = pc[c] /\ Left(c)' = Left(c)
  <2>1. CASE d # c
    BY <1>2, <2>1, OthersWait
  <2>2. CASE d = c /\ CallStep(c)
    BY <1>2, <2>2, CallStepNearer
  <2>3. CASE d = c /\ ApplicationStep(c)
    <3>1. Stop(c)
      BY <1>2, <2>3 DEF ApplicationStep, StartAppend, Write, CompleteAppend, Opening, Completing
    <3>2. pc'[c] = "idle"
      BY <1>2, <3>1 DEF Stop, Goto, IInv
    <3>3. Left(c)' = 0
      BY <3>2 DEF Left
    <3> QED
      BY <1>1, <1>2, <2>3, <3>3, AppendAssumption DEF LeftInv
  <2> QED
    BY <1>2, <2>1, <2>2, <2>3
<1>3. (IInv /\ SInv) /\ [Next]_vars =>
        [\A c \in Clients :
           pc[c] \in Opening \cup Completing =>
             \/ (CallStep(c) \/ ApplicationStep(c)) /\ Left(c)' < Left(c)
             \/ pc'[c] = pc[c] /\ Left(c)' = Left(c)]_vars
  BY <1>2 DEF Next
<1> QED
  BY <1>1, <1>3, DataInvariant, PTL DEF Spec, CallGoesOn
===============================================================================
