-------------------------------- MODULE Streams --------------------------------
(***************************************************************************)
(* InStream and OutStream: a buffer of the application crosses into a Java *)
(* byte array and back, with the length, the offset and the maximal length *)
(* of the call. The Java streams are Alluxio's FileInStream and            *)
(* FileOutStream; every call of them, and every allocation, may fail.      *)
(*                                                                         *)
(* Indices are those of TLA+: byte k of a buffer is at k + 1.              *)
(***************************************************************************)
EXTENDS Integers, Sequences, SequencesExt

CONSTANTS
  File,         \* the file that is read: bytes, none of them 0
  Data,         \* what the application has in the buffer it writes
  Lengths, Offsets, MaxLens,   \* arguments the application may pass
  Values,       \* ints it passes to write(int)
  MaxWritten    \* bound: it writes no more when so much is written

ASSUME StreamsAssumption ==
  /\ File \in Seq(1..255) /\ Data \in Seq(1..255)
  /\ Lengths \cup Offsets \cup MaxLens \cup Values \subseteq Int
  /\ \A length \in Lengths : length <= Len(Data)
  /\ MaxWritten \in Nat

VARIABLES
  stream,    \* "in" or "out": the stream the application has
  open,      \* it is not closed
  pos,       \* position of the Java FileInStream
  written,   \* bytes the Java FileOutStream has accepted
  call,      \* the call that runs, or ran last
  pc,        \* where it is, "idle" when it has returned or thrown
  jBuf,      \* the local variable: "junk" until it is assigned, "null" or "array"
  array,     \* the bytes of the Java array
  buff,      \* the bytes of the application's buffer
  result,    \* the int the call returns
  threw,     \* the call ended by an exception
  otherRef   \* the JVM still knows another local reference of the thread (m_baseFileSystem)

javaVars == <<open, pos, written>>
vars == <<stream, javaVars, call, pc, jBuf, array, buff, result, threw, otherRef>>

-------------------------------------------------------------------------------
(* The arguments of a call *)

Request(fn, length, off, maxLen) == [fn |-> fn, length |-> length, off |-> off, maxLen |-> maxLen]

Zeros(n) == [k \in 1..n |-> 0]
Left == Len(File) - pos

\* Mutant: every maximal length up to the length stands for the whole buffer.
Whole_AtLeast(c) == c.off < 0 \/ c.maxLen <= 0 \/ c.length >= c.maxLen

\* `off < 0 || maxLen <= 0 || length == maxLen': the method without offset is called.
Whole(c) == c.off < 0 \/ c.maxLen <= 0 \/ c.length = c.maxLen
JavaOff(c) == IF Whole(c) THEN 0 ELSE c.off
JavaLen(c) == IF Whole(c) THEN Len(array) ELSE c.maxLen

\* The Java streams check their arguments against the array.
Refused(c) == ~open \/ JavaOff(c) + JavaLen(c) > Len(array)

\* The part of the array that FileOutStream.write is given.
Passed == SubSeq(array, JavaOff(call) + 1, JavaOff(call) + JavaLen(call))

Init ==
  /\ stream \in {"in", "out"}
  /\ open = TRUE
  /\ pos = 0
  /\ written = <<>>
  /\ call = Request("none", 0, 0, 0)
  /\ pc = "idle"
  /\ jBuf = "null"
  /\ array = <<>>
  /\ buff = <<>>
  /\ result = 0
  /\ threw = FALSE
  /\ otherRef = TRUE

Return(r) == pc' = "idle" /\ result' = r /\ threw' = FALSE
Throw == pc' = "idle" /\ result' = 0 /\ threw' = TRUE

-------------------------------------------------------------------------------
(* Calls without a buffer. An exception may come before or after the Java  *)
(* stream has done what it was asked for.                                  *)

Plain(fn) ==
  /\ pc = "idle"
  /\ call' = Request(fn, 0, 0, 0)
  /\ array' = <<>> /\ buff' = <<>>
  /\ UNCHANGED <<stream, jBuf, otherRef>>

\* InStream::read(), seek, skip, close. The Java skip stops at the end.
ReadByte ==
  /\ stream = "in" /\ Plain("readByte")
  /\ \/ open /\ Left > 0 /\ pos' = pos + 1 /\ (Return(File[pos + 1]) \/ Throw)
     \/ open /\ Left = 0 /\ Return(-1) /\ UNCHANGED pos
     \/ Throw /\ UNCHANGED pos
  /\ UNCHANGED <<open, written>>

Seek ==
  /\ stream = "in" /\ Plain("seek")
  /\ \/ open /\ pos' \in 0..Len(File) /\ (Return(0) \/ Throw)
     \/ Throw /\ UNCHANGED pos
  /\ UNCHANGED <<open, written>>

Skip ==
  /\ stream = "in" /\ Plain("skip")
  /\ \/ open /\ \E n \in 0..Left : pos' = pos + n /\ (Return(n) \/ Throw)
     \/ Throw /\ UNCHANGED pos
  /\ UNCHANGED <<open, written>>

\* write(int) keeps the low byte.
WriteByte ==
  /\ stream = "out" /\ Plain("writeByte")
  /\ Len(written) < MaxWritten
  /\ \/ open /\ \E v \in Values : written' = Append(written, v % 256) /\ (Return(0) \/ Throw)
     \/ Throw /\ UNCHANGED written
  /\ UNCHANGED <<open, pos>>

Flush ==
  /\ stream = "out" /\ Plain("flush")
  /\ Return(0) \/ Throw
  /\ UNCHANGED javaVars

\* close of either stream, and cancel, which gives the file up.
Close ==
  /\ Plain(IF stream = "in" THEN "close" ELSE "closeOrCancel")
  /\ \/ open' = FALSE /\ Return(0)
     \/ open' \in {open, FALSE} /\ Throw
  /\ UNCHANGED <<pos, written>>

-------------------------------------------------------------------------------
(* Calls with a buffer *)

\* read(buff, length) and write(buff, length) pass 0 and length.
StartCall ==
  /\ pc = "idle"
  /\ stream = "out" => Len(written) < MaxWritten
  /\ \E length \in Lengths, off \in Offsets, maxLen \in MaxLens \cup Lengths :
       /\ call' = Request(IF stream = "in" THEN "read" ELSE "write", length, off, maxLen)
       /\ buff' = IF stream = "in" THEN Zeros(length) ELSE SubSeq(Data, 1, length)
  /\ pc' = "newByteArray"
  /\ jBuf' = "junk"
  /\ array' = <<>>
  /\ result' = 0
  /\ threw' = FALSE
  /\ UNCHANGED <<stream, javaVars, otherRef>>

\* Mutant: the array has the maximal length of the call.
NewByteArray_MaxLen ==
  /\ pc = "newByteArray"
  /\ call.maxLen >= 0
  /\ jBuf' = "array"
  /\ array' = IF stream = "in" THEN Zeros(call.maxLen) ELSE buff
  /\ pc' = "callMethod"
  /\ UNCHANGED <<stream, javaVars, call, buff, result, threw, otherRef>>

\* Env::newByteArray: a negative length, or no memory, gives a NativeException.
\* write also fills the array, and read leaves it at zero.
NewByteArray ==
  /\ pc = "newByteArray"
  /\ call.length >= 0
  /\ jBuf' = "array"
  /\ array' = IF stream = "in" THEN Zeros(call.length) ELSE buff
  /\ pc' = "callMethod"
  /\ UNCHANGED <<stream, javaVars, call, buff, result, threw, otherRef>>

\* The assignment to jBuf does not happen. read has a handler, write has none.
NewByteArrayFails ==
  /\ pc = "newByteArray"
  /\ IF stream = "in" THEN pc' = "handler" /\ UNCHANGED <<result, threw>> ELSE Throw
  /\ UNCHANGED <<stream, javaVars, call, jBuf, array, buff, otherRef>>

\* FileInStream.read fills a part of the array: it may answer less than is left.
ReadMethod ==
  /\ pc = "callMethod" /\ stream = "in"
  /\ ~Refused(call)
  /\ \/ /\ JavaLen(call) = 0 \/ Left = 0
        /\ result' = (IF JavaLen(call) = 0 THEN 0 ELSE -1)
        /\ pc' = "free"
        /\ UNCHANGED <<pos, array>>
     \/ \E n \in 1..JavaLen(call) :
          /\ n <= Left
          /\ array' = [k \in DOMAIN array |->
                         IF k - JavaOff(call) \in 1..n THEN File[pos + k - JavaOff(call)] ELSE array[k]]
          /\ pos' = pos + n
          /\ result' = n
          /\ pc' = "copy"
  /\ UNCHANGED <<stream, open, written, call, jBuf, buff, threw, otherRef>>

\* FileOutStream.write takes the array, or a part of it.
WriteMethod ==
  /\ pc = "callMethod" /\ stream = "out"
  /\ ~Refused(call)
  /\ written' = written \o Passed
  /\ pc' = "free"
  /\ UNCHANGED <<stream, open, pos, call, jBuf, array, buff, result, threw, otherRef>>

\* An exception may come after the stream has advanced, or taken some of the bytes.
MethodThrows ==
  /\ pc = "callMethod"
  /\ pos' \in IF stream = "in" /\ ~Refused(call) THEN pos..Len(File) ELSE {pos}
  /\ written' \in IF stream = "out" /\ ~Refused(call)
                    THEN {written \o SubSeq(Passed, 1, n) : n \in 0..Len(Passed)} ELSE {written}
  /\ IF stream = "in" THEN pc' = "handler" /\ UNCHANGED <<result, threw>> ELSE Throw
  /\ UNCHANGED <<stream, open, call, jBuf, array, buff, otherRef>>

\* Mutants: the copy takes the offset the Java method was given, or one byte less.
CopyOut_FromOffset ==
  /\ pc = "copy"
  /\ buff' = [k \in DOMAIN buff |->
                IF k <= result /\ k + JavaOff(call) <= Len(array) THEN array[k + JavaOff(call)] ELSE buff[k]]
  /\ pc' = "free"
  /\ UNCHANGED <<stream, javaVars, call, jBuf, array, result, threw, otherRef>>

CopyOut_OneLess ==
  /\ pc = "copy"
  /\ buff' = [k \in DOMAIN buff |-> IF k < result THEN array[k] ELSE buff[k]]
  /\ pc' = "free"
  /\ UNCHANGED <<stream, javaVars, call, jBuf, array, result, threw, otherRef>>

\* GetByteArrayRegion(jBuf, 0, rdSz, buff)
CopyOut ==
  /\ pc = "copy"
  /\ buff' = [k \in DOMAIN buff |-> IF k <= result THEN array[k] ELSE buff[k]]
  /\ pc' = "free"
  /\ UNCHANGED <<stream, javaVars, call, jBuf, array, result, threw, otherRef>>

FreeArray ==
  /\ pc = "free"
  /\ Return(result)
  /\ jBuf' = "null"
  /\ UNCHANGED <<stream, javaVars, call, array, buff, otherRef>>

\* Mutant: the handler deletes some value after every failure.
Handler_AnyValue ==
  /\ pc = "handler"
  /\ \/ Throw /\ UNCHANGED otherRef
     \/ Throw /\ otherRef' = FALSE
     \/ pc' = "undefined" /\ UNCHANGED <<otherRef, result, threw>>
  /\ jBuf' = "null"
  /\ UNCHANGED <<stream, javaVars, call, array, buff>>

\* `if (jBuf != NULL) DeleteLocalRef(jBuf)'. If jBuf was never assigned it holds
\* what is on the stack: NULL, another reference of the thread, or no reference.
Handler ==
  /\ pc = "handler"
  /\ \/ Throw /\ UNCHANGED otherRef
     \/ jBuf = "junk" /\ Throw /\ otherRef' = FALSE
     \/ jBuf = "junk" /\ pc' = "undefined" /\ UNCHANGED <<otherRef, result, threw>>
  /\ jBuf' = "null"
  /\ UNCHANGED <<stream, javaVars, call, array, buff>>

-------------------------------------------------------------------------------
LibraryStep ==
  \/ NewByteArray \/ NewByteArrayFails \/ ReadMethod \/ WriteMethod \/ MethodThrows
  \/ CopyOut \/ FreeArray \/ Handler

ApplicationCall ==
  \/ ReadByte \/ Seek \/ Skip \/ WriteByte \/ Flush \/ Close
  \/ StartCall

Next == ApplicationCall \/ LibraryStep

Spec == Init /\ [][Next]_vars

-------------------------------------------------------------------------------
Functions == {"none", "read", "write", "readByte", "writeByte", "seek", "skip", "flush", "close",
              "closeOrCancel"}

Bytes == 0..255
FlagsOK == open \in BOOLEAN /\ threw \in BOOLEAN /\ otherRef \in BOOLEAN

TypeOK ==
  /\ FlagsOK
  /\ stream \in {"in", "out"}
  /\ pos \in 0..Len(File)
  /\ written \in Seq(Bytes)
  /\ call \in [fn : Functions, length : Lengths \cup {0}, off : Offsets \cup {0},
               maxLen : MaxLens \cup Lengths \cup {0}]
  /\ pc \in {"idle", "newByteArray", "callMethod", "copy", "free", "handler", "undefined"}
  /\ jBuf \in {"junk", "null", "array"}
  /\ array \in Seq(Bytes)
  /\ buff \in Seq(Bytes)
  /\ result \in Int

\* For no combination of the three arguments does the copy leave the array or
\* the application's buffer, and there is an array whenever one is used.
NoOverrun ==
  /\ pc \in {"callMethod", "copy", "free"} => jBuf = "array"
  /\ pc = "copy" => result \in 1..Len(array) /\ result <= call.length

\* What a read into a buffer hands over, for every length, offset and maximal
\* length: it copies from the start of the array whatever the offset was, so the
\* bytes that were read come after as many zeros, and the last ones are missing.
DeliveredBytes ==
  pc = "idle" /\ call.fn = "read" /\ result > 0 =>
    \A k \in 1..result :
      buff[k] = IF k <= JavaOff(call) THEN 0 ELSE File[pos - result + k - JavaOff(call)]

\* A request for a part of the buffer that lies in it writes that part, and
\* nothing else; any other request is refused, or writes the whole buffer (a
\* maximal length of zero, too). A write that throws may have written the first bytes
\* of that, and no others.
Asked(c) == IF c.off >= 0 /\ c.maxLen > 0 /\ c.off + c.maxLen <= c.length
              THEN SubSeq(Data, c.off + 1, c.off + c.maxLen) ELSE SubSeq(Data, 1, c.length)
WritesWhatIsAsked ==
  [][written' # written /\ call'.fn = "write" =>
       \/ written' = written \o Asked(call')
       \/ threw' /\ \E n \in 1..Len(Asked(call')) :
                      written' = written \o SubSeq(Asked(call'), 1, n)]_vars

\* The only way to delete another reference, or to pass a value that is none to
\* DeleteLocalRef, is a read whose array cannot be allocated.
JunkOnlyWithoutArray ==
  [][otherRef' # otherRef \/ pc' = "undefined"
       => call.fn = "read" /\ array = <<>> /\ pos' = pos]_vars

\* The streams as the application sees them. A read with an offset is to it a
\* move of the cursor; every other one hands over the bytes that follow.
got ==
  IF call.fn # "read" \/ JavaOff(call) # 0 \/ result <= 0 THEN <<>>
  ELSE SubSeq(IF pc = "copy" THEN array ELSE buff, 1, result)
Abstract == INSTANCE StreamSpec WITH cursor <- pos
AbstractSpec == Abstract!Spec
===============================================================================
