----------------------------- MODULE StreamsProofs -----------------------------
(***************************************************************************)
(* Proofs about Streams, for any file, buffer, and arguments of the calls. *)
(***************************************************************************)
EXTENDS Streams, SequenceTheorems, TLAPS

-------------------------------------------------------------------------------
(* The inductive invariant *)

\* A call with a buffer runs outside "idle"; the handler and the copy are read's.
CallRuns ==
  /\ pc # "idle" => call.fn = IF stream = "in" THEN "read" ELSE "write"
  /\ pc \in {"copy", "handler"} => stream = "in"
  /\ call.fn = "read" => stream = "in"

\* The array has the length of the call from its allocation to its release.
ArrayInv ==
  /\ pc \in {"callMethod", "copy", "free"} => jBuf = "array" /\ Len(array) = call.length
  /\ pc = "newByteArray" => array = <<>>
  /\ pc = "handler" /\ jBuf # "array" => array = <<>>

\* Nothing has been copied before the copy.
BuffInv ==
  /\ pc \in {"newByteArray", "callMethod", "copy"} /\ stream = "in" => buff = Zeros(call.length)
  /\ pc \in {"newByteArray", "callMethod"} /\ stream = "out" => buff = SubSeq(Data, 1, call.length)
  /\ pc = "callMethod" => array = buff

\* a holds what the call read, behind as many zeros as its offset.
Holds(a) ==
  \A k \in 1..result :
    a[k] = IF k <= JavaOff(call) THEN 0 ELSE File[pos - result + k - JavaOff(call)]

ReadInv ==
  /\ pc \in {"newByteArray", "callMethod", "handler", "undefined"} => result = 0
  /\ pc = "copy" => /\ result \in 1..Len(array) /\ result <= pos
                    /\ JavaOff(call) + result <= Len(array)
                    /\ Holds(array)
  /\ pc \in {"free", "idle"} /\ call.fn = "read" /\ result > 0 =>
       /\ result \in 1..Len(buff) /\ result <= pos
       /\ Holds(buff)

IInv == TypeOK /\ CallRuns /\ ArrayInv /\ BuffInv /\ ReadInv

-------------------------------------------------------------------------------
LEMMA DataIsBytes == Data \in Seq(Bytes) /\ File \in Seq(Bytes)
<1> 1..255 \subseteq Bytes
  BY DEF Bytes
<1> QED
  BY StreamsAssumption, SeqMonotonic

\* The offset given to Java is never negative (Alluxio.cc:276).
LEMMA OffsetNat ==
  ASSUME NEW c, c.off \in Int, c.maxLen \in Int, c.length \in Int
  PROVE  JavaOff(c) \in Nat
BY DEF JavaOff, Whole

LEMMA FunctionIsSeq ==
  ASSUME NEW S, NEW n \in Nat, NEW f \in [1..n -> S]
  PROVE  f \in Seq(S) /\ Len(f) = n
BY SeqDef

LEMMA PartIsSeq ==
  ASSUME NEW S, NEW s \in Seq(S), NEW a \in Int, NEW b \in Int, 1 <= a, b <= Len(s)
  PROVE  SubSeq(s, a, b) \in Seq(S) /\ Len(SubSeq(s, a, b)) = IF a <= b THEN b - a + 1 ELSE 0
<1>1. \A i \in a..b : i \in 1..Len(s)
  BY LenProperties
<1>2. \A i \in a..b : s[i] \in S
  BY <1>1, ElementOfSeq
<1> QED
  BY <1>2, SubSeqProperties

LEMMA PartElements ==
  ASSUME NEW S, NEW s \in Seq(S), NEW a \in Int, NEW b \in Int, 1 <= a, b <= Len(s)
  PROVE  \A k \in 1..b - a + 1 : SubSeq(s, a, b)[k] = s[a + k - 1]
<1>1. \A i \in a..b : i \in 1..Len(s)
  BY LenProperties
<1>2. \A i \in a..b : s[i] \in S
  BY <1>1, ElementOfSeq
<1> QED
  BY <1>2, SubSeqProperties

\* What is appended leaves a prefix.
LEMMA ConcatIsPrefix ==
  ASSUME NEW S, NEW s \in Seq(S), NEW t \in Seq(S)
  PROVE  IsPrefix(s, s \o t)
<1>1. s \o t \in Seq(S) /\ Len(s \o t) = Len(s) + Len(t) /\ Len(s) \in Nat /\ Len(t) \in Nat
      /\ \A i \in 1..Len(s) : (s \o t)[i] = s[i]
  BY ConcatProperties, LenProperties
<1>2. SubSeq(s \o t, 1, Len(s)) = s
  <2>1. SubSeq(s \o t, 1, Len(s)) \in Seq(S) /\ Len(SubSeq(s \o t, 1, Len(s))) = Len(s)
        /\ \A i \in 1..Len(s) : SubSeq(s \o t, 1, Len(s))[i] = s[i]
    BY <1>1, PartIsSeq, PartElements
  <2> QED
    BY <2>1, SeqEqual
<1>3. SubSeq(s, 1, Len(s)) = s
  BY SubSeqFull
<1> QED
  BY <1>1, <1>2, <1>3 DEF IsPrefix

LEMMA AppendIsPrefix ==
  ASSUME NEW s \in Seq(Bytes), NEW t, t = s \/ \E v \in Values : t = Append(s, v % 256)
  PROVE  IsPrefix(s, t)
<1>1. CASE t = s
  BY <1>1 DEF IsPrefix
<1>2. CASE \E v \in Values : t = Append(s, v % 256)
  <2> PICK v \in Values : t = Append(s, v % 256)
    BY <1>2
  <2>1. v % 256 \in Bytes
    <3> v \in Int
      BY StreamsAssumption
    <3> QED
      BY DEF Bytes
  <2> DEFINE b == <<v % 256>>
  <2>2. b \in Seq(Bytes) /\ t = s \o b
    BY <2>1
  <2> HIDE DEF b
  <2> QED
    BY <2>2, ConcatIsPrefix
<1> QED
  BY <1>1, <1>2

LEMMA ZerosType ==
  ASSUME NEW n \in Int
  PROVE  /\ Zeros(n) \in Seq(Bytes)
         /\ n >= 0 => Len(Zeros(n)) = n
         /\ \A k \in 1..n : Zeros(n)[k] = 0
<1>1. CASE n >= 0
  <2>1. Zeros(n) \in [1..n -> Bytes]
    BY DEF Zeros, Bytes
  <2> QED
    BY <1>1, <2>1, FunctionIsSeq DEF Zeros
<1>2. CASE n < 0
  <2>1. Zeros(n) \in [1..0 -> Bytes] /\ 1..n = {}
    BY <1>2 DEF Zeros, Bytes
  <2> QED
    BY <1>2, <2>1, FunctionIsSeq
<1> QED
  BY <1>1, <1>2

LEMMA CallType == ASSUME TypeOK PROVE call.off \in Int /\ call.maxLen \in Int /\ call.length \in Int
BY StreamsAssumption DEF TypeOK

LEMMA InitInv == Init => IInv
<1> SUFFICES ASSUME Init PROVE IInv
  OBVIOUS
<1>1. FlagsOK
  BY Zenon DEF Init, FlagsOK
<1>2. <<>> \in Seq(Bytes)
  BY EmptySeq
<1>3. TypeOK
  BY <1>1, <1>2, DataIsBytes, LenProperties DEF Init, TypeOK, Functions, Request
<1> QED
  BY <1>3 DEF Init, IInv, CallRuns, ArrayInv, BuffInv, ReadInv, Request

-------------------------------------------------------------------------------
(* The steps *)

LEMMA FlagsInv == FlagsOK /\ [Next]_vars => FlagsOK'
<1> SUFFICES ASSUME FlagsOK, [Next]_vars PROVE FlagsOK'
  OBVIOUS
<1> USE DEF FlagsOK, Return, Throw, javaVars
<1>1. CASE ApplicationCall
  BY <1>1, Zenon DEF ApplicationCall, ReadByte, Seek, Skip, WriteByte, Flush, Close, StartCall, Plain
<1>2. CASE NewByteArray \/ NewByteArrayFails \/ ReadMethod \/ WriteMethod \/ MethodThrows
  BY <1>2, Zenon DEF NewByteArray, NewByteArrayFails, ReadMethod, WriteMethod, MethodThrows
<1>3. CASE CopyOut \/ FreeArray \/ Handler
  BY <1>3, Zenon DEF CopyOut, FreeArray, Handler
<1>4. CASE UNCHANGED vars
  BY <1>4, Zenon DEF vars
<1> QED
  BY <1>1, <1>2, <1>3, <1>4 DEF Next, LibraryStep

\* The calls without a buffer end where they began.
LEMMA PlainInv ==
  ASSUME IInv, NEW fn \in Functions \ {"none", "read", "write"}, Plain(fn), pc' = "idle",
         result' \in Int, FlagsOK', pos' \in 0..Len(File),
         written' \in Seq(Bytes)
  PROVE  IInv'
<1>1. call' \in [fn : Functions, length : Lengths \cup {0}, off : Offsets \cup {0},
                 maxLen : MaxLens \cup Lengths \cup {0}] /\ call'.fn = fn
  BY DEF Plain, Request
<1>2. TypeOK'
  BY <1>1 DEF IInv, TypeOK, Plain
<1> QED
  BY <1>1, <1>2 DEF IInv, CallRuns, ArrayInv, BuffInv, ReadInv

LEMMA ApplicationCallInv ==
  ASSUME IInv, ApplicationCall, FlagsOK' PROVE IInv'
<1> USE StreamsAssumption DEF Functions, Return, Throw, Left
<1>1. TypeOK
  BY DEF IInv
<1>2. CASE ReadByte
  <2>1. \/ Left > 0 /\ pos' = pos + 1 /\ result' \in {File[pos + 1], 0}
        \/ pos' = pos /\ result' \in {0, -1}
    BY <1>2, Zenon DEF ReadByte
  <2>2. Left > 0 => File[pos + 1] \in Bytes
    BY <1>1, DataIsBytes, LenProperties, ElementOfSeq DEF TypeOK
  <2>3. pos' \in 0..Len(File)
    BY <1>1, <2>1, DataIsBytes, LenProperties DEF TypeOK
  <2>5. result' \in Int
    <3>1. Bytes \subseteq Int /\ {0, -1} \subseteq Int
      BY DEF Bytes
    <3>2. result' \in Bytes \/ result' \in {0, -1}
      BY <2>1, <2>2
    <3> QED
      BY <3>1, <3>2
  <2>4. Plain("readByte") /\ pc' = "idle" /\ written' = written
    BY <1>2, Zenon DEF ReadByte
  <2> QED
    BY <1>1, <2>3, <2>4, <2>5, PlainInv DEF TypeOK
<1>3. CASE Seek
  <2>1. Plain("seek") /\ pc' = "idle" /\ written' = written /\ result' = 0
        /\ (pos' \in 0..Len(File) \/ pos' = pos)
    BY <1>3, Zenon DEF Seek
  <2> QED
    BY <1>1, <2>1, PlainInv DEF TypeOK
<1>4. CASE Skip
  <2>1. Plain("skip") /\ pc' = "idle" /\ written' = written
        /\ \/ pos' = pos /\ result' = 0
           \/ \E n \in 0..Left : pos' = pos + n /\ result' \in {n, 0}
    BY <1>4, Zenon DEF Skip
  <2>2. pos' \in 0..Len(File) /\ result' \in Int
    BY <1>1, <2>1, DataIsBytes, LenProperties DEF TypeOK
  <2> QED
    BY <1>1, <2>1, <2>2, PlainInv DEF TypeOK
<1>5. CASE WriteByte
  <2>1. Plain("writeByte") /\ pc' = "idle" /\ pos' = pos /\ result' = 0
        /\ (written' = written \/ \E v \in Values : written' = Append(written, v % 256))
    BY <1>5, Zenon DEF WriteByte
  <2>2. \A v \in Values : v % 256 \in Bytes
    <3> SUFFICES ASSUME NEW v \in Values PROVE v % 256 \in Bytes
      OBVIOUS
    <3> v \in Int
      OBVIOUS
    <3> QED
      BY DEF Bytes
  <2>3. written' \in Seq(Bytes)
    <3>1. written \in Seq(Bytes)
      BY <1>1 DEF TypeOK
    <3>2. CASE written' = written
      BY <3>1, <3>2
    <3>3. CASE \E v \in Values : written' = Append(written, v % 256)
      <4> PICK v \in Values : written' = Append(written, v % 256)
        BY <3>3
      <4> v % 256 \in Bytes
        BY <2>2
      <4> QED
        BY <3>1, AppendProperties
    <3> QED
      BY <2>1, <3>2, <3>3
  <2> QED
    BY <1>1, <2>1, <2>3, PlainInv DEF TypeOK
<1>6. CASE Flush
  BY <1>1, <1>6, PlainInv DEF Flush, TypeOK, javaVars
<1>7. CASE Close
  <2>1. (Plain("close") \/ Plain("closeOrCancel")) /\ pc' = "idle" /\ result' = 0
        /\ UNCHANGED <<pos, written>>
    BY <1>7, Zenon DEF Close
  <2> QED
    BY <1>1, <2>1, PlainInv DEF TypeOK
<1>8. CASE StartCall
  <2> PICK length \in Lengths, off \in Offsets, maxLen \in MaxLens \cup Lengths :
        /\ call' = Request(IF stream = "in" THEN "read" ELSE "write", length, off, maxLen)
        /\ buff' = IF stream = "in" THEN Zeros(length) ELSE SubSeq(Data, 1, length)
    BY <1>8 DEF StartCall
  <2>1. /\ call' \in [fn : Functions, length : Lengths \cup {0}, off : Offsets \cup {0},
                      maxLen : MaxLens \cup Lengths \cup {0}]
        /\ call'.fn = IF stream = "in" THEN "read" ELSE "write"
        /\ call'.length = length /\ length \in Int
    BY DEF Request
  <2>2. Zeros(length) \in Seq(Bytes)
    BY ZerosType
  <2>3. SubSeq(Data, 1, length) \in Seq(Bytes)
    BY <2>1, DataIsBytes, PartIsSeq
  <2>4. TypeOK'
    BY <1>1, <1>8, <2>1, <2>2, <2>3 DEF StartCall, TypeOK, javaVars
  <2> QED
    BY <1>8, <2>1, <2>4 DEF StartCall, IInv, CallRuns, ArrayInv, BuffInv, ReadInv
<1> QED
  BY <1>2, <1>3, <1>4, <1>5, <1>6, <1>7, <1>8 DEF ApplicationCall

LEMMA NewByteArrayInv ==
  ASSUME IInv, NewByteArray, FlagsOK' PROVE IInv'
<1> USE StreamsAssumption DEF IInv
<1>1. array' = buff /\ Len(buff) = call.length
  <2>1. call.length \in Int /\ call.length >= 0
    BY CallType DEF NewByteArray
  <2>2. CASE stream = "in"
    BY <2>1, <2>2, ZerosType DEF NewByteArray, BuffInv
  <2>3. CASE stream = "out"
    <3>1. call.length <= Len(Data)
      BY <2>1, DataIsBytes, LenProperties DEF TypeOK
    <3> QED
      BY <2>1, <2>3, <3>1, DataIsBytes, PartIsSeq DEF NewByteArray, BuffInv
  <2> QED
    BY <2>2, <2>3 DEF TypeOK
<1>2. TypeOK'
  BY <1>1 DEF NewByteArray, TypeOK, javaVars
<1> QED
  BY <1>1, <1>2 DEF NewByteArray, CallRuns, ArrayInv, BuffInv, ReadInv

LEMMA NewByteArrayFailsInv ==
  ASSUME IInv, NewByteArrayFails, FlagsOK' PROVE IInv'
<1> USE DEF IInv, NewByteArrayFails, Throw
<1>1. TypeOK'
  BY DEF TypeOK, javaVars
<1> QED
  BY <1>1 DEF CallRuns, ArrayInv, BuffInv, ReadInv

\* The Java method fills its part of the array, or answers that nothing is left.
LEMMA ReadMethodInv ==
  ASSUME IInv, ReadMethod, FlagsOK' PROVE IInv'
<1> USE StreamsAssumption DEF IInv, ReadMethod
<1> DEFINE o == JavaOff(call)
<1>1. /\ o \in Nat /\ array = Zeros(call.length) /\ array \in Seq(Bytes) /\ Len(array) = call.length
      /\ \A k \in 1..call.length : array[k] = 0
      /\ DOMAIN array = 1..call.length
  <2>1. o \in Nat /\ call.length \in Int
    BY OffsetNat, CallType
  <2>2. array = Zeros(call.length) /\ Len(array) = call.length
    BY DEF ArrayInv, BuffInv
  <2>3. array \in Seq(Bytes)
    BY DEF TypeOK
  <2> QED
    BY <2>1, <2>2, <2>3, ZerosType, LenProperties
<1>2. CASE pc' = "free"
  <2>1. result' \in {0, -1} /\ UNCHANGED <<pos, array>>
    BY <1>2
  <2>2. TypeOK'
    BY <1>2, <2>1 DEF TypeOK
  <2> QED
    BY <1>2, <2>1, <2>2 DEF CallRuns, ArrayInv, BuffInv, ReadInv
<1>3. CASE pc' = "copy"
  <2> PICK n \in 1..JavaLen(call) :
        /\ n <= Left
        /\ array' = [k \in DOMAIN array |-> IF k - o \in 1..n THEN File[pos + k - o] ELSE array[k]]
        /\ pos' = pos + n
        /\ result' = n
    BY <1>3
  <2>1. n \in Nat /\ n >= 1 /\ o + n <= Len(array) /\ pos \in Nat /\ pos + n <= Len(File)
    <3>1. JavaLen(call) \in Int /\ call.length \in Int
      BY CallType DEF JavaLen
    <3>2. n \in Nat /\ n >= 1 /\ n <= JavaLen(call)
      BY <3>1
    <3>3. pos \in Nat /\ pos + n <= Len(File)
      <4>1. pos \in Nat /\ Len(File) \in Nat
        BY DataIsBytes, LenProperties DEF TypeOK
      <4> QED
        BY <3>2, <4>1 DEF Left
    <3>4. o + JavaLen(call) <= Len(array)
      BY <1>1, <3>1 DEF Refused
    <3> HIDE DEF o
    <3> QED
      BY <1>1, <3>1, <3>2, <3>3, <3>4
  <2>2. /\ \A k \in 1..call.length :
             array'[k] = IF k - o \in 1..n THEN File[pos + k - o] ELSE array[k]
        /\ \A k \in 1..call.length : array'[k] \in Bytes
        /\ array' \in [1..call.length -> Bytes]
    <3>1. \A k \in 1..call.length : k - o \in 1..n => File[pos + k - o] \in Bytes
      <4> SUFFICES ASSUME NEW k \in 1..call.length, k - o \in 1..n PROVE File[pos + k - o] \in Bytes
        OBVIOUS
      <4>1. pos + k - o \in 1..Len(File)
        <5>1. call.length \in Int /\ Len(File) \in Nat
          BY CallType, DataIsBytes, LenProperties
        <5> HIDE StreamsAssumption DEF IInv, ReadMethod, o
        <5> QED
          BY <1>1, <2>1, <5>1
      <4> QED
        BY <4>1, DataIsBytes, ElementOfSeq
    <3> QED
      BY <1>1, <3>1
  <2>3. array' \in Seq(Bytes) /\ Len(array') = call.length
    <3> call.length \in Nat
      BY <1>1, LenProperties
    <3> HIDE StreamsAssumption DEF IInv, ReadMethod, o
    <3> QED
      BY <2>2, FunctionIsSeq
  <2>4. TypeOK'
    BY <1>3, <2>1, <2>3 DEF TypeOK
  <2>5. JavaOff(call)' = o
    BY DEF JavaOff, Whole
  <2>6. Holds(array)'
    <3> SUFFICES ASSUME NEW k \in 1..n
                 PROVE  array'[k] = IF k <= o THEN 0 ELSE File[pos' - n + k - o]
      BY <2>1, <2>5 DEF Holds
    <3>1. call.length \in Int /\ pos' = pos + n
      BY CallType
    <3> HIDE StreamsAssumption DEF IInv, ReadMethod, o
    <3>2. k \in 1..call.length /\ pos' - n + k - o = pos + k - o /\ k \in Nat
      BY <1>1, <2>1, <3>1
    <3>3. CASE k <= o
      <4>1. k - o \notin 1..n
        BY <1>1, <3>2, <3>3
      <4> QED
        BY <1>1, <2>2, <3>2, <3>3, <4>1
    <3>4. CASE k > o
      <4>1. k - o \in 1..n
        BY <1>1, <2>1, <3>2, <3>4
      <4> QED
        BY <1>1, <2>2, <3>2, <3>4, <4>1
    <3> QED
      BY <1>1, <3>2, <3>3, <3>4
  <2>7. ReadInv'
    BY <1>1, <1>3, <2>1, <2>3, <2>5, <2>6, CallType DEF ReadInv
  <2> QED
    BY <1>3, <2>3, <2>4, <2>7 DEF CallRuns, ArrayInv, BuffInv
<1> QED
  BY <1>2, <1>3

\* The Java method is called, and accepts its arguments.
Accepted == pc = "callMethod" /\ stream = "out" /\ ~Refused(call)

\* The part of the array that is written lies in it.
LEMMA WrittenType ==
  ASSUME IInv, Accepted
  PROVE  /\ Passed \in Seq(Bytes) /\ Len(Passed) \in Nat
         /\ \A n \in 0..Len(Passed) : SubSeq(Passed, 1, n) \in Seq(Bytes)
<1>1. JavaOff(call) \in Nat /\ call.maxLen \in Int
  BY OffsetNat, CallType DEF IInv
<1>2. array \in Seq(Bytes) /\ Len(array) \in Nat
  BY LenProperties DEF IInv, TypeOK
<1>3. JavaLen(call) \in Int /\ JavaOff(call) + JavaLen(call) <= Len(array)
  BY <1>1, <1>2 DEF Accepted, JavaLen, Refused
<1>4. Passed \in Seq(Bytes)
  BY <1>1, <1>2, <1>3, PartIsSeq DEF Passed
<1>5. Len(Passed) \in Nat
  BY <1>4, LenProperties
<1>6. \A n \in 0..Len(Passed) : SubSeq(Passed, 1, n) \in Seq(Bytes)
  BY <1>4, <1>5, PartIsSeq
<1> QED
  BY <1>4, <1>5, <1>6

\* It is the part that was asked for, whichever Java method is called.
LEMMA AskedIsWritten ==
  ASSUME IInv, Accepted
  PROVE  Passed = Asked(call)
<1> DEFINE l == call.length
<1>1. /\ l \in Int /\ call.off \in Int /\ call.maxLen \in Int
      /\ array = SubSeq(Data, 1, l) /\ Len(array) = l /\ array \in Seq(Bytes)
  BY CallType DEF IInv, TypeOK, Accepted, ArrayInv, BuffInv
<1>2. l \in 0..Len(Data) /\ Len(Data) \in Nat
  BY <1>1, StreamsAssumption, DataIsBytes, LenProperties DEF IInv, TypeOK
<1>3. CASE Whole(call)
  <2>1. JavaOff(call) = 0 /\ JavaLen(call) = l
    BY <1>1, <1>3 DEF JavaOff, JavaLen
  <2>2. SubSeq(array, 1, l) = array
    BY <1>1, SubSeqFull
  <2>3. Asked(call) = SubSeq(Data, 1, l)
    BY <1>1, <1>2, <1>3 DEF Asked, Whole
  <2> QED
    BY <1>1, <2>1, <2>2, <2>3 DEF Passed
<1>4. CASE ~Whole(call)
  <2>1. /\ JavaOff(call) = call.off /\ JavaLen(call) = call.maxLen
        /\ call.off >= 0 /\ call.maxLen > 0 /\ call.off + call.maxLen <= l
    <3>1. ~Refused(call)
      BY Zenon DEF Accepted
    <3>2. call.off >= 0 /\ call.maxLen > 0
      BY <1>1, <1>4 DEF Whole
    <3>3. JavaOff(call) = call.off /\ JavaLen(call) = call.maxLen
      BY <1>4 DEF JavaOff, JavaLen
    <3>4. ~(JavaOff(call) + JavaLen(call) > Len(array))
      BY <3>1, Zenon DEF Refused
    <3> QED
      BY <1>1, <3>2, <3>3, <3>4
  <2> DEFINE a == call.off + 1
             b == call.off + call.maxLen
  <2>2. a \in Int /\ b \in Int /\ 1 <= a /\ b <= l
    BY <1>1, <2>1
  <2>3. \A k \in 1..l : array[k] = Data[k]
    <3>1. \A k \in 1..l - 1 + 1 : SubSeq(Data, 1, l)[k] = Data[1 + k - 1]
      BY <1>2, DataIsBytes, PartElements
    <3>2. l - 1 + 1 = l /\ \A k \in 1..l : 1 + k - 1 = k
      BY <1>1
    <3> QED
      BY <1>1, <3>1, <3>2
  <2> HIDE DEF a, b
  <2>4. SubSeq(array, a, b) \in Seq(Bytes) /\ SubSeq(Data, a, b) \in Seq(Bytes)
        /\ Len(SubSeq(array, a, b)) = Len(SubSeq(Data, a, b))
        /\ Len(SubSeq(array, a, b)) = IF a <= b THEN b - a + 1 ELSE 0
    BY <1>1, <1>2, <2>2, DataIsBytes, PartIsSeq
  <2>5. \A k \in 1..b - a + 1 : /\ SubSeq(array, a, b)[k] = array[a + k - 1]
                                /\ SubSeq(Data, a, b)[k] = Data[a + k - 1]
                                /\ a + k - 1 \in 1..l
    BY <1>1, <1>2, <2>2, DataIsBytes, PartElements
  <2>6. \A k \in 1..Len(SubSeq(array, a, b)) : SubSeq(array, a, b)[k] = SubSeq(Data, a, b)[k]
    BY <2>2, <2>3, <2>4, <2>5
  <2>7. SubSeq(array, a, b) = SubSeq(Data, a, b)
    BY <2>4, <2>6, SeqEqual
  <2> QED
    BY <1>1, <2>1, <2>7 DEF Asked, Passed, a, b
<1> QED
  BY <1>3, <1>4

LEMMA WriteMethodInv ==
  ASSUME IInv, WriteMethod, FlagsOK' PROVE IInv'
<1> USE StreamsAssumption DEF IInv, WriteMethod
<1>1. Passed \in Seq(Bytes)
  BY WrittenType DEF Accepted
<1>2. TypeOK'
  BY <1>1 DEF TypeOK
<1> QED
  BY <1>2 DEF CallRuns, ArrayInv, BuffInv, ReadInv

LEMMA MethodThrowsInv ==
  ASSUME IInv, MethodThrows, FlagsOK' PROVE IInv'
<1> USE StreamsAssumption DEF IInv, MethodThrows, Throw
<1>2. written' \in Seq(Bytes)
  <2>1. written \in Seq(Bytes)
    BY DEF TypeOK
  <2>2. CASE stream = "out" /\ ~Refused(call)
    <3>1. PICK n \in 0..Len(Passed) : written' = written \o SubSeq(Passed, 1, n)
      BY <2>2
    <3>2. SubSeq(Passed, 1, n) \in Seq(Bytes)
      BY <2>2, WrittenType DEF Accepted
    <3> HIDE DEF IInv, MethodThrows, Throw
    <3> QED
      BY <2>1, <3>1, <3>2
  <2>3. CASE ~(stream = "out" /\ ~Refused(call))
    BY <2>1, <2>3
  <2> QED
    BY <2>2, <2>3
<1>1. TypeOK'
  BY <1>2 DEF TypeOK
<1> QED
  BY <1>1 DEF CallRuns, ArrayInv, BuffInv, ReadInv

LEMMA CopyOutInv ==
  ASSUME IInv, CopyOut, FlagsOK' PROVE IInv'
<1> USE StreamsAssumption DEF IInv, CopyOut
<1>1. result \in 1..call.length /\ Len(buff) = call.length /\ Len(array) = call.length
      /\ Holds(array) /\ array \in Seq(Bytes) /\ buff \in Seq(Bytes) /\ result <= pos
  BY ZerosType, CallType DEF TypeOK, CallRuns, ArrayInv, BuffInv, ReadInv
<1>2. /\ \A k \in 1..call.length : buff'[k] = IF k <= result THEN array[k] ELSE buff[k]
      /\ buff' \in [1..call.length -> Bytes]
  <2>1. \A k \in 1..call.length : array[k] \in Bytes /\ buff[k] \in Bytes
    BY <1>1, ElementOfSeq
  <2>2. DOMAIN buff = 1..call.length
    BY <1>1, LenProperties
  <2> QED
    BY <2>1, <2>2
<1>3. buff' \in Seq(Bytes) /\ Len(buff') = call.length
  <2> call.length \in Nat
    BY <1>1, LenProperties
  <2> QED
    BY <1>2, FunctionIsSeq
<1>4. TypeOK'
  BY <1>3 DEF TypeOK, javaVars
<1>5. Holds(buff)'
  <2>1. JavaOff(call)' = JavaOff(call) /\ result' = result /\ pos' = pos
    BY DEF JavaOff, Whole, javaVars
  <2>2. \A k \in 1..result : buff'[k] = array[k]
    BY <1>1, <1>2, CallType
  <2> QED
    BY <1>1, <2>1, <2>2 DEF Holds
<1> QED
  BY <1>1, <1>3, <1>4, <1>5 DEF CallRuns, ArrayInv, BuffInv, ReadInv, javaVars

LEMMA FreeArrayInv ==
  ASSUME IInv, FreeArray, FlagsOK' PROVE IInv'
<1> USE DEF IInv, FreeArray, Return, javaVars
<1>1. TypeOK'
  BY DEF TypeOK
<1> QED
  BY <1>1 DEF CallRuns, ArrayInv, BuffInv, ReadInv, Holds, JavaOff, Whole

LEMMA HandlerInv ==
  ASSUME IInv, Handler, FlagsOK' PROVE IInv'
<1> USE DEF IInv, Handler, Throw, javaVars
<1>1. TypeOK'
  BY DEF TypeOK
<1> QED
  BY <1>1 DEF CallRuns, ArrayInv, BuffInv, ReadInv

LEMMA NextInv == IInv /\ [Next]_vars => IInv'
<1> SUFFICES ASSUME IInv, [Next]_vars PROVE IInv'
  OBVIOUS
<1>2. FlagsOK'
  BY FlagsInv DEF IInv, TypeOK
<1>1. CASE UNCHANGED vars
  BY <1>1, <1>2 DEF IInv, TypeOK, CallRuns, ArrayInv, BuffInv, ReadInv, Holds, JavaOff, Whole, vars, javaVars
<1> QED
  BY <1>1, <1>2, ApplicationCallInv, NewByteArrayInv, NewByteArrayFailsInv, ReadMethodInv,
     WriteMethodInv, MethodThrowsInv, CopyOutInv, FreeArrayInv, HandlerInv DEF Next, LibraryStep

-------------------------------------------------------------------------------
(* What every behaviour satisfies *)

\* The invariant holds throughout, for any arguments of the calls.
THEOREM InductiveInvariant == Spec => []IInv
<1>1. Init => IInv
  BY InitInv
<1>2. IInv /\ [Next]_vars => IInv'
  BY NextInv
<1> QED
  BY <1>1, <1>2, PTL DEF Spec

\* Every variable keeps its type; in particular what is written is bytes
\* (FileOutStream::write).
THEOREM TypeCorrect == Spec => []TypeOK
<1>1. IInv => TypeOK
  BY DEF IInv
<1> QED
  BY <1>1, InductiveInvariant, PTL

\* GetByteArrayRegion stays in the array and in the application's buffer
\* (InStream::read).
THEOREM CopyStaysInside == Spec => []NoOverrun
<1>1. IInv => NoOverrun
  BY DEF IInv, NoOverrun, ArrayInv, ReadInv
<1> QED
  BY <1>1, InductiveInvariant, PTL

\* What a read into a buffer hands over (InStream::read).
THEOREM BytesAreDelivered == Spec => []DeliveredBytes
<1>1. IInv => DeliveredBytes
  BY DEF IInv, DeliveredBytes, ReadInv, Holds
<1> QED
  BY <1>1, InductiveInvariant, PTL

\* Only a read whose array cannot be allocated deletes what it does not own
\* (the handler of InStream::read).
THEOREM HandlerIsSafeWithArray == Spec => JunkOnlyWithoutArray
<1> DEFINE A == otherRef' # otherRef \/ pc' = "undefined"
                  => call.fn = "read" /\ array = <<>> /\ pos' = pos
<1>1. ASSUME IInv, [Next]_vars PROVE [A]_vars
  <2>1. CASE Handler
    BY <1>1, <2>1 DEF Handler, IInv, CallRuns, ArrayInv, javaVars, Throw
  <2>2. CASE ApplicationCall
    BY <2>2 DEF ApplicationCall, ReadByte, Seek, Skip, WriteByte, Flush, Close, StartCall, Plain,
                Return, Throw
  <2>3. CASE NewByteArray \/ NewByteArrayFails \/ ReadMethod \/ WriteMethod \/ MethodThrows
             \/ CopyOut \/ FreeArray
    BY <2>3 DEF NewByteArray, NewByteArrayFails, ReadMethod, WriteMethod, MethodThrows, CopyOut,
                FreeArray, Return, Throw
  <2> QED
    BY <1>1, <2>1, <2>2, <2>3 DEF Next, LibraryStep
<1> QED
  BY <1>1, InductiveInvariant, PTL DEF Spec, JunkOnlyWithoutArray

\* write hands over the part of the buffer that was asked for, or all of it
\* (OutStream::write).
THEOREM WritesAsAsked == Spec => WritesWhatIsAsked
<1> DEFINE A == written' # written /\ call'.fn = "write" =>
                  \/ written' = written \o Asked(call')
                  \/ threw' /\ \E n \in 1..Len(Asked(call')) :
                                 written' = written \o SubSeq(Asked(call'), 1, n)
<1>1. ASSUME IInv, WriteMethod PROVE A
  BY <1>1, AskedIsWritten DEF WriteMethod, Accepted
<1>4. ASSUME IInv, MethodThrows PROVE A
  <2> SUFFICES ASSUME written' # written
               PROVE  threw' /\ \E n \in 1..Len(Asked(call')) :
                                   written' = written \o SubSeq(Asked(call'), 1, n)
    OBVIOUS
  <2>1. Accepted
    BY <1>4 DEF MethodThrows, Accepted
  <2>2. PICK n \in 0..Len(Passed) : written' = written \o SubSeq(Passed, 1, n)
    BY <1>4, <2>1 DEF MethodThrows, Accepted
  <2>3. Passed = Asked(call) /\ call' = call /\ Len(Passed) \in Nat
    BY <1>4, <2>1, AskedIsWritten, WrittenType DEF MethodThrows
  <2>4. n # 0
    <3> SUFFICES ASSUME n = 0 PROVE FALSE
      OBVIOUS
    <3>1. SubSeq(Passed, 1, n) = <<>>
      <4>1. SubSeq(Passed, 1, 0) \in Seq(Bytes) /\ Len(SubSeq(Passed, 1, 0)) = 0
        BY <1>4, <2>1, <2>3, WrittenType, PartIsSeq
      <4> QED
        BY <4>1, EmptySeq
    <3>2. written \o <<>> = written
      BY <1>4, ConcatEmptySeq DEF IInv, TypeOK
    <3> QED
      BY <2>2, <3>1, <3>2
  <2>5. n \in 1..Len(Asked(call'))
    BY <2>2, <2>3, <2>4
  <2>6. threw'
    BY <1>4, <2>1, Zenon DEF MethodThrows, Accepted, Throw
  <2> QED
    BY <2>2, <2>3, <2>5, <2>6, Zenon
<1>2. ASSUME [Next]_vars, ~WriteMethod, ~MethodThrows PROVE [A]_vars
  <2>1. CASE WriteByte
    BY <2>1 DEF WriteByte, Plain, Request
  <2>2. CASE ReadByte \/ Seek \/ Skip \/ Flush \/ Close \/ StartCall
    BY <2>2 DEF ReadByte, Seek, Skip, Flush, Close, StartCall, javaVars
  <2>3. CASE NewByteArray \/ NewByteArrayFails \/ ReadMethod \/ CopyOut \/ FreeArray \/ Handler
    BY <2>3 DEF NewByteArray, NewByteArrayFails, ReadMethod, CopyOut, FreeArray, Handler, javaVars
  <2> QED
    BY <1>2, <2>1, <2>2, <2>3 DEF Next, ApplicationCall, LibraryStep
<1>3. IInv /\ [Next]_vars => [A]_vars
  BY <1>1, <1>2, <1>4
<1> QED
  BY <1>3, InductiveInvariant, PTL DEF Spec, WritesWhatIsAsked

-------------------------------------------------------------------------------
(* The refinement of StreamSpec *)

LEMMA GotNothing ==
  ASSUME result <= 0 \/ call.fn # "read" PROVE got = <<>>
BY DEF got

\* Each call without a buffer, and the start of one, moves the cursor or writes.
LEMMA ApplicationCallRefines ==
  ASSUME IInv, ApplicationCall, IInv' PROVE [Abstract!Next]_<<pos, got, written>>
<1>1. got' = <<>>
  <2>1. call'.fn # "read" \/ result' = 0
    <3>1. CASE StartCall
      BY <3>1 DEF StartCall
    <3>2. ASSUME NEW fn \in {"readByte", "seek", "skip", "writeByte", "flush", "close", "closeOrCancel"},
                 Plain(fn)
          PROVE  call'.fn # "read"
      BY <3>2 DEF Plain, Request
    <3>3. CASE ReadByte \/ Seek \/ Skip \/ WriteByte \/ Flush
      BY <3>2, <3>3 DEF ReadByte, Seek, Skip, WriteByte, Flush
    <3>4. CASE Close
      <4>1. Plain("close") \/ Plain("closeOrCancel")
        BY <3>4, Zenon DEF Close
      <4> QED
        BY <3>2, <4>1
    <3> QED
      BY <3>1, <3>3, <3>4 DEF ApplicationCall
  <2> QED
    BY <2>1 DEF got
<1>2. pos' \in 0..Len(File)
  BY DEF IInv, TypeOK
<1>3. CASE WriteByte
  <2>1. got = <<>>
    BY <1>3, GotNothing DEF WriteByte, IInv, CallRuns
  <2>2. pos' = pos /\ (written' = written \/ \E v \in Values : written' = Append(written, v % 256))
    BY <1>3, Zenon DEF WriteByte
  <2>3. IsPrefix(written, written')
    BY <2>2, AppendIsPrefix DEF IInv, TypeOK
  <2> QED
    BY <1>1, <2>1, <2>2, <2>3 DEF Abstract!Next, Abstract!Write, Abstract!IsPrefix, IsPrefix
<1>4. CASE ~WriteByte
  <2>1. written' = written
    BY <1>4 DEF ApplicationCall, ReadByte, Seek, Skip, Flush, Close, StartCall, javaVars
  <2> QED
    BY <1>1, <1>2, <2>1 DEF Abstract!Next, Abstract!Move
<1> QED
  BY <1>3, <1>4

\* The bytes of the file cross when Java fills the array.
LEMMA ReadMethodRefines ==
  ASSUME IInv, ReadMethod, IInv' PROVE [Abstract!Next]_<<pos, got, written>>
<1>1. written' = written /\ call' = call /\ pos' \in 0..Len(File)
  BY DEF ReadMethod, IInv, TypeOK
<1>2. CASE pc' = "free"
  <2>1. pos' = pos /\ result' <= 0 /\ result = 0
    BY <1>2 DEF ReadMethod, IInv, ReadInv
  <2>2. got' = <<>>
    BY <2>1 DEF got
  <2> QED
    BY <1>1, <2>1, <2>2, GotNothing
<1>3. CASE pc' = "copy" /\ JavaOff(call) # 0
  <2>1. got' = <<>>
    BY <1>1, <1>3 DEF got
  <2> QED
    BY <1>1, <2>1 DEF Abstract!Next, Abstract!Move
<1>4. CASE pc' = "copy" /\ JavaOff(call) = 0
  <2>7. PICK n \in 1..JavaLen(call) : result' = n /\ pos' = pos + n
    BY <1>4 DEF ReadMethod
  <2>8. result' \in 1..Len(array') /\ array' \in Seq(Bytes) /\ pos \in Nat
    BY <1>4 DEF IInv, ReadInv, TypeOK
  <2>1. n \in Nat /\ n >= 1 /\ pos \in Nat /\ n <= Len(array')
    BY <2>7, <2>8, LenProperties
  <2>3. \A k \in 1..n : array'[k] = File[pos + k]
    <3> SUFFICES ASSUME NEW k \in 1..n PROVE array'[k] = File[pos + k]
      OBVIOUS
    <3>1. array'[k] = IF k <= JavaOff(call') THEN 0 ELSE File[pos' - n + k - JavaOff(call')]
      BY <1>4, <2>7 DEF IInv, ReadInv, Holds
    <3>2. JavaOff(call') = 0 /\ ~(k <= 0) /\ pos' - n + k - 0 = pos + k
      BY <1>1, <1>4, <2>1, <2>7
    <3> QED
      BY <3>1, <3>2
  <2>4. SubSeq(array', 1, n) = SubSeq(File, pos + 1, pos')
    <3>1. SubSeq(array', 1, n) \in Seq(Bytes) /\ Len(SubSeq(array', 1, n)) = n
          /\ \A k \in 1..n : SubSeq(array', 1, n)[k] = array'[k]
      BY <2>1, <2>8, LenProperties, PartIsSeq, PartElements
    <3>2. SubSeq(File, pos + 1, pos') \in Seq(Bytes) /\ Len(SubSeq(File, pos + 1, pos')) = n
          /\ \A k \in 1..n : SubSeq(File, pos + 1, pos')[k] = File[pos + k]
      BY <1>1, <2>1, <2>7, DataIsBytes, LenProperties, PartIsSeq, PartElements
    <3> QED
      BY <2>1, <2>7, <2>3, <3>1, <3>2, SeqEqual
  <2>5. got' = SubSeq(array', 1, n)
    <3>1. call'.fn = "read"
      BY <1>1 DEF ReadMethod, IInv, CallRuns
    <3> QED
      BY <1>1, <1>4, <2>1, <2>7, <3>1 DEF got
  <2>6. pos' \in pos..Len(File)
    BY <1>1, <2>1, <2>7, DataIsBytes, LenProperties
  <2> QED
    BY <1>1, <2>4, <2>5, <2>6 DEF Abstract!Next, Abstract!Read
<1> QED
  BY <1>2, <1>3, <1>4 DEF ReadMethod

LEMMA CopyOutRefines ==
  ASSUME IInv, CopyOut, IInv' PROVE UNCHANGED <<pos, got, written>>
<1>1. /\ result \in 1..call.length /\ Len(buff) = call.length /\ Len(array) = call.length
      /\ call.length \in Int /\ array \in Seq(Bytes) /\ buff \in Seq(Bytes)
  BY ZerosType, CallType DEF CopyOut, IInv, TypeOK, CallRuns, ArrayInv, BuffInv, ReadInv
<1>2. buff' \in Seq(Bytes) /\ Len(buff') \in Nat /\ result <= Len(buff')
  BY LenProperties DEF CopyOut, IInv, TypeOK, CallRuns, ReadInv
<1>3. \A k \in 1..result : buff'[k] = array[k]
  <2> DOMAIN buff = 1..call.length
    BY <1>1, LenProperties
  <2> QED
    BY <1>1 DEF CopyOut
<1>4. SubSeq(buff', 1, result) = SubSeq(array, 1, result)
  <2>1. SubSeq(array, 1, result) \in Seq(Bytes) /\ Len(SubSeq(array, 1, result)) = result
        /\ \A k \in 1..result : SubSeq(array, 1, result)[k] = array[k]
    BY <1>1, PartIsSeq, PartElements
  <2>2. SubSeq(buff', 1, result) \in Seq(Bytes) /\ Len(SubSeq(buff', 1, result)) = result
        /\ \A k \in 1..result : SubSeq(buff', 1, result)[k] = buff'[k]
    BY <1>1, <1>2, PartIsSeq, PartElements
  <2> QED
    BY <1>1, <1>3, <2>1, <2>2, SeqEqual
<1>5. call' = call /\ result' = result /\ pc = "copy" /\ pc' = "free" /\ UNCHANGED javaVars
  BY DEF CopyOut
<1> QED
  BY <1>4, <1>5 DEF got, javaVars

LEMMA WriteMethodRefines ==
  ASSUME IInv, WriteMethod, IInv' PROVE [Abstract!Next]_<<pos, got, written>>
<1>1. got = <<>> /\ got' = <<>> /\ pos' = pos
  BY DEF WriteMethod, IInv, CallRuns, got
<1>2. Passed \in Seq(Bytes)
  BY WrittenType DEF WriteMethod, Accepted
<1>3. IsPrefix(written, written')
  BY <1>2, ConcatIsPrefix DEF WriteMethod, IInv, TypeOK
<1> QED
  BY <1>1, <1>3 DEF Abstract!Next, Abstract!Write, Abstract!IsPrefix, IsPrefix

\* Streams implements StreamSpec (InStream, OutStream).
THEOREM Refinement == Spec => AbstractSpec
<1>1. Init => Abstract!Init
  BY DEF Init, Abstract!Init, got, Request
<1>2. ASSUME IInv, IInv', [Next]_vars PROVE [Abstract!Next]_<<pos, got, written>>
  <2>1. CASE NewByteArray \/ NewByteArrayFails \/ Handler
    <3>1. result = 0 /\ result' = 0 /\ UNCHANGED <<pos, written>>
      BY <1>2, <2>1 DEF NewByteArray, NewByteArrayFails, Handler, Throw, IInv, ReadInv, javaVars
    <3> QED
      BY <3>1 DEF got
  <2>2. CASE MethodThrows
    <3>1. result = 0 /\ result' = 0 /\ pos' \in 0..Len(File)
      BY <1>2, <2>2 DEF MethodThrows, Throw, IInv, ReadInv, TypeOK
    <3>2. got = <<>> /\ got' = <<>>
      BY <3>1 DEF got
    <3>3. ASSUME written' = written PROVE Abstract!Next
      BY <3>1, <3>2, <3>3 DEF Abstract!Next, Abstract!Move
    <3>4. ASSUME written' # written PROVE Abstract!Next
      <4>1. Accepted /\ pos' = pos
        BY <2>2, <3>4 DEF MethodThrows, Accepted
      <4>2. PICK n \in 0..Len(Passed) : written' = written \o SubSeq(Passed, 1, n)
        BY <2>2, <4>1 DEF MethodThrows, Accepted
      <4>3. SubSeq(Passed, 1, n) \in Seq(Bytes) /\ written \in Seq(Bytes)
        BY <1>2, <4>1, WrittenType DEF IInv, TypeOK
      <4>4. IsPrefix(written, written')
        BY <4>2, <4>3, ConcatIsPrefix
      <4> QED
        BY <3>2, <4>1, <4>4 DEF Abstract!Next, Abstract!Write, Abstract!IsPrefix, IsPrefix
    <3> QED
      BY <3>3, <3>4
  <2>3. CASE FreeArray
    BY <2>3 DEF FreeArray, Return, got, javaVars
  <2>4. CASE UNCHANGED vars
    BY <2>4 DEF vars, javaVars, got
  <2> QED
    BY <1>2, <2>1, <2>2, <2>3, <2>4, ApplicationCallRefines, ReadMethodRefines, CopyOutRefines,
       WriteMethodRefines DEF Next, LibraryStep
<1> QED
  BY <1>1, <1>2, InductiveInvariant, PTL DEF Spec, AbstractSpec, Abstract!Spec, Abstract!vars
===============================================================================
