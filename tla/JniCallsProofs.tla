---------------------------- MODULE JniCallsProofs -----------------------------
(***************************************************************************)
(* Proofs about JniCalls, for any class names and buffers and any number   *)
(* of exceptions.                                                          *)
(***************************************************************************)
EXTENDS JniCalls, FiniteSetTheorems, SequenceTheorems, TLAPS

-------------------------------------------------------------------------------
(* The inductive invariant *)

Frames == [fn : Functions, at : Points, ptr : Pointers, detail : Details \cup {NoDetail}]
Exceptions == [kind : {"none", "native", "std"}, detail : Details \cup {NoDetail}]

TypeInv ==
  /\ stack \in Seq(Frames)
  /\ exc \in Exceptions
  /\ pending \in BOOLEAN
  /\ locked \in BOOLEAN
  /\ faults \in 0..MaxFaults
  /\ cache \in [Pointers -> Names \cup {Writer, Printer, NoClass}]
  /\ text \in [Pointers -> Names \cup {Writer, Printer}]
  /\ refs \subseteq Pointers
  /\ live \subseteq Details

\* Where a function can be; it owns a throwable only while it builds an exception.
Placed(f) ==
  /\ \/ f.fn \in Callers /\ f.at \in {"find", "method", "java", "check", "throw", "undefined"}
     \/ f.fn = "get" /\ f.at \in {"lock", "find", "ref", "refFailed", "insert"}
     \/ f.fn = "getClassName" /\ f.at \in {"name", "throw"}
     \/ f.fn = "trace" /\ f.at \in {"writer", "printer", "class", "method", "print", "call", "text"}
  /\ f.detail # NoDetail => f.at = "throw"

\* Where it can be while another one runs on top of it.
Waiting(f) ==
  \/ f.fn \in Callers /\ f.at \in {"method", "throw"}
  \/ f.fn = "get" /\ f.at = "refFailed"
  \/ f.fn = "getClassName" /\ f.at = "throw"
  \/ f.fn = "trace" /\ f.at \in {"printer", "class", "text"}

\* An exception is built under getThrowableStackTrace, which lets none pass.
FramesInv ==
  /\ \A k \in 1..Len(stack) : Placed(stack[k])
  /\ \A k \in 2..Len(stack) : /\ Waiting(stack[k])
                              /\ stack[k].at = "throw" => stack[k - 1].fn = "trace"

\* The frame through which an exception passes owns nothing any more.
ExcInv ==
  /\ exc.kind # "native" => exc.detail = NoDetail
  /\ exc # NoException /\ stack # <<>> =>
       stack[1].detail = NoDetail /\ (stack[1].fn = "get" => stack[1].at # "lock")

\* DetailsOwned, element by element.
OwnedInv ==
  /\ \A d \in live : d = exc.detail \/ \E k \in 1..Len(stack) : stack[k].detail = d
  /\ exc.detail # NoDetail => exc.detail \in live
  /\ \A k \in 1..Len(stack) :
       stack[k].detail # NoDetail => stack[k].detail \in live /\ stack[k].detail # exc.detail
  /\ \A j, k \in 1..Len(stack) :
       stack[j].detail = stack[k].detail /\ stack[j].detail # NoDetail => j = k

\* A call of get that serves a miss: there is one, if the lock is held, and its
\* class is not in the cache.
Serves(f) == f.fn = "get" /\ f.at # "lock"
ServeInv ==
  /\ \A j, k \in 1..Len(stack) : Serves(stack[j]) /\ Serves(stack[k]) => j = k
  /\ locked <=> \E k \in 1..Len(stack) : Serves(stack[k])
  /\ \A k \in 1..Len(stack) : Serves(stack[k]) => cache[stack[k].ptr] = NoClass

RefsInv ==
  /\ \A p \in Pointers : cache[p] # NoClass => p \in refs
  /\ \A k \in 1..Len(stack) : stack[k].at = "insert" => stack[k].ptr \in refs
  /\ \A p \in refs : \/ cache[p] # NoClass
                     \/ \E k \in 1..Len(stack) : stack[k].ptr = p /\ stack[k].at = "insert"

\* There is a Java exception for each throwable that is kept or pending.
LiveInv == Cardinality(live) + (IF pending THEN 1 ELSE 0) + faults <= MaxFaults

StackInv == FramesInv /\ OwnedInv /\ ServeInv /\ RefsInv

IInv == TypeInv /\ ExcInv /\ StackInv /\ LiveInv

-------------------------------------------------------------------------------
(* The stack *)

\* The top is the first element.
LEMMA TopIsFirst ==
  ASSUME stack \in Seq(Frames), stack # <<>>
  PROVE  /\ Top = stack[1] /\ Top \in Frames
         /\ Len(stack) \in Nat /\ 1 <= Len(stack)
BY EmptySeq, LenProperties, ElementOfSeq DEF Top

\* What lies below the top.
LEMMA RestOfStack ==
  ASSUME stack \in Seq(Frames), stack # <<>>
  PROVE  /\ Tail(stack) \in Seq(Frames) /\ Len(Tail(stack)) = Len(stack) - 1
         /\ Len(stack) \in Nat /\ 1 <= Len(stack)
         /\ \A k \in 1..Len(stack) - 1 : Tail(stack)[k] = stack[k + 1]
<1>1. Len(stack) \in Nat /\ 1 <= Len(stack)
  BY TopIsFirst
<1> QED
  BY <1>1, HeadTailProperties

\* What a return does.
LEMMA ReturnEffect ==
  ASSUME stack \in Seq(Frames), stack # <<>>, Return
  PROVE  /\ stack' \in Seq(Frames) /\ Len(stack') = Len(stack) - 1
         /\ Len(stack) \in Nat /\ 1 <= Len(stack)
         /\ \A k \in 1..Len(stack) - 1 : stack'[k] = stack[k + 1]
         /\ \A k \in 2..Len(stack) : stack[k] = stack'[k - 1]
<1> DEFINE rest == Tail(stack)
<1>1. /\ rest \in Seq(Frames) /\ Len(rest) = Len(stack) - 1
      /\ Len(stack) \in Nat /\ 1 <= Len(stack)
      /\ \A k \in 1..Len(stack) - 1 : rest[k] = stack[k + 1]
  BY RestOfStack
<1>2. stack' = rest
  BY DEF Return
<1> HIDE DEF rest
<1>3. \A k \in 2..Len(stack) : stack[k] = rest[k - 1]
  <2> SUFFICES ASSUME NEW k \in 2..Len(stack) PROVE stack[k] = rest[k - 1]
    OBVIOUS
  <2>1. k - 1 \in 1..Len(stack) - 1 /\ (k - 1) + 1 = k
    BY <1>1
  <2> QED
    BY <1>1, <2>1
<1> QED
  BY <1>1, <1>2, <1>3

\* What the replacement of the top does.
LEMMA GotoEffect ==
  ASSUME stack \in Seq(Frames), stack # <<>>, NEW x \in Frames, stack' = <<x>> \o Tail(stack)
  PROVE  /\ stack' \in Seq(Frames) /\ Len(stack') = Len(stack)
         /\ Len(stack) \in Nat /\ 1 <= Len(stack)
         /\ stack'[1] = x
         /\ \A k \in 2..Len(stack) : stack'[k] = stack[k]
<1> DEFINE rest == Tail(stack)
           new == <<x>>
<1>1. /\ rest \in Seq(Frames) /\ Len(rest) = Len(stack) - 1
      /\ Len(stack) \in Nat /\ 1 <= Len(stack)
      /\ \A k \in 1..Len(stack) - 1 : rest[k] = stack[k + 1]
  BY RestOfStack
<1>2. new \in Seq(Frames) /\ Len(new) = 1 /\ new[1] = x
  OBVIOUS
<1> HIDE DEF rest, new
<1>3. /\ new \o rest \in Seq(Frames) /\ Len(new \o rest) = Len(new) + Len(rest)
      /\ \A i \in 1..Len(new) + Len(rest) :
           (new \o rest)[i] = IF i <= Len(new) THEN new[i] ELSE rest[i - Len(new)]
  <2>1. new \in Seq(Frames) /\ rest \in Seq(Frames)
    BY <1>1, <1>2
  <2> QED
    BY <2>1, ConcatProperties
<1>4. stack' = new \o rest
  BY DEF rest, new
<1>5. \A k \in 2..Len(stack) : stack'[k] = stack[k]
  <2> SUFFICES ASSUME NEW k \in 2..Len(stack) PROVE stack'[k] = stack[k]
    OBVIOUS
  <2>1. k - 1 \in 1..Len(stack) - 1 /\ (k - 1) + 1 = k /\ k \in 1..1 + (Len(stack) - 1) /\ ~(k <= 1)
    BY <1>1
  <2>2. stack'[k] = rest[k - 1]
    BY <1>1, <1>2, <1>3, <1>4, <2>1
  <2> QED
    BY <1>1, <2>1, <2>2
<1>6. stack'[1] = x
  BY <1>1, <1>2, <1>3, <1>4
<1> QED
  BY <1>1, <1>2, <1>3, <1>4, <1>5, <1>6

\* What a call does, which also moves its caller on.
LEMMA CallEffect ==
  ASSUME stack \in Seq(Frames), stack # <<>>, NEW f \in Frames, NEW x \in Frames,
         stack' = <<f, x>> \o Tail(stack)
  PROVE  /\ stack' \in Seq(Frames) /\ Len(stack') = Len(stack) + 1
         /\ Len(stack) \in Nat /\ 1 <= Len(stack)
         /\ stack'[1] = f /\ stack'[2] = x
         /\ \A k \in 3..Len(stack) + 1 : stack'[k] = stack[k - 1]
         /\ \A k \in 2..Len(stack) : stack[k] = stack'[k + 1]
<1> DEFINE rest == Tail(stack)
           new == <<f, x>>
<1>1. /\ rest \in Seq(Frames) /\ Len(rest) = Len(stack) - 1
      /\ Len(stack) \in Nat /\ 1 <= Len(stack)
      /\ \A k \in 1..Len(stack) - 1 : rest[k] = stack[k + 1]
  BY RestOfStack
<1>2. new \in Seq(Frames) /\ Len(new) = 2 /\ new[1] = f /\ new[2] = x
  OBVIOUS
<1> HIDE DEF rest, new
<1>3. /\ new \o rest \in Seq(Frames) /\ Len(new \o rest) = Len(new) + Len(rest)
      /\ \A i \in 1..Len(new) + Len(rest) :
           (new \o rest)[i] = IF i <= Len(new) THEN new[i] ELSE rest[i - Len(new)]
  BY <1>1, <1>2, ConcatProperties
<1>4. stack' = new \o rest
  BY DEF rest, new
<1>5. \A k \in 3..Len(stack) + 1 : stack'[k] = stack[k - 1]
  <2> SUFFICES ASSUME NEW k \in 3..Len(stack) + 1 PROVE stack'[k] = stack[k - 1]
    OBVIOUS
  <2>1. k - 2 \in 1..Len(stack) - 1 /\ (k - 2) + 1 = k - 1 /\ k \in 1..2 + (Len(stack) - 1) /\ ~(k <= 2)
    BY <1>1
  <2>2. stack'[k] = rest[k - 2]
    BY <1>1, <1>2, <1>3, <1>4, <2>1
  <2> QED
    BY <1>1, <2>1, <2>2
<1>6. \A k \in 2..Len(stack) : stack[k] = stack'[k + 1]
  <2> SUFFICES ASSUME NEW k \in 2..Len(stack) PROVE stack[k] = stack'[k + 1]
    OBVIOUS
  <2>1. k + 1 \in 3..Len(stack) + 1 /\ (k + 1) - 1 = k
    BY <1>1
  <2> QED
    BY <1>5, <2>1
<1>7. stack'[1] = f /\ stack'[2] = x
  BY <1>1, <1>2, <1>3, <1>4
<1> QED
  BY <1>1, <1>2, <1>3, <1>4, <1>5, <1>6, <1>7

-------------------------------------------------------------------------------
(* What each kind of step keeps *)

\* The indices of a stack from which the top is taken away.
LEMMA PopIndices ==
  ASSUME IInv, stack # <<>>, Return
  PROVE  /\ stack' \in Seq(Frames) /\ Len(stack') = Len(stack) - 1
         /\ Len(stack) \in Nat /\ 1 \in 1..Len(stack)
         /\ \A k \in 1..Len(stack) - 1 :
              stack'[k] = stack[k + 1] /\ k + 1 \in 2..Len(stack) /\ k + 1 \in 1..Len(stack)
         /\ \A k \in 2..Len(stack) : stack[k] = stack'[k - 1] /\ k - 1 \in 1..Len(stack) - 1
         /\ \A k \in 1..Len(stack) : k = 1 \/ k \in 2..Len(stack)
<1>1. stack \in Seq(Frames)
  BY DEF IInv, TypeInv
<1>2. /\ stack' \in Seq(Frames) /\ Len(stack') = Len(stack) - 1
      /\ Len(stack) \in Nat /\ 1 <= Len(stack)
      /\ \A k \in 1..Len(stack) - 1 : stack'[k] = stack[k + 1]
      /\ \A k \in 2..Len(stack) : stack[k] = stack'[k - 1]
  BY <1>1, ReturnEffect
<1> QED
  BY <1>2

\* The frames below keep their place.
LEMMA PopFrames ==
  ASSUME IInv, stack # <<>>, Return
  PROVE  FramesInv'
<1> DEFINE n == Len(stack)
<1>1. /\ Len(stack') = n - 1
      /\ n \in Nat /\ 1 \in 1..n
      /\ \A k \in 1..n - 1 : stack'[k] = stack[k + 1] /\ k + 1 \in 2..n /\ k + 1 \in 1..n
  BY PopIndices
<1> HIDE DEF n
<1>2. \A k \in 1..n - 1 : Placed(stack'[k])
  BY <1>1 DEF IInv, StackInv, FramesInv, n
<1>3. ASSUME NEW k \in 2..n - 1
      PROVE  Waiting(stack'[k]) /\ (stack'[k].at = "throw" => stack'[k - 1].fn = "trace")
  <2>1. k \in 1..n - 1 /\ k - 1 \in 1..n - 1 /\ k + 1 \in 2..n /\ (k + 1) - 1 = k /\ (k - 1) + 1 = k
    BY <1>1
  <2>2. stack'[k] = stack[k + 1] /\ stack'[k - 1] = stack[k]
    BY <1>1, <2>1
  <2> QED
    BY <2>1, <2>2 DEF IInv, StackInv, FramesInv, n
<1> QED
  BY <1>1, <1>2, <1>3 DEF FramesInv, Placed, Waiting

\* The exception goes on, or is suppressed and its throwable deleted.
LEMMA PopOwned ==
  ASSUME IInv, stack # <<>>, Return, stack[1].detail = NoDetail,
         \/ exc'.detail = exc.detail /\ live' = live
         \/ exc'.detail = NoDetail /\ live' = live \ {exc.detail}
  PROVE  OwnedInv'
<1> DEFINE n == Len(stack)
<1>1. /\ Len(stack') = n - 1
      /\ n \in Nat /\ 1 \in 1..n
      /\ \A k \in 1..n - 1 : stack'[k] = stack[k + 1] /\ k + 1 \in 1..n
      /\ \A k \in 2..n : stack[k] = stack'[k - 1] /\ k - 1 \in 1..n - 1
      /\ \A k \in 1..n : k = 1 \/ k \in 2..n
  BY PopIndices
<1> HIDE DEF n
<1>2. ASSUME NEW d \in live', d # exc'.detail
      PROVE  \E k \in 1..n - 1 : stack'[k].detail = d
  <2>1. d \in live /\ d # exc.detail
    BY <1>2
  <2>2. PICK k \in 1..n : stack[k].detail = d
    BY <2>1 DEF IInv, StackInv, OwnedInv, n
  <2>3. d # NoDetail
    BY <2>1 DEF IInv, TypeInv, Details, NoDetail
  <2>4. k \in 2..n
    BY <1>1, <2>2, <2>3
  <2> QED
    BY <1>1, <2>2, <2>4
<1>3. ASSUME NEW k \in 1..n - 1, stack'[k].detail # NoDetail
      PROVE  stack'[k].detail \in live' /\ stack'[k].detail # exc'.detail
  <2>1. stack'[k].detail \in live /\ stack'[k].detail # exc.detail
    BY <1>1, <1>3 DEF IInv, StackInv, OwnedInv, n
  <2> QED
    BY <1>3, <2>1
<1>4. ASSUME NEW j \in 1..n - 1, NEW k \in 1..n - 1,
             stack'[j].detail = stack'[k].detail, stack'[j].detail # NoDetail
      PROVE  j = k
  <2>1. j + 1 = k + 1
    BY <1>1, <1>4 DEF IInv, StackInv, OwnedInv, n
  <2> QED
    BY <1>1, <2>1
<1>5. exc'.detail # NoDetail => exc'.detail \in live'
  BY DEF IInv, StackInv, OwnedInv
<1>6. (\A d \in live : d = exc.detail \/ \E k \in 1..Len(stack) : stack[k].detail = d)'
  BY <1>1, <1>2
<1>7. (\A k \in 1..Len(stack) :
         stack[k].detail # NoDetail => stack[k].detail \in live /\ stack[k].detail # exc.detail)'
  BY <1>1, <1>3
<1>8. (\A j, k \in 1..Len(stack) :
         stack[j].detail = stack[k].detail /\ stack[j].detail # NoDetail => j = k)'
  BY <1>1, <1>4
<1> QED
  BY <1>5, <1>6, <1>7, <1>8 DEF OwnedInv

\* What leaves is no call of get that serves a miss: the cache stays as it is.
LEMMA PopServes ==
  ASSUME IInv, stack # <<>>, Return, ~Serves(stack[1]),
         locked' = locked, cache' = cache, refs' = refs
  PROVE  ServeInv' /\ RefsInv'
<1> DEFINE n == Len(stack)
<1>1. /\ Len(stack') = n - 1
      /\ n \in Nat /\ 1 \in 1..n
      /\ \A k \in 1..n - 1 : stack'[k] = stack[k + 1] /\ k + 1 \in 1..n
      /\ \A k \in 2..n : stack[k] = stack'[k - 1] /\ k - 1 \in 1..n - 1
      /\ \A k \in 1..n : k = 1 \/ k \in 2..n
  BY PopIndices
<1> HIDE DEF n
<1>2. ServeInv'
  <2>1. ASSUME NEW j \in 1..n - 1, NEW k \in 1..n - 1, Serves(stack'[j]), Serves(stack'[k]) PROVE j = k
    <3>1. j + 1 = k + 1
      BY <1>1, <2>1 DEF IInv, StackInv, ServeInv, n
    <3> QED
      BY <1>1, <3>1
  <2>2. (\E k \in 1..n : Serves(stack[k])) <=> (\E k \in 1..n - 1 : Serves(stack'[k]))
    BY <1>1
  <2>3. ASSUME NEW k \in 1..n - 1, Serves(stack'[k]) PROVE cache'[stack'[k].ptr] = NoClass
    <3>1. stack'[k] = stack[k + 1] /\ k + 1 \in 1..Len(stack)
      BY <1>1 DEF n
    <3>2. Serves(stack[k + 1])
      BY <2>3, <3>1
    <3>3. cache[stack[k + 1].ptr] = NoClass
      BY <3>1, <3>2 DEF IInv, StackInv, ServeInv
    <3> QED
      BY <3>1, <3>3
  <2>4. locked' <=> \E k \in 1..n - 1 : Serves(stack'[k])
    BY <2>2 DEF IInv, StackInv, ServeInv, n
  <2> QED
    BY <1>1, <2>1, <2>3, <2>4 DEF ServeInv, Serves
<1>3. RefsInv'
  <2>1. stack[1].at # "insert"
    BY <1>1 DEF IInv, StackInv, FramesInv, Placed, Serves, n, Callers
  <2>2. ASSUME NEW p \in refs, cache[p] = NoClass
        PROVE  \E k \in 1..n - 1 : stack'[k].ptr = p /\ stack'[k].at = "insert"
    <3>1. PICK k \in 1..n : stack[k].ptr = p /\ stack[k].at = "insert"
      BY <2>2 DEF IInv, StackInv, RefsInv, n
    <3> QED
      BY <1>1, <2>1, <3>1
  <2>3. \A k \in 1..n - 1 : stack'[k].at = "insert" => stack'[k].ptr \in refs
    BY <1>1 DEF IInv, StackInv, RefsInv, n
  <2>4. (\A p \in refs : \/ cache[p] # NoClass
                         \/ \E k \in 1..Len(stack) : stack[k].ptr = p /\ stack[k].at = "insert")'
    BY <1>1, <2>2
  <2>5. (\A k \in 1..Len(stack) : stack[k].at = "insert" => stack[k].ptr \in refs)'
    BY <1>1, <2>3
  <2>6. (\A p \in Pointers : cache[p] # NoClass => p \in refs)'
    BY DEF IInv, StackInv, RefsInv
  <2> QED
    BY <2>4, <2>5, <2>6 DEF RefsInv
<1> QED
  BY <1>2, <1>3

\* A function returns, or an exception passes through it.
LEMMA PopKeeps ==
  ASSUME IInv, stack # <<>>, Return, stack[1].detail = NoDetail, ~Serves(stack[1]),
         \/ exc'.detail = exc.detail /\ live' = live
         \/ exc'.detail = NoDetail /\ live' = live \ {exc.detail},
         locked' = locked, cache' = cache, refs' = refs
  PROVE  StackInv' /\ stack' \in Seq(Frames)
BY PopIndices, PopFrames, PopOwned, PopServes DEF StackInv

\* The miss is served, and the class is in the cache; or it is not, and the
\* reference that was made for it is deleted.
LEMMA ServedKeeps ==
  ASSUME IInv, stack # <<>>, Return, Serves(stack[1]), stack[1].detail = NoDetail,
         exc'.detail = exc.detail, live' = live, ~locked',
         \/ /\ stack[1].at = "insert" /\ refs' = refs
            /\ \E c \in Names \cup {Writer, Printer} : cache' = [cache EXCEPT ![stack[1].ptr] = c]
         \/ /\ cache' = cache
            /\ refs' = IF stack[1].at = "insert" THEN refs \ {stack[1].ptr} ELSE refs
  PROVE  StackInv' /\ stack' \in Seq(Frames)
<1> DEFINE n == Len(stack)
           p1 == stack[1].ptr
<1>1. /\ stack' \in Seq(Frames) /\ Len(stack') = n - 1
      /\ n \in Nat /\ 1 \in 1..n
      /\ \A k \in 1..n - 1 : stack'[k] = stack[k + 1] /\ k + 1 \in 1..n /\ k + 1 # 1
      /\ \A k \in 2..n : stack[k] = stack'[k - 1] /\ k - 1 \in 1..n - 1
      /\ \A k \in 1..n : k = 1 \/ k \in 2..n
  BY PopIndices
<1>2. /\ cache \in [Pointers -> Names \cup {Writer, Printer, NoClass}]
      /\ refs \subseteq Pointers
      /\ p1 \in Pointers
  <2>1. stack[1] \in Frames
    BY <1>1, ElementOfSeq DEF IInv, TypeInv
  <2> QED
    BY <2>1 DEF IInv, TypeInv, Frames
<1> HIDE DEF n, p1
<1>3. \A k \in 1..n - 1 : ~Serves(stack'[k]) /\ stack'[k].at # "insert"
  <2> SUFFICES ASSUME NEW k \in 1..n - 1 PROVE ~Serves(stack'[k]) /\ stack'[k].at # "insert"
    OBVIOUS
  <2>1. ~Serves(stack[k + 1])
    BY <1>1 DEF IInv, StackInv, ServeInv, n
  <2>2. Placed(stack[k + 1])
    BY <1>1 DEF IInv, StackInv, FramesInv, n
  <2>3. stack[k + 1].at # "insert"
    BY <2>1, <2>2 DEF Placed, Serves, Callers
  <2> QED
    BY <1>1, <2>1, <2>3
<1>4. ServeInv'
  <2>1. (\A j, k \in 1..Len(stack) : Serves(stack[j]) /\ Serves(stack[k]) => j = k)'
    BY <1>1, <1>3 DEF Serves
  <2>2. (locked <=> \E k \in 1..Len(stack) : Serves(stack[k]))'
    BY <1>1, <1>3 DEF Serves
  <2>3. (\A k \in 1..Len(stack) : Serves(stack[k]) => cache[stack[k].ptr] = NoClass)'
    BY <1>1, <1>3 DEF Serves
  <2> QED
    BY <2>1, <2>2, <2>3 DEF ServeInv
<1>5. RefsInv'
  <2>1. cache[p1] = NoClass /\ (stack[1].at = "insert" => p1 \in refs)
    BY <1>1 DEF IInv, StackInv, ServeInv, RefsInv, n, p1
  <2>2. \A p \in refs : (p = p1 /\ stack[1].at = "insert") \/ cache[p] # NoClass
    <3> SUFFICES ASSUME NEW p \in refs, cache[p] = NoClass PROVE p = p1 /\ stack[1].at = "insert"
      OBVIOUS
    <3>1. PICK k \in 1..n : stack[k].ptr = p /\ stack[k].at = "insert"
      BY DEF IInv, StackInv, RefsInv, n
    <3>2. k = 1
      BY <1>1, <1>3, <3>1
    <3> QED
      BY <3>1, <3>2 DEF p1
  <2>3. \A p \in Pointers : cache[p] # NoClass => p \in refs
    BY DEF IInv, StackInv, RefsInv
  <2>4. /\ \A p \in Pointers : cache'[p] # NoClass => p \in refs'
        /\ \A p \in refs' : cache'[p] # NoClass
    <3>1. CASE /\ stack[1].at = "insert" /\ refs' = refs
               /\ \E c \in Names \cup {Writer, Printer} : cache' = [cache EXCEPT ![p1] = c]
      <4>1. PICK c \in Names \cup {Writer, Printer} : cache' = [cache EXCEPT ![p1] = c]
        BY <3>1
      <4>2. c # NoClass
        BY CallsAssumption
      <4>3. cache'[p1] = c /\ \A p \in Pointers : p # p1 => cache'[p] = cache[p]
        BY <1>2, <4>1
      <4> QED
        BY <1>2, <2>1, <2>2, <2>3, <3>1, <4>2, <4>3
    <3>2. CASE /\ cache' = cache
               /\ refs' = IF stack[1].at = "insert" THEN refs \ {p1} ELSE refs
      BY <2>1, <2>2, <2>3, <3>2
    <3> QED
      BY <3>1, <3>2 DEF p1
  <2>5. (\A k \in 1..Len(stack) : stack[k].at = "insert" => stack[k].ptr \in refs)'
    BY <1>1, <1>3
  <2>6. (\A p \in Pointers : cache[p] # NoClass => p \in refs)'
    BY <2>4
  <2>7. (\A p \in refs : \/ cache[p] # NoClass
                         \/ \E k \in 1..Len(stack) : stack[k].ptr = p /\ stack[k].at = "insert")'
    BY <2>4
  <2> QED
    BY <2>5, <2>6, <2>7 DEF RefsInv
<1> QED
  BY <1>1, <1>4, <1>5, PopFrames, PopOwned DEF StackInv

\* The function on top goes on. It may take the lock, or make its reference; it
\* may hand its throwable to the exception it throws.
LEMMA GotoKeeps ==
  ASSUME IInv, stack # <<>>, NEW x \in Frames, stack' = <<x>> \o Tail(stack),
         x.fn = stack[1].fn, x.ptr = stack[1].ptr, Placed(x), stack[1].at # "insert",
         \/ x.detail = stack[1].detail /\ exc'.detail = exc.detail
         \/ x.detail = NoDetail /\ exc.detail = NoDetail /\ exc'.detail = stack[1].detail,
         Serves(stack[1]) => Serves(x),
         Serves(x) => Serves(stack[1]) \/ (~locked /\ cache[x.ptr] = NoClass),
         locked' <=> locked \/ Serves(x),
         live' = live, cache' = cache,
         refs' = IF x.at = "insert" THEN refs \cup {x.ptr} ELSE refs
  PROVE  StackInv' /\ stack' \in Seq(Frames)
<1> DEFINE n == Len(stack)
<1>1. /\ stack' \in Seq(Frames) /\ Len(stack') = n
      /\ n \in Nat /\ 1 <= n
      /\ stack'[1] = x
      /\ \A k \in 2..n : stack'[k] = stack[k]
  <2>1. stack \in Seq(Frames)
    BY DEF IInv, TypeInv
  <2> QED
    BY <2>1, GotoEffect
<1>2. /\ 1 \in 1..n
      /\ \A k \in 1..n : k = 1 \/ k \in 2..n
      /\ \A k \in 2..n : k \in 1..n /\ k # 1 /\ k - 1 \in 1..n
  BY <1>1
<1> HIDE DEF n
<1>3. FramesInv'
  <2>1. \A k \in 1..n : Placed(stack'[k])
    BY <1>1, <1>2 DEF IInv, StackInv, FramesInv, n
  <2>2. ASSUME NEW k \in 2..n
        PROVE  Waiting(stack'[k]) /\ (stack'[k].at = "throw" => stack'[k - 1].fn = "trace")
    <3>1. stack'[k] = stack[k] /\ stack'[k - 1].fn = stack[k - 1].fn
      BY <1>1, <1>2
    <3> QED
      BY <3>1 DEF IInv, StackInv, FramesInv, n
  <2> QED
    BY <1>1, <2>1, <2>2 DEF FramesInv, Placed, Waiting
<1>4. OwnedInv'
  <2>1. ASSUME NEW d \in live, d # exc'.detail PROVE \E k \in 1..n : stack'[k].detail = d
    <3>1. d # NoDetail /\ (d = exc.detail \/ \E k \in 1..n : stack[k].detail = d)
      BY DEF IInv, TypeInv, Details, NoDetail, StackInv, OwnedInv, n
    <3> QED
      BY <1>1, <1>2, <2>1, <3>1
  <2>2. \A k \in 1..n :
          stack'[k].detail # NoDetail => stack'[k].detail \in live' /\ stack'[k].detail # exc'.detail
    BY <1>1, <1>2 DEF IInv, StackInv, OwnedInv, n
  <2>3. ASSUME NEW j \in 1..n, NEW k \in 1..n,
               stack'[j].detail = stack'[k].detail, stack'[j].detail # NoDetail
        PROVE  j = k
    BY <1>1, <1>2, <2>3 DEF IInv, StackInv, OwnedInv, n
  <2>4. exc'.detail # NoDetail => exc'.detail \in live'
    BY <1>1, <1>2 DEF IInv, StackInv, OwnedInv, n
  <2> QED
    BY <1>1, <2>1, <2>2, <2>3, <2>4 DEF OwnedInv
<1>5. ServeInv'
  <2>1. ASSUME NEW j \in 1..n, NEW k \in 1..n, Serves(stack'[j]), Serves(stack'[k]) PROVE j = k
    BY <1>1, <1>2, <2>1 DEF IInv, StackInv, ServeInv, n
  <2>2. locked' <=> \E k \in 1..n : Serves(stack'[k])
    BY <1>1, <1>2 DEF IInv, StackInv, ServeInv, n
  <2>3. \A k \in 1..n : Serves(stack'[k]) => cache'[stack'[k].ptr] = NoClass
    BY <1>1, <1>2 DEF IInv, StackInv, ServeInv, n
  <2> QED
    BY <1>1, <2>1, <2>2, <2>3 DEF ServeInv, Serves
<1>6. RefsInv'
  <2>1. ASSUME NEW p \in refs', cache[p] = NoClass
        PROVE  \E k \in 1..n : stack'[k].ptr = p /\ stack'[k].at = "insert"
    <3>1. CASE p \in refs
      <4>1. PICK k \in 1..n : stack[k].ptr = p /\ stack[k].at = "insert"
        BY <2>1, <3>1 DEF IInv, StackInv, RefsInv, n
      <4> QED
        BY <1>1, <1>2, <4>1
    <3>2. CASE p \notin refs
      BY <1>1, <1>2, <2>1, <3>2
    <3> QED
      BY <3>1, <3>2
  <2>2. refs \subseteq refs'
    OBVIOUS
  <2>3. \A k \in 1..n : stack'[k].at = "insert" => stack'[k].ptr \in refs'
    BY <1>1, <1>2 DEF IInv, StackInv, RefsInv, n
  <2>4. (\A p \in refs : \/ cache[p] # NoClass
                         \/ \E k \in 1..Len(stack) : stack[k].ptr = p /\ stack[k].at = "insert")'
    BY <1>1, <2>1
  <2>5. (\A k \in 1..Len(stack) : stack[k].at = "insert" => stack[k].ptr \in refs)'
    BY <1>1, <2>3
  <2>6. (\A p \in Pointers : cache[p] # NoClass => p \in refs)'
    BY <2>2 DEF IInv, StackInv, RefsInv
  <2> QED
    BY <2>4, <2>5, <2>6 DEF RefsInv
<1> QED
  BY <1>1, <1>3, <1>4, <1>5, <1>6 DEF StackInv

\* The function on top calls another one. It may have begun to build an exception.
LEMMA CallKeeps ==
  ASSUME IInv, stack # <<>>, NEW f \in Frames, NEW x \in Frames,
         stack' = <<f, x>> \o Tail(stack),
         x.fn = stack[1].fn, x.ptr = stack[1].ptr, Placed(f), Placed(x), Waiting(x),
         x.at = "throw" => f.fn = "trace",
         f.detail = NoDetail, ~Serves(f), Serves(x) <=> Serves(stack[1]), stack[1].at # "insert",
         \/ x.detail = stack[1].detail /\ live' = live
         \/ stack[1].detail = NoDetail /\ x.detail \in Details \ live /\ live' = live \cup {x.detail},
         exc'.detail = exc.detail, locked' = locked, cache' = cache, refs' = refs
  PROVE  StackInv' /\ stack' \in Seq(Frames)
<1> DEFINE n == Len(stack)
<1>1. /\ stack' \in Seq(Frames) /\ Len(stack') = n + 1
      /\ n \in Nat /\ 1 <= n
      /\ stack'[1] = f /\ stack'[2] = x
      /\ \A k \in 3..n + 1 : stack'[k] = stack[k - 1]
      /\ \A k \in 2..n : stack[k] = stack'[k + 1]
  <2>1. stack \in Seq(Frames)
    BY DEF IInv, TypeInv
  <2> QED
    BY <2>1, CallEffect
<1>2. /\ 1 \in 1..n /\ 1 \in 1..n + 1 /\ 2 \in 1..n + 1
      /\ \A k \in 1..n : k = 1 \/ k \in 2..n
      /\ \A k \in 1..n + 1 : k = 1 \/ k = 2 \/ k \in 3..n + 1
      /\ \A k \in 2..n : k \in 1..n /\ k + 1 \in 1..n + 1 /\ k # 1
      /\ \A k \in 3..n + 1 : k - 1 \in 2..n /\ k - 1 \in 1..n /\ k - 1 # 1 /\ k # 1 /\ k # 2
      /\ \A j, k \in 3..n + 1 : j - 1 = k - 1 => j = k
  BY <1>1
<1> HIDE DEF n
<1>3. FramesInv'
  <2>1. \A k \in 1..n + 1 : Placed(stack'[k])
    BY <1>1, <1>2 DEF IInv, StackInv, FramesInv, n
  <2>2. ASSUME NEW k \in 2..n + 1
        PROVE  Waiting(stack'[k]) /\ (stack'[k].at = "throw" => stack'[k - 1].fn = "trace")
    <3>1. CASE k = 2
      BY <1>1, <3>1
    <3>2. CASE k # 2
      <4>1. k \in 3..n + 1 /\ k - 1 \in 2..n
        BY <1>1, <3>2
      <4>2. stack'[k] = stack[k - 1]
        BY <1>1, <4>1
      <4>3. stack'[k - 1].fn = stack[k - 2].fn
        <5>1. CASE k = 3
          BY <1>1, <5>1
        <5>2. CASE k # 3
          <6>1. k - 1 \in 3..n + 1 /\ (k - 1) - 1 = k - 2
            BY <1>1, <4>1, <5>2
          <6> QED
            BY <1>1, <6>1
        <5> QED
          BY <5>1, <5>2
      <4>4. (k - 1) - 1 = k - 2
        BY <4>1
      <4> QED
        BY <4>1, <4>2, <4>3, <4>4 DEF IInv, StackInv, FramesInv, n
    <3> QED
      BY <3>1, <3>2
  <2> QED
    BY <1>1, <2>1, <2>2 DEF FramesInv, Placed, Waiting
<1>4. OwnedInv'
  <2>1. ASSUME NEW d \in live', d # exc.detail PROVE \E k \in 1..n + 1 : stack'[k].detail = d
    <3>1. CASE d = x.detail
      BY <1>1, <1>2, <3>1
    <3>2. CASE d # x.detail
      <4>1. PICK k \in 1..n : stack[k].detail = d
        BY <2>1, <3>2 DEF IInv, StackInv, OwnedInv, n
      <4>2. d # NoDetail
        BY <2>1, <3>2 DEF IInv, TypeInv, Details, NoDetail
      <4>3. k \in 2..n
        BY <1>2, <3>2, <4>1, <4>2
      <4> QED
        BY <1>1, <1>2, <4>1, <4>3
    <3> QED
      BY <3>1, <3>2
  <2>2. ASSUME NEW k \in 1..n + 1, stack'[k].detail # NoDetail
        PROVE  stack'[k].detail \in live' /\ stack'[k].detail # exc.detail
    <3>1. CASE k = 1
      BY <1>1, <2>2, <3>1
    <3>2. CASE k = 2
      BY <1>1, <1>2, <2>2, <3>2 DEF IInv, StackInv, OwnedInv, n
    <3>3. CASE k \in 3..n + 1
      <4>1. stack'[k] = stack[k - 1] /\ k - 1 \in 1..n
        BY <1>1, <1>2, <3>3
      <4> QED
        BY <2>2, <4>1 DEF IInv, StackInv, OwnedInv, n
    <3> QED
      BY <1>2, <3>1, <3>2, <3>3
  <2>3. ASSUME NEW j \in 3..n + 1, stack'[j].detail # NoDetail PROVE stack'[j].detail # x.detail
    <3>1. stack'[j] = stack[j - 1] /\ j - 1 \in 1..n /\ j - 1 # 1
      BY <1>1, <1>2
    <3> QED
      BY <1>2, <2>3, <3>1 DEF IInv, StackInv, OwnedInv, n
  <2>4. ASSUME NEW j \in 3..n + 1, NEW k \in 3..n + 1,
               stack'[j].detail = stack'[k].detail, stack'[j].detail # NoDetail
        PROVE  j = k
    <3>1. j - 1 = k - 1
      BY <1>1, <1>2, <2>4 DEF IInv, StackInv, OwnedInv, n
    <3> QED
      BY <1>2, <3>1
  <2>5. ASSUME NEW j \in 1..n + 1, NEW k \in 1..n + 1,
               stack'[j].detail = stack'[k].detail, stack'[j].detail # NoDetail
        PROVE  j = k
    BY <1>1, <1>2, <2>3, <2>4, <2>5
  <2>6. exc'.detail # NoDetail => exc'.detail \in live'
    BY DEF IInv, StackInv, OwnedInv
  <2>7. \A d \in live' : d = exc'.detail \/ \E k \in 1..n + 1 : stack'[k].detail = d
    BY <2>1
  <2>8. \A k \in 1..n + 1 :
          stack'[k].detail # NoDetail => stack'[k].detail \in live' /\ stack'[k].detail # exc'.detail
    BY <2>2
  <2>9. \A j, k \in 1..n + 1 :
          stack'[j].detail = stack'[k].detail /\ stack'[j].detail # NoDetail => j = k
    BY <2>5
  <2> QED
    BY <1>1, <2>6, <2>7, <2>8, <2>9 DEF OwnedInv
<1>5. ServeInv'
  <2>1. ASSUME NEW i \in 1..n + 1, Serves(stack'[i])
        PROVE  i - 1 \in 1..n /\ Serves(stack[i - 1]) /\ stack[i - 1].ptr = stack'[i].ptr
    <3>1. CASE i = 2
      BY <1>1, <1>2, <2>1, <3>1
    <3>2. CASE i # 2
      BY <1>1, <1>2, <2>1, <3>2
    <3> QED
      BY <3>1, <3>2
  <2>2. ASSUME NEW j \in 1..n + 1, NEW k \in 1..n + 1, Serves(stack'[j]), Serves(stack'[k]) PROVE j = k
    <3>1. j - 1 = k - 1
      BY <2>1, <2>2 DEF IInv, StackInv, ServeInv, n
    <3> QED
      BY <1>1, <3>1
  <2>3. ASSUME NEW k \in 1..n, Serves(stack[k]) PROVE \E i \in 1..n + 1 : Serves(stack'[i])
    <3>1. CASE k = 1
      BY <1>1, <1>2, <2>3, <3>1
    <3>2. CASE k \in 2..n
      BY <1>1, <1>2, <2>3, <3>2
    <3> QED
      BY <1>2, <3>1, <3>2
  <2>4. locked <=> \E k \in 1..n : Serves(stack[k])
    BY DEF IInv, StackInv, ServeInv, n
  <2>5. locked' <=> \E k \in 1..n + 1 : Serves(stack'[k])
    BY <2>1, <2>3, <2>4
  <2>6. ASSUME NEW k \in 1..n + 1, Serves(stack'[k]) PROVE cache'[stack'[k].ptr] = NoClass
    BY <2>1, <2>6 DEF IInv, StackInv, ServeInv, n
  <2>7. (locked <=> \E k \in 1..Len(stack) : Serves(stack[k]))'
    BY <1>1, <2>5 DEF Serves
  <2>8. (\A j, k \in 1..Len(stack) : Serves(stack[j]) /\ Serves(stack[k]) => j = k)'
    BY <1>1, <2>2 DEF Serves
  <2>9. (\A k \in 1..Len(stack) : Serves(stack[k]) => cache[stack[k].ptr] = NoClass)'
    BY <1>1, <2>6 DEF Serves
  <2> QED
    BY <2>7, <2>8, <2>9 DEF ServeInv
<1>6. RefsInv'
  <2>1. ASSUME NEW p \in refs, cache[p] = NoClass
        PROVE  \E k \in 1..n + 1 : stack'[k].ptr = p /\ stack'[k].at = "insert"
    <3>1. PICK k \in 1..n : stack[k].ptr = p /\ stack[k].at = "insert"
      BY <2>1 DEF IInv, StackInv, RefsInv, n
    <3>2. k \in 2..n
      BY <1>2, <3>1
    <3>3. k + 1 \in 1..n + 1 /\ stack'[k + 1] = stack[k]
      BY <1>1, <1>2, <3>2
    <3> QED
      BY <3>1, <3>3
  <2>2. f.at # "insert" /\ x.at # "insert"
    BY DEF Placed, Waiting, Serves, Callers
  <2>3. ASSUME NEW k \in 1..n + 1, stack'[k].at = "insert" PROVE stack'[k].ptr \in refs
    <3>1. k \in 3..n + 1
      BY <1>1, <1>2, <2>2, <2>3
    <3>2. stack'[k] = stack[k - 1] /\ k - 1 \in 1..n
      BY <1>1, <1>2, <3>1
    <3> QED
      BY <2>3, <3>2 DEF IInv, StackInv, RefsInv, n
  <2>4. (\A p \in refs : \/ cache[p] # NoClass
                         \/ \E k \in 1..Len(stack) : stack[k].ptr = p /\ stack[k].at = "insert")'
    BY <1>1, <2>1
  <2>5. (\A k \in 1..Len(stack) : stack[k].at = "insert" => stack[k].ptr \in refs)'
    BY <1>1, <2>3
  <2>6. (\A p \in Pointers : cache[p] # NoClass => p \in refs)'
    BY DEF IInv, StackInv, RefsInv
  <2> QED
    BY <2>4, <2>5, <2>6 DEF RefsInv
<1> QED
  BY <1>1, <1>3, <1>4, <1>5, <1>6 DEF StackInv

-------------------------------------------------------------------------------
(* The steps *)

\* The function that runs, or through which an exception passes.
LEMMA TopFacts ==
  ASSUME IInv, stack # <<>>
  PROVE  /\ stack \in Seq(Frames) /\ 1 \in 1..Len(stack)
         /\ Top = stack[1] /\ stack[1] \in Frames /\ Placed(stack[1])
<1>1. /\ stack \in Seq(Frames)
      /\ \A k \in 1..Len(stack) : Placed(stack[k])
  BY DEF IInv, TypeInv, StackInv, FramesInv
<1> QED
  BY <1>1, TopIsFirst

\* The frame that Goto leaves on top.
LEMMA GotoFrame ==
  ASSUME stack \in Seq(Frames), stack # <<>>, NEW at \in Points, Goto(at)
  PROVE  \E x \in Frames : /\ stack' = <<x>> \o Tail(stack)
                           /\ x.fn = stack[1].fn /\ x.ptr = stack[1].ptr /\ x.detail = stack[1].detail
                           /\ x.at = at
<1>1. Top = stack[1] /\ Top \in Frames
  BY TopIsFirst
<1> DEFINE x == [Top EXCEPT !.at = at]
<1>2. x \in Frames /\ x.fn = Top.fn /\ x.ptr = Top.ptr /\ x.detail = Top.detail /\ x.at = at
  BY <1>1 DEF Frames
<1>3. stack' = <<x>> \o Tail(stack)
  BY DEF Goto
<1> QED
  BY <1>1, <1>2, <1>3

\* The throwables that are kept are finitely many.
LEMMA LiveFinite ==
  ASSUME IInv
  PROVE  /\ IsFiniteSet(live) /\ Cardinality(live) \in Nat
         /\ IsFiniteSet(Details) /\ Cardinality(Details) = MaxFaults /\ MaxFaults \in Nat
<1>1. MaxFaults \in Nat
  BY CallsAssumption
<1>2. IsFiniteSet(Details) /\ Cardinality(Details) = MaxFaults
  BY <1>1, FS_Interval DEF Details
<1>3. live \in SUBSET Details
  BY DEF IInv, TypeInv
<1>4. IsFiniteSet(live)
  BY <1>2, <1>3, FS_Subset
<1> QED
  BY <1>1, <1>2, <1>4, FS_CardinalityType

\* An exception of Java finds a throwable to be kept in.
LEMMA DetailLeft ==
  ASSUME IInv, pending \/ faults > 0
  PROVE  LET d == CHOOSE n \in Details \ live : TRUE IN
           /\ d \in Details \ live /\ d # NoDetail
           /\ Cardinality(live \cup {d}) = Cardinality(live) + 1
<1> DEFINE d == CHOOSE n \in Details \ live : TRUE
<1>1. /\ IsFiniteSet(live) /\ Cardinality(live) \in Nat
      /\ IsFiniteSet(Details) /\ Cardinality(Details) = MaxFaults
      /\ live \subseteq Details /\ faults \in Nat
  BY LiveFinite DEF IInv, TypeInv
<1>2. Cardinality(live) < MaxFaults
  <2>1. Cardinality(live) + (IF pending THEN 1 ELSE 0) + faults <= MaxFaults
    BY DEF IInv, LiveInv
  <2>2. MaxFaults \in Nat
    BY LiveFinite
  <2> DEFINE c == Cardinality(live)
  <2> HIDE DEF c
  <2>3. CASE pending
    <3>1. c + 1 + faults <= MaxFaults
      BY <2>1, <2>3 DEF c
    <3> QED
      BY <1>1, <2>2, <3>1 DEF c
  <2>4. CASE ~pending
    <3>1. c + 0 + faults <= MaxFaults /\ faults > 0
      BY <2>1, <2>4 DEF c
    <3> QED
      BY <1>1, <2>2, <3>1 DEF c
  <2> QED
    BY <2>3, <2>4
<1>3. live # Details
  BY <1>1, <1>2
<1>4. d \in Details \ live
  BY <1>1, <1>3
<1> HIDE DEF d
<1>5. d # NoDetail
  BY <1>4 DEF Details, NoDetail
<1>6. Cardinality(live \cup {d}) = Cardinality(live) + 1
  BY <1>1, <1>4, FS_AddElement
<1> QED
  BY <1>4, <1>5, <1>6 DEF d

\* While no exception is in flight nothing is asked of the top.
LEMMA NoExcInv == exc' = NoException => ExcInv'
BY DEF ExcInv, NoException

\* An exception leaves a function that builds none: its caller owns nothing.
LEMMA UnwindExcInv ==
  ASSUME IInv, stack # <<>>, Return, exc' = exc, stack[1].fn # "trace"
  PROVE  ExcInv'
<1>1. /\ Len(stack) \in Nat /\ 1 <= Len(stack)
      /\ stack' \in Seq(Frames) /\ Len(stack') = Len(stack) - 1
      /\ \A k \in 1..Len(stack) - 1 : stack'[k] = stack[k + 1]
  BY ReturnEffect DEF IInv, TypeInv
<1>2. ASSUME stack' # <<>>
      PROVE  stack'[1].detail = NoDetail /\ (stack'[1].fn = "get" => stack'[1].at # "lock")
  <2>1. Len(stack') # 0
    BY <1>1, <1>2, EmptySeq
  <2>2. 1 \in 1..Len(stack) - 1 /\ 2 \in 2..Len(stack) /\ 2 \in 1..Len(stack)
    BY <1>1, <2>1
  <2>3. stack'[1] = stack[2]
    BY <1>1, <2>2
  <2>4. Placed(stack[2]) /\ Waiting(stack[2]) /\ (stack[2].at = "throw" => stack[1].fn = "trace")
    BY <2>2 DEF IInv, StackInv, FramesInv
  <2> QED
    BY <2>3, <2>4 DEF Placed, Waiting, Callers
<1> QED
  BY <1>2 DEF IInv, ExcInv

\* Arithmetic of the account of exceptions.
LEMMA Account ==
  ASSUME NEW c \in Nat, NEW f \in 0..MaxFaults, c + 1 + f <= MaxFaults
  PROVE  c + 0 + f <= MaxFaults /\ (c + 1) + 0 + f <= MaxFaults
BY CallsAssumption

\* What an exception of Java does to the account of exceptions.
LEMMA LiveKept ==
  ASSUME IInv, live' = live,
         \/ UNCHANGED <<pending, faults>>
         \/ Fault /\ pending' \in {TRUE, pending}
  PROVE  pending' \in BOOLEAN /\ faults' \in 0..MaxFaults /\ LiveInv'
<1> DEFINE c == Cardinality(live)
<1>1. c \in Nat /\ MaxFaults \in Nat /\ faults \in 0..MaxFaults /\ pending \in BOOLEAN
  BY LiveFinite DEF IInv, TypeInv
<1>2. c + (IF pending THEN 1 ELSE 0) + faults <= MaxFaults
  BY DEF IInv, LiveInv
<1>3. Cardinality(live') = c
  OBVIOUS
<1> HIDE DEF c
<1>4. CASE UNCHANGED <<pending, faults>>
  BY <1>1, <1>2, <1>3, <1>4 DEF LiveInv
<1>5. CASE Fault /\ pending' \in {TRUE, pending}
  <2>1. pending' \in BOOLEAN
    BY <1>1, <1>5, Zenon
  <2>4. faults' \in 0..MaxFaults
    BY <1>1, <1>5 DEF Fault
  <2>2. c + 1 + faults' <= MaxFaults
    <3>1. c + 0 + faults <= MaxFaults
      <4>1. CASE pending
        BY <1>1, <1>2, <4>1
      <4>2. CASE ~pending
        BY <1>1, <1>2, <4>2
      <4> QED
        BY <4>1, <4>2
    <3> QED
      BY <1>1, <1>5, <3>1 DEF Fault
  <2>3. c + (IF pending' THEN 1 ELSE 0) + faults' <= MaxFaults
    <3>1. CASE pending'
      BY <2>2, <3>1
    <3>2. CASE ~pending'
      <4>1. c + 0 + faults' <= MaxFaults
        BY <1>1, <2>2, <2>4, Account, Zenon
      <4> QED
        BY <3>2, <4>1
    <3> QED
      BY <3>1, <3>2
  <2> QED
    BY <1>3, <2>1, <2>3, <2>4 DEF LiveInv
<1> QED
  BY <1>4, <1>5

\* A step that throws nothing, catches nothing and wraps nothing.
LEMMA QuietStep ==
  ASSUME IInv, exc = NoException, exc' = exc, live' = live, text' = text, cache' = cache,
         locked' \in BOOLEAN, refs' \subseteq Pointers,
         \/ UNCHANGED <<pending, faults>>
         \/ Fault /\ pending' \in {TRUE, pending},
         StackInv' /\ stack' \in Seq(Frames)
  PROVE  IInv'
<1>1. pending' \in BOOLEAN /\ faults' \in 0..MaxFaults /\ LiveInv'
  BY LiveKept
<1>2. ExcInv'
  BY NoExcInv
<1>3. TypeInv'
  BY <1>1 DEF IInv, TypeInv
<1> QED
  BY <1>1, <1>2, <1>3 DEF IInv

\* The same for a step that leaves the cache alone too, and returns, goes on or calls.
LEMMA PlainReturn ==
  ASSUME IInv, Running, Return, stack[1].detail = NoDetail, ~Serves(stack[1]),
         UNCHANGED <<exc, cacheVars, text, live>>,
         \/ UNCHANGED <<pending, faults>>
         \/ Fault /\ pending' \in {TRUE, pending}
  PROVE  IInv'
<1>1. exc = NoException /\ stack # <<>> /\ exc' = exc /\ live' = live /\ text' = text
      /\ locked' = locked /\ cache' = cache /\ refs' = refs
  BY DEF Running, cacheVars
<1>2. StackInv' /\ stack' \in Seq(Frames)
  BY <1>1, PopKeeps
<1>3. locked' \in BOOLEAN /\ refs' \subseteq Pointers
  BY <1>1 DEF IInv, TypeInv
<1> QED
  BY <1>1, <1>2, <1>3, QuietStep

\* GotoKeeps for a function that does not use the cache.
LEMMA PlainGoto ==
  ASSUME IInv, Running, NEW at \in Points, Goto(at), stack[1].fn # "get",
         \A x \in Frames :
              x.fn = stack[1].fn /\ x.detail = stack[1].detail /\ x.at = at
              => Placed(x),
         UNCHANGED <<exc, cacheVars, text, live>>,
         \/ UNCHANGED <<pending, faults>>
         \/ Fault /\ pending' \in {TRUE, pending}
  PROVE  IInv'
<1>1. exc = NoException /\ stack # <<>> /\ exc' = exc /\ live' = live /\ text' = text
      /\ locked' = locked /\ cache' = cache /\ refs' = refs
  BY DEF Running, cacheVars
<1>2. stack \in Seq(Frames) /\ Placed(stack[1])
  BY <1>1, TopFacts
<1>3. PICK x \in Frames : /\ stack' = <<x>> \o Tail(stack)
                          /\ x.fn = stack[1].fn /\ x.ptr = stack[1].ptr /\ x.detail = stack[1].detail
                          /\ x.at = at
  BY <1>1, <1>2, GotoFrame
<1>4. Placed(x) /\ ~Serves(x) /\ ~Serves(stack[1]) /\ x.at # "insert" /\ stack[1].at # "insert"
  BY <1>2, <1>3 DEF Placed, Serves
<1>5. StackInv' /\ stack' \in Seq(Frames)
  BY <1>1, <1>3, <1>4, GotoKeeps
<1>6. locked' \in BOOLEAN /\ refs' \subseteq Pointers
  BY <1>1 DEF IInv, TypeInv
<1> QED
  BY <1>1, <1>5, <1>6, QuietStep

\* CallKeeps for a call that is not a report.
LEMMA PlainCall ==
  ASSUME IInv, Running, NEW at \in Points,
         NEW fn \in Functions, NEW place \in Points, NEW p \in Pointers, Call(at, Frame(fn, place, p)),
         \A f \in Frames : f.fn = fn /\ f.at = place /\ f.detail = NoDetail => Placed(f) /\ ~Serves(f),
         \A x \in Frames :
              x.fn = stack[1].fn /\ x.detail = stack[1].detail /\ x.at = at
              => Placed(x) /\ Waiting(x),
         at # "throw", at # "lock", stack[1].at \notin {"insert", "lock"},
         UNCHANGED <<exc, cacheVars, text, live>>,
         UNCHANGED pending, UNCHANGED faults \/ Fault
  PROVE  IInv'
<1>1. exc = NoException /\ stack # <<>> /\ exc' = exc /\ live' = live /\ text' = text
      /\ locked' = locked /\ cache' = cache /\ refs' = refs
  BY DEF Running, cacheVars
<1>2. stack \in Seq(Frames)
  BY <1>1, TopFacts
<1> DEFINE f == Frame(fn, place, p)
           x == [Top EXCEPT !.at = at]
<1>3. /\ stack' = <<f, x>> \o Tail(stack)
      /\ f \in Frames /\ f.fn = fn /\ f.at = place /\ f.detail = NoDetail
      /\ x \in Frames /\ x.fn = stack[1].fn /\ x.ptr = stack[1].ptr
      /\ x.detail = stack[1].detail /\ x.at = at
  <2>1. Top = stack[1] /\ Top \in Frames
    BY <1>1, TopFacts
  <2>2. /\ x \in Frames /\ x.fn = Top.fn /\ x.ptr = Top.ptr /\ x.detail = Top.detail
        /\ x.at = at
    BY <2>1 DEF Frames
  <2>3. f \in Frames /\ f.fn = fn /\ f.at = place /\ f.detail = NoDetail
    BY DEF Frames, Frame
  <2>4. stack' = <<f, x>> \o Tail(stack)
    BY DEF Call
  <2> HIDE DEF f, x
  <2> QED
    BY <2>1, <2>2, <2>3, <2>4
<1> HIDE DEF f, x
<1>4. Placed(f) /\ ~Serves(f) /\ Placed(x) /\ Waiting(x)
  BY <1>3
<1>5. (Serves(x) <=> Serves(stack[1])) /\ x.at # "throw" /\ stack[1].at # "insert"
  BY <1>3 DEF Serves
<1>6. StackInv' /\ stack' \in Seq(Frames)
  BY <1>1, <1>3, <1>4, <1>5, CallKeeps
<1>7. locked' \in BOOLEAN /\ refs' \subseteq Pointers
  BY <1>1 DEF IInv, TypeInv
<1>8. UNCHANGED <<pending, faults>> \/ (Fault /\ pending' \in {TRUE, pending})
  <2>1. pending' = pending
    OBVIOUS
  <2>2. CASE UNCHANGED faults
    BY <2>1, <2>2
  <2>3. CASE Fault
    BY <2>1, <2>3, Zenon
  <2> QED
    BY <2>2, <2>3
<1> QED
  BY <1>1, <1>6, <1>7, <1>8, QuietStep

\* What holds of the function that runs.
LEMMA AtFacts ==
  ASSUME IInv, NEW fn, NEW at, At(fn, at)
  PROVE  /\ Running /\ stack # <<>> /\ exc = NoException /\ stack \in Seq(Frames)
         /\ Top = stack[1] /\ stack[1] \in Frames /\ Placed(stack[1])
         /\ stack[1].fn = fn /\ stack[1].at = at /\ stack[1].ptr \in Pointers
         /\ at # "throw" => stack[1].detail = NoDetail
<1>1. Running /\ stack # <<>> /\ exc = NoException /\ Top.fn = fn /\ Top.at = at
  BY DEF At, Running
<1>2. stack \in Seq(Frames) /\ Top = stack[1] /\ stack[1] \in Frames /\ Placed(stack[1])
  BY <1>1, TopFacts
<1>3. stack[1].ptr \in Pointers
  BY <1>2 DEF Frames
<1> QED
  BY <1>1, <1>2, <1>3 DEF Placed

\* The account when an exception of Java, pending or new, becomes a throwable that is kept.
LEMMA WrapAccount ==
  ASSUME IInv, ~pending',
         \/ pending /\ UNCHANGED faults
         \/ Fault,
         Cardinality(live') = Cardinality(live) + 1
  PROVE  LiveInv' /\ faults' \in 0..MaxFaults
<1> DEFINE c == Cardinality(live)
<1>1. c \in Nat /\ MaxFaults \in Nat /\ faults \in 0..MaxFaults
  BY LiveFinite DEF IInv, TypeInv
<1>2. c + (IF pending THEN 1 ELSE 0) + faults <= MaxFaults
  BY DEF IInv, LiveInv
<1>3. Cardinality(live') = c + 1
  OBVIOUS
<1> HIDE DEF c
<1>4. faults' \in 0..MaxFaults /\ c + 1 + faults' <= MaxFaults
  <2>1. CASE pending /\ UNCHANGED faults
    <3>1. c + 1 + faults <= MaxFaults /\ faults' = faults
      BY <1>2, <2>1
    <3> QED
      BY <1>1, <3>1
  <2>2. CASE Fault
    <3>1. c + 0 + faults <= MaxFaults
      <4>1. CASE pending
        <5>1. c + 1 + faults <= MaxFaults
          BY <1>2, <4>1
        <5> QED
          BY <1>1, <5>1
      <4>2. CASE ~pending
        BY <1>2, <4>2
      <4> QED
        BY <4>1, <4>2
    <3>2. faults > 0 /\ faults' = faults - 1
      BY <2>2 DEF Fault
    <3> QED
      BY <1>1, <3>1, <3>2
  <2> QED
    BY <2>1, <2>2
<1>5. Cardinality(live') + 0 + faults' <= MaxFaults
  <2>1. (c + 1) + 0 + faults' <= MaxFaults
    BY <1>1, <1>4, Account, Zenon
  <2> QED
    BY <1>3, <2>1, Zenon
<1> QED
  BY <1>4, <1>5 DEF LiveInv

\* An exception of Java is wrapped, and its stack trace asked for.
LEMMA WrapKeeps ==
  ASSUME IInv, Running, BuildNative, stack[1].detail = NoDetail,
         \/ stack[1].fn \in Callers /\ stack[1].at = "check"
         \/ stack[1].fn = "getClassName" /\ stack[1].at = "name",
         \/ pending /\ UNCHANGED faults
         \/ Fault,
         UNCHANGED <<exc, cacheVars, text>>
  PROVE  IInv'
<1> DEFINE d == CHOOSE k \in Details \ live : TRUE
           f == Frame("trace", "writer", Writer)
           x == [Top EXCEPT !.at = "throw", !.detail = d]
<1>1. exc = NoException /\ stack # <<>> /\ exc' = exc /\ text' = text
      /\ locked' = locked /\ cache' = cache /\ refs' = refs
  BY DEF Running, cacheVars
<1>2. stack \in Seq(Frames) /\ Top = stack[1] /\ stack[1] \in Frames
  BY <1>1, TopFacts
<1>3. /\ d \in Details \ live /\ d # NoDetail
      /\ Cardinality(live \cup {d}) = Cardinality(live) + 1
  BY DetailLeft DEF Fault
<1>4. /\ stack' = <<f, x>> \o Tail(stack)
      /\ live' = live \cup {d}
      /\ pending' = FALSE
  BY DEF BuildNative
<1> HIDE DEF d
<1>5. /\ f \in Frames /\ f.fn = "trace" /\ f.at = "writer" /\ f.detail = NoDetail
  BY DEF Frames, Frame, Functions, Points, Pointers
<1>6. /\ x \in Frames /\ x.fn = stack[1].fn /\ x.ptr = stack[1].ptr
      /\ x.at = "throw" /\ x.detail = d
  BY <1>2, <1>3 DEF Frames, Points
<1> HIDE DEF f, x
<1>7. Placed(f) /\ Placed(x) /\ Waiting(x) /\ ~Serves(f)
  BY <1>5, <1>6 DEF Placed, Waiting, Serves
<1>8. ~Serves(x) /\ ~Serves(stack[1]) /\ stack[1].at # "insert"
  BY <1>6 DEF Serves, Callers
<1>9. StackInv' /\ stack' \in Seq(Frames)
  BY <1>1, <1>3, <1>4, <1>5, <1>6, <1>7, <1>8, CallKeeps
<1>10. LiveInv' /\ faults' \in 0..MaxFaults
  BY <1>3, <1>4, WrapAccount
<1>11. ExcInv'
  BY <1>1, NoExcInv
<1>12. live' \subseteq Details
  BY <1>3, <1>4 DEF IInv, TypeInv
<1>13. TypeInv'
  BY <1>1, <1>4, <1>9, <1>10, <1>12 DEF IInv, TypeInv
<1> QED
  BY <1>9, <1>10, <1>11, <1>13 DEF IInv

-------------------------------------------------------------------------------
(* One step for each action: calls and returns *)

LEMMA FindForCallKeeps == ASSUME IInv, FindForCall PROVE IInv'
<1>1. PICK fn \in Callers : At(fn, "find")
  BY DEF FindForCall
<1>2. /\ Running /\ Top = stack[1] /\ stack[1].fn = fn /\ stack[1].at = "find"
      /\ stack[1].ptr \in Pointers /\ stack[1].detail = NoDetail
  BY <1>1, AtFacts
<1> DEFINE p == stack[1].ptr
<1>3. Call("method", Frame("get", "lock", p))
  BY <1>2 DEF FindForCall
<1>4. UNCHANGED <<exc, cacheVars, text, live>> /\ UNCHANGED pending /\ UNCHANGED faults
  BY DEF FindForCall
<1>5. \A f \in Frames : f.fn = "get" /\ f.at = "lock" /\ f.detail = NoDetail => Placed(f) /\ ~Serves(f)
  BY DEF Placed, Serves
<1>6. \A x \in Frames :
           x.fn = stack[1].fn /\ x.detail = stack[1].detail /\ x.at = "method"
           => Placed(x) /\ Waiting(x)
  BY <1>1, <1>2 DEF Placed, Waiting
<1>7. p \in Pointers /\ "method" \in Points /\ "lock" \in Points /\ "get" \in Functions
  BY <1>2 DEF Points, Functions
<1> HIDE DEF p
<1> QED
  BY <1>2, <1>3, <1>4, <1>5, <1>6, <1>7, PlainCall

LEMMA FindMemberKeeps == ASSUME IInv, FindMember PROVE IInv'
<1>1. PICK fn \in Callers : At(fn, "method")
  BY DEF FindMember
<1>2. /\ Running /\ stack[1].fn = fn /\ stack[1].fn # "get" /\ stack[1].detail = NoDetail
  BY <1>1, AtFacts DEF Callers
<1>3. UNCHANGED <<exc, cacheVars, text, live>>
  BY DEF FindMember
<1>4. \A x \in Frames :
           x.fn = stack[1].fn /\ x.detail = stack[1].detail /\ x.at = "java"
           => Placed(x)
  BY <1>2 DEF Placed
<1>5. \A x \in Frames :
           x.fn = stack[1].fn /\ x.detail = stack[1].detail /\ x.at = "undefined"
           => Placed(x)
  BY <1>2 DEF Placed
<1>6. "java" \in Points /\ "undefined" \in Points
  BY DEF Points
<1>7. CASE Goto("java") /\ UNCHANGED <<pending, faults>>
  BY <1>2, <1>3, <1>4, <1>6, <1>7, PlainGoto
<1>8. CASE Fault /\ pending' = TRUE /\ Goto("undefined")
  BY <1>2, <1>3, <1>5, <1>6, <1>8, PlainGoto
<1> QED
  BY <1>7, <1>8 DEF FindMember

LEMMA CallJavaKeeps == ASSUME IInv, CallJava PROVE IInv'
<1>1. PICK fn \in Callers : At(fn, "java")
  BY DEF CallJava
<1>2. /\ Running /\ stack[1].fn = fn /\ stack[1].fn # "get" /\ stack[1].detail = NoDetail
  BY <1>1, AtFacts DEF Callers
<1>3. UNCHANGED <<exc, cacheVars, text, live>> /\ Goto("check")
  BY DEF CallJava
<1>4. \A x \in Frames :
           x.fn = stack[1].fn /\ x.detail = stack[1].detail /\ x.at = "check"
           => Placed(x)
  BY <1>2 DEF Placed
<1>5. "check" \in Points
  BY DEF Points
<1>6. UNCHANGED <<pending, faults>> \/ (Fault /\ pending' \in {TRUE, pending})
  BY DEF CallJava
<1> QED
  BY <1>2, <1>3, <1>4, <1>5, <1>6, PlainGoto

LEMMA NoPendingKeeps == ASSUME IInv, NoPending PROVE IInv'
<1>1. PICK fn \in Callers : At(fn, "check")
  BY DEF NoPending
<1>2. Running /\ stack[1].detail = NoDetail /\ ~Serves(stack[1])
  BY <1>1, AtFacts DEF Callers, Serves
<1>3. UNCHANGED <<exc, cacheVars, text, live>> /\ UNCHANGED <<pending, faults>> /\ Return
  BY DEF NoPending
<1> QED
  BY <1>2, <1>3, PlainReturn

LEMMA CheckAndClearKeeps == ASSUME IInv, CheckAndClear PROVE IInv'
<1>1. PICK fn \in Callers : At(fn, "check")
  BY DEF CheckAndClear
<1>2. Running /\ stack[1].detail = NoDetail /\ stack[1].fn \in Callers /\ stack[1].at = "check"
  BY <1>1, AtFacts
<1>3. UNCHANGED <<exc, cacheVars, text>> /\ UNCHANGED faults /\ pending /\ BuildNative
  BY DEF CheckAndClear
<1> QED
  BY <1>2, <1>3, WrapKeeps

LEMMA GetClassNameKeeps == ASSUME IInv, GetClassName PROVE IInv'
<1>1. At("getClassName", "name") /\ UNCHANGED <<exc, cacheVars, text>>
  BY DEF GetClassName
<1>2. /\ Running /\ stack[1].detail = NoDetail /\ ~Serves(stack[1])
      /\ stack[1].fn = "getClassName" /\ stack[1].at = "name"
  BY <1>1, AtFacts DEF Serves
<1>3. CASE Return /\ UNCHANGED <<pending, faults, live>>
  <2>1. UNCHANGED <<exc, cacheVars, text, live>> /\ UNCHANGED <<pending, faults>>
    BY <1>1, <1>3
  <2> QED
    BY <1>2, <1>3, <2>1, PlainReturn
<1>4. CASE Fault /\ BuildNative
  BY <1>1, <1>2, <1>4, WrapKeeps
<1> QED
  BY <1>3, <1>4 DEF GetClassName

LEMMA TraceWritersKeeps == ASSUME IInv, TraceWriters PROVE IInv'
<1>1. UNCHANGED <<exc, cacheVars, text, live>> /\ UNCHANGED pending /\ UNCHANGED faults
  BY DEF TraceWriters
<1>2. /\ {"printer", "class", "text", "find", "method"} \subseteq Points
      /\ {"newObject", "callMethod"} \subseteq Functions
      /\ {Writer, Printer} \subseteq Pointers
  BY DEF Points, Functions, Callers, Pointers
<1>3. \A f \in Frames : f.fn = "newObject" /\ f.at = "find" /\ f.detail = NoDetail
                         => Placed(f) /\ ~Serves(f)
  BY DEF Placed, Serves, Callers
<1>4. \A f \in Frames : f.fn = "callMethod" /\ f.at = "method" /\ f.detail = NoDetail
                         => Placed(f) /\ ~Serves(f)
  BY DEF Placed, Serves, Callers
<1>5. ASSUME At("trace", "writer"), Call("printer", Frame("newObject", "find", Writer)) PROVE IInv'
  <2>1. Running /\ stack[1].fn = "trace" /\ stack[1].at = "writer" /\ stack[1].detail = NoDetail
    BY <1>5, AtFacts
  <2>2. \A x \in Frames :
             x.fn = stack[1].fn /\ x.detail = stack[1].detail /\ x.at = "printer"
             => Placed(x) /\ Waiting(x)
    BY <2>1 DEF Placed, Waiting
  <2> QED
    BY <1>1, <1>2, <1>3, <1>5, <2>1, <2>2, PlainCall
<1>6. ASSUME At("trace", "printer"), Call("class", Frame("newObject", "find", Printer)) PROVE IInv'
  <2>1. Running /\ stack[1].fn = "trace" /\ stack[1].at = "printer" /\ stack[1].detail = NoDetail
    BY <1>6, AtFacts
  <2>2. \A x \in Frames :
             x.fn = stack[1].fn /\ x.detail = stack[1].detail /\ x.at = "class"
             => Placed(x) /\ Waiting(x)
    BY <2>1 DEF Placed, Waiting
  <2> QED
    BY <1>1, <1>2, <1>3, <1>6, <2>1, <2>2, PlainCall
<1>7. ASSUME At("trace", "call"), Call("text", Frame("callMethod", "method", Writer)) PROVE IInv'
  <2>1. Running /\ stack[1].fn = "trace" /\ stack[1].at = "call" /\ stack[1].detail = NoDetail
    BY <1>7, AtFacts
  <2>2. \A x \in Frames :
             x.fn = stack[1].fn /\ x.detail = stack[1].detail /\ x.at = "text"
             => Placed(x) /\ Waiting(x)
    BY <2>1 DEF Placed, Waiting
  <2> QED
    BY <1>1, <1>2, <1>4, <1>7, <2>1, <2>2, PlainCall
<1> QED
  BY <1>5, <1>6, <1>7 DEF TraceWriters

LEMMA TraceLookUpKeeps == ASSUME IInv, TraceLookUp PROVE IInv'
<1>1. PICK at \in {"class", "method"} : At("trace", at)
  BY DEF TraceLookUp
<1>2. /\ Running /\ Top = stack[1] /\ stack[1].fn = "trace" /\ stack[1].at = at
      /\ stack[1].detail = NoDetail /\ ~Serves(stack[1])
  BY <1>1, AtFacts DEF Serves
<1>3. UNCHANGED <<exc, cacheVars, text, live>>
  BY DEF TraceLookUp
<1>4. CASE Fault /\ pending' = TRUE /\ Return
  BY <1>2, <1>3, <1>4, PlainReturn
<1>5. CASE Goto(IF Top.at = "class" THEN "method" ELSE "print") /\ UNCHANGED <<pending, faults>>
  <2>1. PICK next \in {"method", "print"} : Goto(next)
    BY <1>5
  <2>2. next \in Points
    BY DEF Points
  <2>3. \A x \in Frames :
             x.fn = stack[1].fn /\ x.detail = stack[1].detail /\ x.at = next
             => Placed(x)
    BY <1>2 DEF Placed
  <2> QED
    BY <1>2, <1>3, <1>5, <2>1, <2>2, <2>3, PlainGoto
<1> QED
  BY <1>4, <1>5 DEF TraceLookUp

LEMMA TracePrintKeeps == ASSUME IInv, TracePrint PROVE IInv'
<1>1. Running /\ stack[1].fn = "trace" /\ stack[1].detail = NoDetail
  BY AtFacts DEF TracePrint
<1>2. UNCHANGED <<exc, cacheVars, text, live>> /\ Goto("call")
  BY DEF TracePrint
<1>3. \A x \in Frames :
           x.fn = stack[1].fn /\ x.detail = stack[1].detail /\ x.at = "call"
           => Placed(x)
  BY <1>1 DEF Placed
<1>4. "call" \in Points /\ stack[1].fn # "get"
  BY <1>1 DEF Points
<1>5. UNCHANGED <<pending, faults>> \/ (Fault /\ pending' \in {TRUE, pending})
  BY DEF TracePrint
<1> QED
  BY <1>1, <1>2, <1>3, <1>4, <1>5, PlainGoto

LEMMA TraceTextKeeps == ASSUME IInv, TraceText PROVE IInv'
<1>1. Running /\ stack[1].detail = NoDetail /\ ~Serves(stack[1])
  BY AtFacts DEF TraceText, Serves
<1>2. UNCHANGED <<exc, cacheVars, text, live>> /\ Return
  BY DEF TraceText
<1>3. UNCHANGED <<pending, faults>> \/ (Fault /\ pending' \in {TRUE, pending})
  BY DEF TraceText
<1> QED
  BY <1>1, <1>2, <1>3, PlainReturn

-------------------------------------------------------------------------------
(* Exceptions thrown *)

\* The account does not change, nor does the name of a class.
LEMMA UnpaidStep ==
  ASSUME IInv, UNCHANGED <<pending, faults, text, live>>, exc' \in Exceptions,
         locked' \in BOOLEAN, refs' \subseteq Pointers,
         cache' \in [Pointers -> Names \cup {Writer, Printer, NoClass}],
         ExcInv', StackInv' /\ stack' \in Seq(Frames)
  PROVE  IInv'
<1>1. pending' \in BOOLEAN /\ faults' \in 0..MaxFaults /\ LiveInv'
  BY LiveKept
<1>2. TypeInv'
  BY <1>1 DEF IInv, TypeInv
<1> QED
  BY <1>1, <1>2 DEF IInv

\* Only the kind of exception in flight changes.
LEMMA StillKeeps ==
  ASSUME IInv, stack' = stack, exc'.detail = exc.detail, UNCHANGED <<live, cacheVars>>
  PROVE  StackInv' /\ stack' \in Seq(Frames)
<1>1. /\ Len(stack') = Len(stack) /\ live' = live
      /\ locked' = locked /\ cache' = cache /\ refs' = refs
  BY DEF cacheVars
<1>2. FramesInv'
  BY <1>1 DEF IInv, StackInv, FramesInv, Placed, Waiting
<1>3. OwnedInv'
  BY <1>1 DEF IInv, StackInv, OwnedInv
<1>4. (locked <=> \E k \in 1..Len(stack) : Serves(stack[k]))'
  BY <1>1 DEF IInv, StackInv, ServeInv, Serves
<1>5. (\A j, k \in 1..Len(stack) : Serves(stack[j]) /\ Serves(stack[k]) => j = k)'
  BY <1>1 DEF IInv, StackInv, ServeInv, Serves
<1>6. (\A k \in 1..Len(stack) : Serves(stack[k]) => cache[stack[k].ptr] = NoClass)'
  BY <1>1 DEF IInv, StackInv, ServeInv, Serves
<1>7. RefsInv'
  BY <1>1 DEF IInv, StackInv, RefsInv
<1>8. stack' \in Seq(Frames)
  BY DEF IInv, TypeInv
<1> QED
  BY <1>2, <1>3, <1>4, <1>5, <1>6, <1>7, <1>8 DEF StackInv, ServeInv

LEMMA ThrowNativeKeeps == ASSUME IInv, ThrowNative PROVE IInv'
<1>1. stack # <<>> /\ exc = NoException /\ Top.at = "throw"
  BY DEF ThrowNative, Running
<1>2. /\ stack \in Seq(Frames) /\ Top = stack[1] /\ stack[1] \in Frames /\ Placed(stack[1])
  BY <1>1, TopFacts
<1> DEFINE x == [Top EXCEPT !.detail = NoDetail]
<1>3. /\ x \in Frames /\ x.fn = stack[1].fn /\ x.ptr = stack[1].ptr /\ x.at = stack[1].at
      /\ x.detail = NoDetail
  BY <1>2 DEF Frames
<1>4. stack' = <<x>> \o Tail(stack)
  BY DEF ThrowNative
<1>5. exc' \in Exceptions /\ exc'.kind = "native" /\ exc'.detail = stack[1].detail
  BY <1>2 DEF ThrowNative, Native, Exceptions, Frames
<1>6. /\ UNCHANGED <<pending, faults, text, live>>
      /\ live' = live /\ locked' = locked /\ cache' = cache /\ refs' = refs
  BY DEF ThrowNative, cacheVars
<1>7. exc.detail = NoDetail
  BY <1>1 DEF NoException
<1> HIDE DEF x
<1>8. Placed(x) /\ ~Serves(x) /\ ~Serves(stack[1]) /\ x.at # "insert" /\ stack[1].at # "insert"
      /\ x.fn # "get"
  BY <1>1, <1>2, <1>3 DEF Placed, Serves, Callers
<1>9. StackInv' /\ stack' \in Seq(Frames)
  BY <1>1, <1>3, <1>4, <1>5, <1>6, <1>7, <1>8, GotoKeeps
<1>10. stack'[1] = x
  BY <1>1, <1>2, <1>3, <1>4, GotoEffect
<1>11. ExcInv'
  BY <1>3, <1>5, <1>8, <1>10 DEF ExcInv
<1>12. /\ locked' \in BOOLEAN /\ refs' \subseteq Pointers
       /\ cache' \in [Pointers -> Names \cup {Writer, Printer, NoClass}]
  BY <1>6 DEF IInv, TypeInv
<1> QED
  BY <1>5, <1>6, <1>9, <1>11, <1>12, UnpaidStep

LEMMA ThrowNewGlobalRefKeeps == ASSUME IInv, ThrowNewGlobalRef PROVE IInv'
<1>1. /\ stack # <<>> /\ exc = NoException /\ stack[1].at = "refFailed" /\ stack[1].detail = NoDetail
  BY AtFacts DEF ThrowNewGlobalRef
<1>2. /\ exc' = Native(NoDetail) /\ stack' = stack
      /\ UNCHANGED <<pending, faults, text, live>> /\ UNCHANGED <<live, cacheVars>>
  BY DEF ThrowNewGlobalRef
<1>3. exc' \in Exceptions /\ exc'.detail = NoDetail /\ exc.detail = NoDetail
  BY <1>1, <1>2 DEF Native, Exceptions, NoException
<1>4. StackInv' /\ stack' \in Seq(Frames)
  BY <1>2, <1>3, StillKeeps
<1>5. ExcInv'
  BY <1>1, <1>2, <1>3 DEF ExcInv
<1>6. /\ locked' \in BOOLEAN /\ refs' \subseteq Pointers
      /\ cache' \in [Pointers -> Names \cup {Writer, Printer, NoClass}]
  BY <1>2 DEF IInv, TypeInv, cacheVars
<1> QED
  BY <1>2, <1>3, <1>4, <1>5, <1>6, UnpaidStep

-------------------------------------------------------------------------------
(* ClassCache::get *)

\* The call of get that serves a miss has the lock, and its class is not in the cache.
LEMMA ServerHasLock ==
  ASSUME IInv, stack # <<>>, Serves(stack[1])
  PROVE  locked /\ cache[stack[1].ptr] = NoClass
<1>1. 1 \in 1..Len(stack)
  BY TopFacts
<1> QED
  BY <1>1 DEF IInv, StackInv, ServeInv

LEMMA LockAndLookUpKeeps == ASSUME IInv, LockAndLookUp PROVE IInv'
<1>1. /\ At("get", "lock") /\ ~locked
      /\ UNCHANGED <<exc, pending, faults, cache, refs, text, live>>
  BY DEF LockAndLookUp
<1>2. /\ Running /\ stack # <<>> /\ exc = NoException /\ stack \in Seq(Frames) /\ Top = stack[1]
      /\ stack[1].fn = "get" /\ stack[1].at = "lock" /\ stack[1].ptr \in Pointers
      /\ stack[1].detail = NoDetail
  BY <1>1, AtFacts
<1>3. ~Serves(stack[1])
  BY <1>2 DEF Serves
<1>4. CASE Return /\ UNCHANGED locked
  <2>1. UNCHANGED <<exc, cacheVars, text, live>> /\ UNCHANGED <<pending, faults>>
    BY <1>1, <1>4 DEF cacheVars
  <2> QED
    BY <1>2, <1>3, <1>4, <2>1, PlainReturn
<1>5. CASE cache[Top.ptr] = NoClass /\ Goto("find") /\ locked' = TRUE
  <2>1. "find" \in Points
    BY DEF Points
  <2>2. PICK x \in Frames : /\ stack' = <<x>> \o Tail(stack)
                            /\ x.fn = stack[1].fn /\ x.ptr = stack[1].ptr /\ x.detail = stack[1].detail
                            /\ x.at = "find"
    BY <1>2, <1>5, <2>1, GotoFrame
  <2>3. Placed(x) /\ Serves(x)
    BY <1>2, <2>2 DEF Placed, Serves
  <2>4. cache[x.ptr] = NoClass
    BY <1>2, <1>5, <2>2
  <2>5. locked' <=> locked \/ Serves(x)
    BY <1>5, <2>3
  <2>6. exc' = exc /\ live' = live /\ text' = text /\ cache' = cache /\ refs' = refs
        /\ UNCHANGED <<pending, faults>>
    BY <1>1
  <2>7. StackInv' /\ stack' \in Seq(Frames)
    BY <1>1, <1>2, <1>3, <2>2, <2>3, <2>4, <2>5, <2>6, GotoKeeps
  <2>8. locked' \in BOOLEAN /\ refs' \subseteq Pointers
    BY <1>5, <2>6 DEF IInv, TypeInv
  <2> QED
    BY <1>2, <2>6, <2>7, <2>8, QuietStep
<1> QED
  BY <1>4, <1>5 DEF LockAndLookUp

\* The call of get that serves a miss goes on.
LEMMA ServerGoto ==
  ASSUME IInv, NEW at \in {"ref", "insert"}, Goto(at),
         At("get", "find") \/ At("get", "ref"),
         UNCHANGED <<exc, pending, faults, locked, cache, text, live>>,
         refs' = IF at = "insert" THEN refs \cup {stack[1].ptr} ELSE refs
  PROVE  IInv'
<1>1. /\ stack # <<>> /\ exc = NoException /\ stack \in Seq(Frames)
      /\ stack[1].fn = "get" /\ stack[1].at \in {"find", "ref"} /\ stack[1].ptr \in Pointers
      /\ stack[1].detail = NoDetail
  BY AtFacts
<1>2. at \in Points
  BY DEF Points
<1>3. PICK x \in Frames : /\ stack' = <<x>> \o Tail(stack)
                          /\ x.fn = stack[1].fn /\ x.ptr = stack[1].ptr /\ x.detail = stack[1].detail
                          /\ x.at = at
  BY <1>1, <1>2, GotoFrame
<1>4. Placed(x) /\ Serves(x) /\ Serves(stack[1])
  BY <1>1, <1>3 DEF Placed, Serves
<1>5. locked
  BY <1>1, <1>4, ServerHasLock
<1>6. locked' <=> locked \/ Serves(x)
  BY <1>4, <1>5
<1>7. /\ exc' = exc /\ live' = live /\ text' = text /\ cache' = cache
      /\ UNCHANGED <<pending, faults>>
      /\ refs' = IF x.at = "insert" THEN refs \cup {x.ptr} ELSE refs
  BY <1>3
<1>8. StackInv' /\ stack' \in Seq(Frames)
  BY <1>1, <1>3, <1>4, <1>6, <1>7, GotoKeeps
<1>9. locked' \in BOOLEAN /\ refs' \subseteq Pointers
  BY <1>1 DEF IInv, TypeInv
<1> QED
  BY <1>1, <1>7, <1>8, <1>9, QuietStep

LEMMA FindClassKeeps == ASSUME IInv, FindClass PROVE IInv'
<1>1. At("get", "find") /\ UNCHANGED <<cacheVars, text>>
  BY DEF FindClass
<1>2. /\ stack # <<>> /\ exc = NoException /\ stack \in Seq(Frames)
      /\ stack[1].fn = "get" /\ stack[1].at = "find" /\ stack[1].detail = NoDetail
  BY <1>1, AtFacts
<1>3. CASE ~pending /\ Goto("ref") /\ UNCHANGED <<exc, pending, faults, live>>
  <2>1. UNCHANGED <<exc, pending, faults, locked, cache, text, live>> /\ refs' = refs
    BY <1>1, <1>3 DEF cacheVars
  <2> QED
    BY <1>1, <1>3, <2>1, ServerGoto
<1>4. CASE /\ IF pending THEN UNCHANGED faults ELSE Fault
           /\ LET d == CHOOSE n \in Details \ live : TRUE IN
                exc' = Native(d) /\ live' = live \cup {d}
           /\ pending' = FALSE
           /\ UNCHANGED stack
  <2> DEFINE d == CHOOSE n \in Details \ live : TRUE
  <2>1. (pending /\ UNCHANGED faults) \/ Fault
    BY <1>4, Zenon
  <2>2. /\ d \in Details \ live /\ d # NoDetail
        /\ Cardinality(live \cup {d}) = Cardinality(live) + 1
    BY <2>1, DetailLeft DEF Fault
  <2>3. exc' = Native(d) /\ live' = live \cup {d} /\ pending' = FALSE /\ stack' = stack
    BY <1>4
  <2> HIDE DEF d
  <2>4. LiveInv' /\ faults' \in 0..MaxFaults
    BY <2>1, <2>2, <2>3, WrapAccount
  <2>5. exc' \in Exceptions /\ exc'.kind = "native" /\ exc'.detail = d /\ exc.detail = NoDetail
    BY <1>2, <2>2, <2>3 DEF Native, Exceptions, NoException
  <2>6. ExcInv'
    BY <1>2, <2>3, <2>5 DEF ExcInv
  <2>7. /\ Len(stack') = Len(stack)
        /\ locked' = locked /\ cache' = cache /\ refs' = refs /\ text' = text
    BY <1>1, <2>3 DEF cacheVars
  <2>8. FramesInv'
    BY <2>3, <2>7 DEF IInv, StackInv, FramesInv, Placed, Waiting
  <2>9. OwnedInv'
    <3>1. /\ \A e \in live : \E k \in 1..Len(stack) : stack[k].detail = e
          /\ \A k \in 1..Len(stack) : stack[k].detail # NoDetail => stack[k].detail \in live
          /\ \A j, k \in 1..Len(stack) :
               stack[j].detail = stack[k].detail /\ stack[j].detail # NoDetail => j = k
      <4>1. \A e \in live : e # NoDetail
        BY DEF IInv, TypeInv, Details, NoDetail
      <4> QED
        BY <2>5, <4>1 DEF IInv, StackInv, OwnedInv
    <3>2. (\A e \in live : e = exc.detail \/ \E k \in 1..Len(stack) : stack[k].detail = e)'
      BY <2>3, <2>5, <2>7, <3>1
    <3>3. (\A k \in 1..Len(stack) :
             stack[k].detail # NoDetail => stack[k].detail \in live /\ stack[k].detail # exc.detail)'
      BY <2>2, <2>3, <2>5, <2>7, <3>1
    <3>4. (\A j, k \in 1..Len(stack) :
             stack[j].detail = stack[k].detail /\ stack[j].detail # NoDetail => j = k)'
      BY <2>3, <2>7, <3>1
    <3>5. exc'.detail # NoDetail => exc'.detail \in live'
      BY <2>3, <2>5
    <3> QED
      BY <3>2, <3>3, <3>4, <3>5 DEF OwnedInv
  <2>10. ServeInv'
    <3>1. (locked <=> \E k \in 1..Len(stack) : Serves(stack[k]))'
      BY <2>3, <2>7 DEF IInv, StackInv, ServeInv, Serves
    <3>2. (\A j, k \in 1..Len(stack) : Serves(stack[j]) /\ Serves(stack[k]) => j = k)'
      BY <2>3, <2>7 DEF IInv, StackInv, ServeInv, Serves
    <3>3. (\A k \in 1..Len(stack) : Serves(stack[k]) => cache[stack[k].ptr] = NoClass)'
      BY <2>3, <2>7 DEF IInv, StackInv, ServeInv, Serves
    <3> QED
      BY <3>1, <3>2, <3>3 DEF ServeInv
  <2>11. RefsInv'
    BY <2>3, <2>7 DEF IInv, StackInv, RefsInv
  <2>12. live' \subseteq Details
    BY <2>2, <2>3 DEF IInv, TypeInv
  <2>13. TypeInv'
    BY <1>2, <2>3, <2>4, <2>5, <2>7, <2>12 DEF IInv, TypeInv
  <2> QED
    BY <2>4, <2>6, <2>8, <2>9, <2>10, <2>11, <2>13 DEF IInv, StackInv
<1> QED
  BY <1>3, <1>4 DEF FindClass

LEMMA NewGlobalRefKeeps == ASSUME IInv, NewGlobalRef PROVE IInv'
<1>1. At("get", "ref") /\ UNCHANGED <<exc, pending, locked, cache, text, live>>
  BY DEF NewGlobalRef
<1>2. /\ Running /\ Top = stack[1]
      /\ stack[1].fn = "get" /\ stack[1].at = "ref" /\ stack[1].ptr \in Pointers
      /\ stack[1].detail = NoDetail
  BY <1>1, AtFacts
<1>3. CASE Goto("insert") /\ refs' = refs \cup {Top.ptr} /\ UNCHANGED faults
  <2>1. /\ UNCHANGED <<exc, pending, faults, locked, cache, text, live>>
        /\ refs' = refs \cup {stack[1].ptr}
    BY <1>1, <1>2, <1>3
  <2> QED
    BY <1>1, <1>3, <2>1, ServerGoto
<1>4. CASE /\ Fault /\ Call("refFailed", Frame("getClassName", "name", Top.ptr))
           /\ UNCHANGED refs
  <2> DEFINE p == stack[1].ptr
  <2>1. Call("refFailed", Frame("getClassName", "name", p))
    BY <1>2, <1>4
  <2>2. UNCHANGED <<exc, cacheVars, text, live>>
    BY <1>1, <1>4 DEF cacheVars
  <2>3. \A f \in Frames : f.fn = "getClassName" /\ f.at = "name" /\ f.detail = NoDetail
                            => Placed(f) /\ ~Serves(f)
    BY DEF Placed, Serves
  <2>4. \A x \in Frames : x.fn = stack[1].fn /\ x.detail = stack[1].detail /\ x.at = "refFailed"
                            => Placed(x) /\ Waiting(x)
    BY <1>2 DEF Placed, Waiting
  <2>5. /\ p \in Pointers /\ "refFailed" \in Points /\ "name" \in Points
        /\ "getClassName" \in Functions
    BY <1>2 DEF Points, Functions
  <2>6. UNCHANGED pending /\ Fault
    BY <1>1, <1>4
  <2>7. "refFailed" # "throw" /\ "refFailed" # "lock" /\ stack[1].at \notin {"insert", "lock"}
    BY <1>2
  <2> HIDE DEF p
  <2> QED
    BY <1>2, <2>1, <2>2, <2>3, <2>4, <2>5, <2>6, <2>7, PlainCall
<1> QED
  BY <1>3, <1>4 DEF NewGlobalRef

LEMMA InsertKeeps == ASSUME IInv, Insert PROVE IInv'
<1>1. At("get", "insert") /\ UNCHANGED <<pending, refs, text, live>>
  BY DEF Insert
<1>2. /\ stack # <<>> /\ exc = NoException /\ Top = stack[1]
      /\ stack[1].fn = "get" /\ stack[1].at = "insert" /\ stack[1].ptr \in Pointers
      /\ stack[1].detail = NoDetail
  BY <1>1, AtFacts
<1>3. CASE /\ cache' = [cache EXCEPT ![Top.ptr] = text[Top.ptr]]
           /\ locked' = FALSE
           /\ Return
           /\ UNCHANGED <<exc, faults>>
  <2> DEFINE c == text[stack[1].ptr]
  <2>1. c \in Names \cup {Writer, Printer}
    BY <1>2 DEF IInv, TypeInv
  <2>2. cache' = [cache EXCEPT ![stack[1].ptr] = c]
    BY <1>2, <1>3
  <2> HIDE DEF c
  <2>3. Serves(stack[1])
    BY <1>2 DEF Serves
  <2>4. /\ exc' = exc /\ live' = live /\ refs' = refs /\ ~locked'
        /\ UNCHANGED <<pending, faults, text, live>>
    BY <1>1, <1>3
  <2>5. StackInv' /\ stack' \in Seq(Frames)
    BY <1>2, <1>3, <2>1, <2>2, <2>3, <2>4, ServedKeeps
  <2>6. ExcInv'
    BY <1>2, <2>4, NoExcInv
  <2>7. cache' \in [Pointers -> Names \cup {Writer, Printer, NoClass}]
    BY <1>2, <2>1, <2>2 DEF IInv, TypeInv
  <2>8. locked' \in BOOLEAN /\ refs' \subseteq Pointers /\ exc' \in Exceptions
    BY <1>3, <2>4 DEF IInv, TypeInv
  <2> QED
    BY <2>4, <2>5, <2>6, <2>7, <2>8, UnpaidStep
<1>4. CASE Fault /\ exc' = BadAlloc /\ UNCHANGED <<stack, cache, locked>>
  <2>1. stack' = stack /\ UNCHANGED <<live, cacheVars>> /\ live' = live
    BY <1>1, <1>4 DEF cacheVars
  <2>2. exc' \in Exceptions /\ exc'.detail = NoDetail /\ exc.detail = NoDetail
    BY <1>2, <1>4 DEF BadAlloc, Exceptions, NoException
  <2>3. StackInv' /\ stack' \in Seq(Frames)
    BY <2>1, <2>2, StillKeeps
  <2>4. ExcInv'
    BY <1>2, <2>1, <2>2 DEF ExcInv
  <2>5. Fault /\ pending' \in {TRUE, pending}
    <3>1. pending' = pending
      BY <1>1
    <3> QED
      BY <1>4, <3>1, Zenon
  <2>6. pending' \in BOOLEAN /\ faults' \in 0..MaxFaults /\ LiveInv'
    BY <2>1, <2>5, LiveKept
  <2>7. TypeInv'
    BY <1>1, <1>4, <2>2, <2>3, <2>6 DEF IInv, TypeInv
  <2> QED
    BY <2>3, <2>4, <2>6, <2>7 DEF IInv
<1> QED
  BY <1>3, <1>4 DEF Insert

-------------------------------------------------------------------------------
(* Unwinding *)

\* What holds of the function through which an exception passes.
LEMMA UnwindFacts ==
  ASSUME IInv, NEW fn, Unwinding(fn)
  PROVE  /\ stack # <<>> /\ exc # NoException /\ Top = stack[1]
         /\ stack[1].fn = fn /\ stack[1].detail = NoDetail
         /\ fn = "get" <=> Serves(stack[1])
<1>1. stack # <<>> /\ exc # NoException /\ Top.fn = fn
  BY DEF Unwinding
<1>2. Top = stack[1]
  BY <1>1, TopFacts
<1> QED
  BY <1>1, <1>2 DEF IInv, ExcInv, Serves

\* The exception passes through a function that keeps no more than its place.
LEMMA UnwindThrough ==
  ASSUME IInv, NEW fn \in Callers, Unwinding(fn), Return,
         UNCHANGED <<exc, pending, faults, cacheVars, text, live>>
  PROVE  IInv'
<1>1. /\ stack # <<>> /\ stack[1].fn = fn /\ stack[1].detail = NoDetail
      /\ fn = "get" <=> Serves(stack[1])
  BY UnwindFacts
<1>2. fn # "get" /\ fn # "trace"
  BY DEF Callers
<1>3. /\ exc' = exc /\ live' = live /\ locked' = locked /\ cache' = cache /\ refs' = refs
      /\ UNCHANGED <<pending, faults, text, live>>
  BY DEF cacheVars
<1>4. StackInv' /\ stack' \in Seq(Frames)
  BY <1>1, <1>2, <1>3, PopKeeps
<1>5. ExcInv'
  BY <1>1, <1>2, <1>3, UnwindExcInv
<1>6. /\ locked' \in BOOLEAN /\ refs' \subseteq Pointers /\ exc' \in Exceptions
      /\ cache' \in [Pointers -> Names \cup {Writer, Printer, NoClass}]
  BY <1>3 DEF IInv, TypeInv
<1> QED
  BY <1>3, <1>4, <1>5, <1>6, UnpaidStep

LEMMA UnwindCallersKeeps ==
  ASSUME IInv, UnwindCallMethod \/ Rethrow \/ UnwindNewObject
  PROVE  IInv'
<1>1. PICK fn \in Callers : Unwinding(fn)
  BY DEF UnwindCallMethod, Rethrow, UnwindNewObject, Callers
<1>2. Return /\ UNCHANGED <<exc, pending, faults, cacheVars, text, live>>
  BY DEF UnwindCallMethod, Rethrow, UnwindNewObject
<1> QED
  BY <1>1, <1>2, UnwindThrough

LEMMA UnwindGetKeeps == ASSUME IInv, UnwindGet PROVE IInv'
<1>1. /\ stack # <<>> /\ Top = stack[1] /\ stack[1].fn = "get" /\ stack[1].detail = NoDetail
      /\ Serves(stack[1])
  BY UnwindFacts DEF UnwindGet
<1>2. /\ Return /\ ~locked' /\ locked' \in BOOLEAN
      /\ exc' = exc /\ live' = live /\ cache' = cache /\ UNCHANGED <<pending, faults, text, live>>
  BY DEF UnwindGet
<1>3. refs' = IF stack[1].at = "insert" THEN refs \ {stack[1].ptr} ELSE refs
  BY <1>1 DEF UnwindGet
<1>4. StackInv' /\ stack' \in Seq(Frames)
  BY <1>1, <1>2, <1>3, ServedKeeps
<1>5. ExcInv'
  BY <1>1, <1>2, UnwindExcInv
<1>6. /\ refs' \subseteq Pointers /\ exc' \in Exceptions
      /\ cache' \in [Pointers -> Names \cup {Writer, Printer, NoClass}]
  BY <1>2, <1>3 DEF IInv, TypeInv
<1> QED
  BY <1>2, <1>4, <1>5, <1>6, UnpaidStep

\* A throwable is deleted, or none.
LEMMA LiveShrinks ==
  ASSUME IInv, live' = live \ {exc.detail}, UNCHANGED <<pending, faults>>
  PROVE  LiveInv' /\ live' \subseteq Details
<1> DEFINE c == Cardinality(live)
           e == Cardinality(live')
           p == IF pending THEN 1 ELSE 0
<1>1. c + p + faults <= MaxFaults
  BY DEF IInv, LiveInv
<1>2. /\ c \in Nat /\ IsFiniteSet(live) /\ faults \in Nat /\ MaxFaults \in Nat
      /\ live \subseteq Details
  BY LiveFinite DEF IInv, TypeInv
<1>3. p \in Nat
  OBVIOUS
<1>4. e \in Nat /\ e <= c
  <2>1. live' \in SUBSET live
    OBVIOUS
  <2> QED
    BY <1>2, <2>1, FS_Subset, FS_CardinalityType
<1>5. (IF pending' THEN 1 ELSE 0) = p
  OBVIOUS
<1> HIDE DEF c, e, p
<1>6. e + p + faults <= MaxFaults
  BY <1>1, <1>2, <1>3, <1>4
<1>7. e + (IF pending' THEN 1 ELSE 0) + faults' <= MaxFaults
  BY <1>5, <1>6
<1> QED
  BY <1>2, <1>7 DEF LiveInv, e

LEMMA DiscardKeeps == ASSUME IInv, Discard PROVE IInv'
<1>1. PICK fn \in {"getClassName", "trace"} : Unwinding(fn)
  BY DEF Discard
<1>2. /\ stack # <<>> /\ stack[1].detail = NoDetail /\ ~Serves(stack[1])
  BY <1>1, UnwindFacts
<1>3. /\ Return /\ exc' = NoException /\ live' = live \ {exc.detail} /\ text' = text
      /\ locked' = locked /\ cache' = cache /\ refs' = refs /\ UNCHANGED <<pending, faults>>
  BY DEF Discard, cacheVars
<1>4. exc'.detail = NoDetail /\ exc' \in Exceptions
  BY <1>3 DEF NoException, Exceptions
<1>5. StackInv' /\ stack' \in Seq(Frames)
  BY <1>2, <1>3, <1>4, PopKeeps
<1>6. ExcInv'
  BY <1>3, NoExcInv
<1>7. LiveInv' /\ live' \subseteq Details
  BY <1>3, LiveShrinks
<1>8. TypeInv'
  BY <1>3, <1>4, <1>5, <1>7 DEF IInv, TypeInv
<1> QED
  BY <1>5, <1>6, <1>7, <1>8 DEF IInv

LEMMA SuppressKeeps == ASSUME IInv, SuppressInToString PROVE IInv'
<1>1. stack # <<>> /\ stack[1].detail = NoDetail /\ ~Serves(stack[1])
  BY UnwindFacts DEF SuppressInToString
<1>2. /\ Return /\ exc' = NoException /\ live' = live /\ exc.kind = "std"
      /\ locked' = locked /\ cache' = cache /\ refs' = refs
      /\ UNCHANGED <<pending, faults, text, live>>
  BY DEF SuppressInToString, cacheVars
<1>3. exc.detail = NoDetail
  BY <1>2 DEF IInv, ExcInv
<1>4. exc'.detail = exc.detail /\ exc' \in Exceptions
  BY <1>2, <1>3 DEF NoException, Exceptions
<1>5. StackInv' /\ stack' \in Seq(Frames)
  BY <1>1, <1>2, <1>4, PopKeeps
<1>6. ExcInv'
  BY <1>2, NoExcInv
<1>7. /\ locked' \in BOOLEAN /\ refs' \subseteq Pointers
      /\ cache' \in [Pointers -> Names \cup {Writer, Printer, NoClass}]
  BY <1>2 DEF IInv, TypeInv
<1> QED
  BY <1>2, <1>4, <1>5, <1>6, <1>7, UnpaidStep

-------------------------------------------------------------------------------
(* The application *)

\* Between two calls the lock is free, and no throwable is kept but the one of
\* the exception in flight.
LEMMA IdleFacts ==
  ASSUME IInv, stack = <<>>
  PROVE  /\ Len(stack) = 0 /\ ~locked /\ live \subseteq {exc.detail}
         /\ \A p \in refs : cache[p] # NoClass
<1>1. Len(stack) = 0
  BY EmptySeq
<1>2. \A k \in 1..Len(stack) : FALSE
  BY <1>1
<1> QED
  BY <1>1, <1>2 DEF IInv, StackInv, ServeInv, OwnedInv, RefsInv

\* Each action of the application.
LEMMA StartCallKeeps == ASSUME IInv, StartCall PROVE IInv'
<1>1. /\ stack = <<>> /\ exc = NoException
      /\ exc' = exc /\ live' = live /\ locked' = locked /\ cache' = cache /\ refs' = refs
      /\ text' = text /\ UNCHANGED <<pending, faults>>
  BY DEF StartCall, cacheVars
<1>2. PICK fn \in Callers \cup {"get"}, at \in {"find", "method", "lock"}, p \in Buffers :
        /\ stack' = <<Frame(fn, at, p)>>
        /\ fn = "get" <=> at = "lock"
  BY DEF StartCall, Callers
<1> DEFINE f == Frame(fn, at, p)
<1>3. f \in Frames /\ f.fn = fn /\ f.at = at /\ f.detail = NoDetail
  BY DEF Frames, Frame, Functions, Points, Pointers
<1> HIDE DEF f
<1>4. Placed(f) /\ ~Serves(f) /\ f.at # "insert"
  BY <1>2, <1>3 DEF Placed, Serves
<1>5. /\ stack' \in Seq(Frames) /\ Len(stack') = 1 /\ stack'[1] = f
      /\ \A k \in 1..1 : stack'[k] = f
  <2>1. stack' = <<f>>
    BY <1>2 DEF f
  <2> QED
    BY <1>3, <2>1
<1>6. ~locked /\ live = {} /\ exc.detail = NoDetail /\ \A q \in refs : cache[q] # NoClass
  <2>1. /\ ~locked /\ live \subseteq {exc.detail} /\ exc.detail = NoDetail
        /\ \A q \in refs : cache[q] # NoClass
    BY <1>1, IdleFacts DEF NoException
  <2>2. NoDetail \notin live
    BY DEF IInv, TypeInv, Details, NoDetail
  <2> QED
    BY <2>1, <2>2
<1>7. FramesInv'
  <2>1. (\A k \in 1..Len(stack) : Placed(stack[k]))'
    BY <1>4, <1>5 DEF Placed
  <2>2. (\A k \in 2..Len(stack) : /\ Waiting(stack[k])
                                  /\ stack[k].at = "throw" => stack[k - 1].fn = "trace")'
    BY <1>5
  <2> QED
    BY <2>1, <2>2 DEF FramesInv
<1>8. OwnedInv'
  BY <1>1, <1>3, <1>5, <1>6 DEF OwnedInv
<1>9. ServeInv'
  <2>1. (\A k \in 1..Len(stack) : ~Serves(stack[k]))'
    BY <1>4, <1>5 DEF Serves
  <2> QED
    BY <1>1, <1>6, <2>1 DEF ServeInv
<1>10. RefsInv'
  BY <1>1, <1>4, <1>5, <1>6 DEF RefsInv, IInv, StackInv
<1>11. ExcInv'
  BY <1>1, NoExcInv
<1>12. /\ locked' \in BOOLEAN /\ refs' \subseteq Pointers /\ exc' \in Exceptions
       /\ cache' \in [Pointers -> Names \cup {Writer, Printer, NoClass}]
  BY <1>1 DEF IInv, TypeInv
<1>13. UNCHANGED <<pending, faults, text, live>>
  BY <1>1
<1> QED
  BY <1>5, <1>7, <1>8, <1>9, <1>10, <1>11, <1>12, <1>13, UnpaidStep DEF StackInv

LEMMA HandleExceptionKeeps == ASSUME IInv, HandleException PROVE IInv'
<1>1. /\ stack = <<>> /\ stack' = stack /\ exc' = NoException
      /\ live' = live \ {exc.detail} /\ text' = text
      /\ locked' = locked /\ cache' = cache /\ refs' = refs /\ UNCHANGED <<pending, faults>>
  BY DEF HandleException, cacheVars
<1>2. /\ Len(stack) = 0 /\ Len(stack') = 0 /\ ~locked /\ live' = {}
      /\ \A p \in refs : cache[p] # NoClass
  BY <1>1, IdleFacts
<1>3. exc'.detail = NoDetail /\ exc' \in Exceptions
  BY <1>1 DEF NoException, Exceptions
<1>4. FramesInv'
  BY <1>2 DEF FramesInv
<1>5. OwnedInv'
  BY <1>2, <1>3 DEF OwnedInv
<1>6. ServeInv'
  BY <1>1, <1>2 DEF ServeInv
<1>7. RefsInv'
  BY <1>1, <1>2 DEF RefsInv, IInv, StackInv
<1>8. ExcInv'
  BY <1>1, NoExcInv
<1>9. LiveInv' /\ live' \subseteq Details
  BY <1>1, LiveShrinks
<1>10. TypeInv'
  BY <1>1, <1>3, <1>9 DEF IInv, TypeInv
<1> QED
  BY <1>4, <1>5, <1>6, <1>7, <1>8, <1>9, <1>10 DEF IInv, StackInv

LEMMA ReuseBufferKeeps == ASSUME IInv, ReuseBuffer PROVE IInv'
<1>1. /\ stack' = stack /\ exc' = exc /\ live' = live /\ UNCHANGED <<live, cacheVars>>
      /\ UNCHANGED <<pending, faults>>
      /\ locked' = locked /\ cache' = cache /\ refs' = refs
  BY DEF ReuseBuffer, cacheVars
<1>2. text' \in [Pointers -> Names \cup {Writer, Printer}]
  BY DEF ReuseBuffer, IInv, TypeInv
<1>3. StackInv' /\ stack' \in Seq(Frames)
  BY <1>1, StillKeeps
<1>4. ExcInv'
  BY <1>1 DEF IInv, ExcInv
<1>5. pending' \in BOOLEAN /\ faults' \in 0..MaxFaults /\ LiveInv'
  BY <1>1, LiveKept
<1>6. TypeInv'
  BY <1>1, <1>2, <1>3, <1>5 DEF IInv, TypeInv
<1> QED
  BY <1>3, <1>4, <1>5, <1>6 DEF IInv

LEMMA StutterKeeps == ASSUME IInv, UNCHANGED vars PROVE IInv'
<1>1. /\ stack' = stack /\ exc' = exc /\ live' = live /\ UNCHANGED <<live, cacheVars>>
      /\ UNCHANGED <<pending, faults, text, live>>
      /\ locked' = locked /\ cache' = cache /\ refs' = refs
  BY DEF vars, cacheVars
<1>2. StackInv' /\ stack' \in Seq(Frames)
  BY <1>1, StillKeeps
<1>3. ExcInv'
  BY <1>1 DEF IInv, ExcInv
<1>4. /\ locked' \in BOOLEAN /\ refs' \subseteq Pointers /\ exc' \in Exceptions
      /\ cache' \in [Pointers -> Names \cup {Writer, Printer, NoClass}]
  BY <1>1 DEF IInv, TypeInv
<1> QED
  BY <1>1, <1>2, <1>3, <1>4, UnpaidStep

-------------------------------------------------------------------------------
(* The theorems *)

LEMMA InitInv == ASSUME Init PROVE IInv
<1>1. Len(stack) = 0 /\ stack \in Seq(Frames) /\ \A k \in 1..Len(stack) : FALSE
  BY EmptySeq DEF Init
<1>2. MaxFaults \in Nat
  BY CallsAssumption
<1>3. TypeInv
  <2>1. faults \in 0..MaxFaults /\ exc \in Exceptions
    BY <1>2 DEF Init, NoException, Exceptions
  <2>2. pending \in BOOLEAN /\ locked \in BOOLEAN
    BY DEF Init
  <2>3. /\ cache \in [Pointers -> Names \cup {Writer, Printer, NoClass}]
        /\ text \in [Pointers -> Names \cup {Writer, Printer}]
        /\ refs \subseteq Pointers /\ live \subseteq Details
    BY DEF Init
  <2> QED
    BY <1>1, <2>1, <2>2, <2>3 DEF TypeInv
<1>4. ExcInv
  BY DEF Init, ExcInv, NoException
<1>5. FramesInv
  BY <1>1 DEF FramesInv
<1>6. OwnedInv
  BY <1>1 DEF OwnedInv, Init, NoException
<1>7. ServeInv
  BY <1>1 DEF ServeInv, Init
<1>8. RefsInv
  BY <1>1 DEF RefsInv, Init
<1>9. LiveInv
  <2>1. Cardinality(live) = 0 /\ faults = MaxFaults
    BY FS_EmptySet DEF Init
  <2>2. (IF pending THEN 1 ELSE 0) = 0
    BY DEF Init
  <2> QED
    BY <1>2, <2>1, <2>2 DEF LiveInv
<1> QED
  BY <1>3, <1>4, <1>5, <1>6, <1>7, <1>8, <1>9 DEF IInv, StackInv

LEMMA StepInv == ASSUME IInv, [Next]_vars PROVE IInv'
<1>1. CASE StartCall \/ HandleException \/ ReuseBuffer
  BY <1>1, StartCallKeeps, HandleExceptionKeeps, ReuseBufferKeeps
<1>2. CASE FindForCall \/ FindMember \/ CallJava \/ NoPending \/ CheckAndClear \/ ThrowNative
  BY <1>2, FindForCallKeeps, FindMemberKeeps, CallJavaKeeps, NoPendingKeeps, CheckAndClearKeeps,
     ThrowNativeKeeps
<1>3. CASE LockAndLookUp \/ FindClass \/ NewGlobalRef \/ ThrowNewGlobalRef \/ Insert \/ GetClassName
  BY <1>3, LockAndLookUpKeeps, FindClassKeeps, NewGlobalRefKeeps, ThrowNewGlobalRefKeeps, InsertKeeps,
     GetClassNameKeeps
<1>4. CASE TraceWriters \/ TraceLookUp \/ TracePrint \/ TraceText
  BY <1>4, TraceWritersKeeps, TraceLookUpKeeps, TracePrintKeeps, TraceTextKeeps
<1>5. CASE \/ UnwindCallMethod \/ Rethrow \/ UnwindNewObject \/ UnwindGet \/ Discard
           \/ SuppressInToString
  BY <1>5, UnwindCallersKeeps, UnwindGetKeeps, DiscardKeeps, SuppressKeeps
<1>6. CASE UNCHANGED vars
  BY <1>6, StutterKeeps
<1> QED
  BY <1>1, <1>2, <1>3, <1>4, <1>5, <1>6 DEF Next, LibraryStep

\* Whatever Java throws, and wherever, the stack, the cache and the throwables stay as
\* IInv describes them.
THEOREM InductiveInvariant == Spec => []IInv
<1>1. Init => IInv
  BY InitInv
<1>2. IInv /\ [Next]_vars => IInv'
  BY StepInv
<1> QED
  BY <1>1, <1>2, PTL DEF Spec

\* The variables keep their types.
THEOREM TypeCorrect == Spec => []TypeOK
<1>1. IInv => TypeOK
  <2> SUFFICES ASSUME IInv PROVE TypeOK
    OBVIOUS
  <2>1. \A k \in DOMAIN stack : stack[k] \in Frames
    BY DEF IInv, TypeInv
  <2>2. {pending, locked} \subseteq BOOLEAN
    BY DEF IInv, TypeInv
  <2>3. /\ exc \in Exceptions /\ faults \in 0..MaxFaults
        /\ cache \in [Pointers -> Names \cup {Writer, Printer, NoClass}]
        /\ text \in [Pointers -> Names \cup {Writer, Printer}]
        /\ refs \subseteq Pointers /\ live \subseteq Details
    BY DEF IInv, TypeInv
  <2> QED
    BY <2>1, <2>2, <2>3 DEF TypeOK, Frames, Exceptions
<1> QED
  BY <1>1, InductiveInvariant, PTL

\* Every throwable that is kept belongs to exactly one exception, thrown or being built:
\* discarding the exception in the final handler deletes all there is to delete.
THEOREM ThrowablesOwned == Spec => []DetailsOwned
<1>1. IInv => DetailsOwned
  <2> SUFFICES ASSUME IInv PROVE DetailsOwned
    OBVIOUS
  <2> DEFINE n == Len(stack)
  <2>1. /\ DOMAIN stack = 1..n
        /\ \A k \in 1..n : Owners[k] = stack[k].detail
    <3>1. stack \in Seq(Frames)
      BY DEF IInv, TypeInv
    <3>2. DOMAIN stack = 1..n
      BY <3>1, LenProperties
    <3> QED
      BY <3>2 DEF Owners
  <2> HIDE DEF n
  <2>2. NoDetail \notin live
    BY DEF IInv, TypeInv, Details, NoDetail
  <2>3. live \subseteq ({exc.detail} \cup {Owners[k] : k \in 1..n}) \ {NoDetail}
    BY <2>1, <2>2 DEF IInv, StackInv, OwnedInv, n
  <2>4. ({exc.detail} \cup {Owners[k] : k \in 1..n}) \ {NoDetail} \subseteq live
    BY <2>1 DEF IInv, StackInv, OwnedInv, n
  <2>5. \A j, k \in 1..n : Owners[j] = Owners[k] /\ Owners[j] # NoDetail => j = k
    BY <2>1 DEF IInv, StackInv, OwnedInv, n
  <2>6. \A k \in 1..n : Owners[k] = exc.detail => Owners[k] = NoDetail
    BY <2>1 DEF IInv, StackInv, OwnedInv, n
  <2> QED
    BY <2>1, <2>3, <2>4, <2>5, <2>6 DEF DetailsOwned
<1> QED
  BY <1>1, InductiveInvariant, PTL

\* The lock of the cache is held exactly while one call of get serves a miss: neither a
\* failure in it nor a failure while that failure is reported leaves it locked.
THEOREM LockIsServing == Spec => []LockFollowsStack
<1>1. IInv => LockFollowsStack
  <2> SUFFICES ASSUME IInv PROVE LockFollowsStack
    OBVIOUS
  <2>1. Serving = {k \in 1..Len(stack) : Serves(stack[k])}
    <3>1. stack \in Seq(Frames)
      BY DEF IInv, TypeInv
    <3>2. DOMAIN stack = 1..Len(stack)
      BY <3>1, LenProperties
    <3> QED
      BY <3>2 DEF Serving, Serves
  <2>2. CASE locked
    <3>1. PICK k \in 1..Len(stack) : Serves(stack[k])
      BY <2>2 DEF IInv, StackInv, ServeInv
    <3>2. Serving = {k}
      BY <2>1, <3>1 DEF IInv, StackInv, ServeInv
    <3>3. Cardinality(Serving) = 1
      BY <3>2, FS_Singleton
    <3> QED
      BY <2>2, <3>3 DEF LockFollowsStack
  <2>3. CASE ~locked
    <3>1. Serving = {}
      BY <2>1, <2>3 DEF IInv, StackInv, ServeInv
    <3>2. Cardinality(Serving) = 0
      BY <3>1, FS_EmptySet
    <3> QED
      BY <2>3, <3>2 DEF LockFollowsStack
  <2> QED
    BY <2>2, <2>3
<1> QED
  BY <1>1, InductiveInvariant, PTL

\* The cache refers to live references only, and no reference is forgotten when the
\* insertion that was to keep it fails.
THEOREM ReferencesCached == Spec => []RefsCached
<1>1. IInv => RefsCached
  <2> SUFFICES ASSUME IInv PROVE RefsCached
    OBVIOUS
  <2>1. stack \in Seq(Frames)
    BY DEF IInv, TypeInv
  <2>2. DOMAIN stack = 1..Len(stack)
    BY <2>1, LenProperties
  <2> QED
    BY <2>2 DEF RefsCached, IInv, StackInv, RefsInv
<1> QED
  BY <1>1, InductiveInvariant, PTL

-------------------------------------------------------------------------------
(* The depth of the stack *)

\* The frames that report an exception, counted from the bottom, which the calls on
\* top do not move.
Reporting == {"trace", "getClassName"}
Reports(s) == {i \in 1..Len(s) : s[Len(s) + 1 - i].fn \in Reporting}

\* What can run on top of what.
Fits(above, below) ==
  /\ below = "trace" => above \in Callers
  /\ below = "getClassName" => above = "trace"
  /\ below = "get" <=> above = "getClassName"

\* A stack with c reports in it: each has room for itself and one function more; a call
\* of get comes on top, and a report leaves room for the function it will call.
FitsInv(s) == \A k \in 2..Len(s) : Fits(s[k - 1].fn, s[k].fn)
Bounded(s, c) ==
  s # <<>> => Len(s) + (IF s[1].fn = "trace" THEN 1 ELSE 0) <= 1 + 2 * c + (IF s[1].fn = "get" THEN 1 ELSE 0)

\* Every report has an exception of its own, and a pending one is still to be reported.
Paid(c) == c + faults <= MaxFaults /\ (pending => c + 1 + faults <= MaxFaults)
PaidNext(c) == c + faults' <= MaxFaults /\ (pending' => c + 1 + faults' <= MaxFaults)
DepthInv ==
  /\ Paid(Cardinality(Reports(stack)))
  /\ FitsInv(stack)
  /\ Bounded(stack, Cardinality(Reports(stack)))

\* How many reports there are.
LEMMA ReportsFinite ==
  ASSUME NEW s \in Seq(Frames)
  PROVE  IsFiniteSet(Reports(s)) /\ Cardinality(Reports(s)) \in Nat
<1>1. IsFiniteSet(1..Len(s))
  BY FS_Interval, LenProperties
<1>2. Reports(s) \in SUBSET (1..Len(s))
  BY DEF Reports
<1> QED
  BY <1>1, <1>2, FS_Subset, FS_CardinalityType

\* The top of a stack is its last place from the bottom.
LEMMA ReportsWithTop ==
  ASSUME NEW s \in Seq(Frames), NEW t \in Seq(Frames), Len(s) = Len(t) + 1,
         \A k \in 1..Len(t) : s[k + 1].fn = t[k].fn
  PROVE  Cardinality(Reports(s)) = Cardinality(Reports(t)) + (IF s[1].fn \in Reporting THEN 1 ELSE 0)
<1> DEFINE n == Len(t)
<1>1. n \in Nat /\ Len(s) = n + 1
  BY LenProperties
<1>2. /\ Reports(s) = {i \in 1..n + 1 : s[n + 2 - i].fn \in Reporting}
      /\ Reports(t) = {i \in 1..n : t[n + 1 - i].fn \in Reporting}
  BY <1>1 DEF Reports
<1> HIDE DEF n
<1>3. \A i \in 1..n : s[n + 2 - i].fn = t[n + 1 - i].fn
  <2> SUFFICES ASSUME NEW i \in 1..n PROVE s[n + 2 - i].fn = t[n + 1 - i].fn
    OBVIOUS
  <2>1. n + 1 - i \in 1..n /\ (n + 1 - i) + 1 = n + 2 - i
    BY <1>1
  <2> QED
    BY <2>1 DEF n
<1>4. \A i \in 1..n + 1 : i \in 1..n \/ (i = n + 1 /\ n + 2 - i = 1)
  BY <1>1
<1>5. n + 1 \notin 1..n /\ n + 1 \in 1..n + 1 /\ n + 2 - (n + 1) = 1 /\ 1..n \subseteq 1..n + 1
  BY <1>1
<1>6. Reports(s) = IF s[1].fn \in Reporting THEN Reports(t) \cup {n + 1} ELSE Reports(t)
  BY <1>2, <1>3, <1>4, <1>5
<1>7. n + 1 \notin Reports(t)
  BY <1>2, <1>5
<1>8. IsFiniteSet(Reports(t)) /\ Cardinality(Reports(t)) \in Nat
  BY ReportsFinite
<1>9. Cardinality(Reports(t) \cup {n + 1}) = Cardinality(Reports(t)) + 1
  BY <1>7, <1>8, FS_AddElement
<1>10. CASE s[1].fn \in Reporting
  BY <1>6, <1>9, <1>10
<1>11. CASE s[1].fn \notin Reporting
  BY <1>6, <1>8, <1>11
<1> QED
  BY <1>10, <1>11

\* Only the functions matter.
LEMMA ReportsSame ==
  ASSUME NEW s \in Seq(Frames), NEW t \in Seq(Frames), Len(s) = Len(t),
         \A k \in 1..Len(t) : s[k].fn = t[k].fn
  PROVE  Reports(s) = Reports(t)
<1>1. \A i \in 1..Len(t) : Len(t) + 1 - i \in 1..Len(t)
  BY LenProperties
<1> QED
  BY <1>1 DEF Reports

\* The numbers of DepthInv.
LEMMA DepthNumbers ==
  ASSUME IInv, DepthInv
  PROVE  /\ stack \in Seq(Frames) /\ Len(stack) \in Nat
         /\ Cardinality(Reports(stack)) \in Nat /\ Paid(Cardinality(Reports(stack)))
BY ReportsFinite, LenProperties DEF IInv, TypeInv, DepthInv

\* What a step does to the account, whatever has been reported.
Quiet == \A c \in Nat : Paid(c) => PaidNext(c)
Spends == \A c \in Nat : Paid(c) => PaidNext(c + 1)

\* The function on top goes on, or an exception is raised or caught in it.
LEMMA StayDepth ==
  ASSUME IInv, IInv', DepthInv, Quiet, Len(stack') = Len(stack),
         \A k \in 1..Len(stack) : stack'[k].fn = stack[k].fn
  PROVE  DepthInv'
<1> DEFINE c == Cardinality(Reports(stack))
<1>1. /\ stack \in Seq(Frames) /\ Len(stack) \in Nat
      /\ c \in Nat /\ Paid(c)
  BY DepthNumbers
<1>2. stack' \in Seq(Frames)
  BY DEF IInv, TypeInv
<1>3. Reports(stack') = Reports(stack)
  BY <1>1, <1>2, ReportsSame
<1>4. Cardinality(Reports(stack')) = c
  BY <1>3
<1> HIDE DEF c
<1>5. PaidNext(c)
  BY <1>1 DEF Quiet
<1>6. FitsInv(stack')
  <2>1. \A k \in 2..Len(stack) : k \in 1..Len(stack) /\ k - 1 \in 1..Len(stack)
    BY <1>1
  <2> QED
    BY <2>1 DEF DepthInv, FitsInv
<1>7. Bounded(stack', c)
  <2>1. stack # <<>> => 1 \in 1..Len(stack)
    BY <1>1, EmptySeq
  <2>2. stack' # <<>> => stack # <<>>
    BY <1>1, <1>2, EmptySeq
  <2> QED
    BY <2>1, <2>2 DEF DepthInv, Bounded, c
<1> QED
  BY <1>4, <1>5, <1>6, <1>7 DEF DepthInv, Paid, PaidNext

\* Sums of the account of exceptions.
LEMMA SumsOfCount ==
  ASSUME NEW m \in Nat, NEW c \in Nat, NEW f \in Nat, NEW g \in Nat, g <= f
  PROVE  /\ c + f <= m => c + g <= m
         /\ c + 1 + f <= m => c + 1 + g <= m
         /\ c + f <= m /\ g + 1 <= f => c + 1 + g <= m
OBVIOUS

LEMMA SumsOfReturn ==
  ASSUME NEW m \in Nat, NEW c \in Nat, NEW d \in Nat, NEW g \in Nat, d <= c
  PROVE  /\ c + g <= m => d + g <= m
         /\ c + 1 + g <= m => d + 1 + g <= m
OBVIOUS

\* A function returns, or an exception passes through it. What is below has room for it.
LEMMA ReturnDepth ==
  ASSUME IInv, IInv', DepthInv, stack # <<>>, Return, Quiet
  PROVE  DepthInv'
<1> DEFINE n == Len(stack)
           c == Cardinality(Reports(stack))
           d == Cardinality(Reports(stack'))
<1>1. /\ stack \in Seq(Frames) /\ n \in Nat
      /\ c \in Nat /\ Paid(c)
  BY DepthNumbers
<1>2. stack' \in Seq(Frames)
  BY DEF IInv, TypeInv
<1>3. /\ Len(stack') = n - 1 /\ 1 <= n
      /\ \A k \in 1..n - 1 : stack'[k] = stack[k + 1]
  BY <1>1, ReturnEffect
<1>4. c = d + (IF stack[1].fn \in Reporting THEN 1 ELSE 0) /\ d \in Nat
  <2>1. n = Len(stack') + 1 /\ \A k \in 1..Len(stack') : stack[k + 1].fn = stack'[k].fn
    BY <1>1, <1>3
  <2> QED
    BY <1>1, <1>2, <2>1, ReportsWithTop, ReportsFinite
<1>5. Bounded(stack, c) /\ FitsInv(stack)
  BY DEF DepthInv
<1> HIDE DEF n, c, d
<1>6. PaidNext(d)
  <2>1. MaxFaults \in Nat /\ faults' \in Nat
    BY CallsAssumption DEF IInv, TypeInv
  <2>2. PaidNext(c)
    BY <1>1 DEF Quiet
  <2>3. d <= c
    <3>1. CASE stack[1].fn \in Reporting
      BY <1>1, <1>4, <3>1
    <3>2. CASE stack[1].fn \notin Reporting
      BY <1>1, <1>4, <3>2
    <3> QED
      BY <3>1, <3>2
  <2>4. d + faults' <= MaxFaults
    <3>1. c + faults' <= MaxFaults
      BY <2>2 DEF PaidNext
    <3> QED
      BY <1>1, <1>4, <2>1, <2>3, <3>1, SumsOfReturn, Zenon
  <2>5. ASSUME pending' PROVE d + 1 + faults' <= MaxFaults
    <3>1. c + 1 + faults' <= MaxFaults
      BY <2>2, <2>5 DEF PaidNext
    <3> QED
      BY <1>1, <1>4, <2>1, <2>3, <3>1, SumsOfReturn, Zenon
  <2> QED
    BY <2>4, <2>5 DEF PaidNext
<1>7. FitsInv(stack')
  <2> SUFFICES ASSUME NEW k \in 2..n - 1 PROVE Fits(stack'[k - 1].fn, stack'[k].fn)
    BY <1>3 DEF FitsInv
  <2>1. k \in 1..n - 1 /\ k - 1 \in 1..n - 1 /\ k + 1 \in 2..n /\ (k + 1) - 1 = k /\ (k - 1) + 1 = k
    BY <1>1
  <2>2. stack'[k] = stack[k + 1] /\ stack'[k - 1] = stack[k]
    BY <1>3, <2>1
  <2>3. Fits(stack[(k + 1) - 1].fn, stack[k + 1].fn)
    BY <1>5, <2>1 DEF FitsInv, n
  <2> QED
    BY <2>1, <2>2, <2>3
<1>8. Bounded(stack', d)
  <2> SUFFICES ASSUME stack' # <<>> PROVE Bounded(stack', d)
    BY DEF Bounded
  <2>1. 1 \in 1..n - 1 /\ 2 \in 2..n /\ 2 - 1 = 1 /\ stack'[1] = stack[2]
    <3>1. Len(stack') # 0
      BY <1>2, EmptySeq
    <3> QED
      BY <1>1, <1>3, <3>1
  <2>2. Fits(stack[1].fn, stack[2].fn)
    BY <1>5, <2>1 DEF FitsInv, n
  <2>3. n + (IF stack[1].fn = "trace" THEN 1 ELSE 0) <= 1 + 2 * c + (IF stack[1].fn = "get" THEN 1 ELSE 0)
    BY <1>5 DEF Bounded, n
  <2>4. n - 1 + (IF stack[2].fn = "trace" THEN 1 ELSE 0) <= 1 + 2 * d + (IF stack[2].fn = "get" THEN 1 ELSE 0)
    <3>1. CASE stack[1].fn = "trace"
      BY <1>1, <1>4, <2>2, <2>3, <3>1 DEF Fits, Reporting, Callers
    <3>2. CASE stack[1].fn = "getClassName"
      BY <1>1, <1>4, <2>2, <2>3, <3>2 DEF Fits, Reporting
    <3>3. CASE stack[1].fn = "get"
      BY <1>1, <1>4, <2>2, <2>3, <3>3 DEF Fits, Reporting, Callers
    <3>4. CASE stack[1].fn \notin {"trace", "getClassName", "get"}
      BY <1>1, <1>4, <2>3, <3>4 DEF Reporting
    <3> QED
      BY <3>1, <3>2, <3>3, <3>4
  <2> QED
    BY <1>3, <2>1, <2>4 DEF Bounded
<1> QED
  BY <1>6, <1>7, <1>8 DEF DepthInv, d, Paid, PaidNext

\* A function calls another one. A report takes an exception.
LEMMA CallDepth ==
  ASSUME IInv, IInv', DepthInv, stack # <<>>, NEW f \in Frames, NEW x \in Frames,
         stack' = <<f, x>> \o Tail(stack), x.fn = stack[1].fn,
         \/ f.fn = "get" /\ x.fn \in Callers /\ Quiet
         \/ f.fn \in Callers /\ x.fn = "trace" /\ Quiet
         \/ f.fn = "getClassName" /\ x.fn = "get" /\ Spends
         \/ f.fn = "trace" /\ x.fn \in Callers \cup {"getClassName"} /\ Spends
  PROVE  DepthInv'
<1> DEFINE n == Len(stack)
           c == Cardinality(Reports(stack))
           d == Cardinality(Reports(stack'))
<1>1. /\ stack \in Seq(Frames) /\ n \in Nat
      /\ c \in Nat /\ Paid(c)
  BY DepthNumbers
<1>2. stack' \in Seq(Frames)
  BY DEF IInv, TypeInv
<1>3. /\ Len(stack') = n + 1 /\ 1 <= n
      /\ stack'[1] = f /\ stack'[2] = x
      /\ \A k \in 2..n : stack[k] = stack'[k + 1]
  BY <1>1, CallEffect
<1>4. \A k \in 1..n : stack'[k + 1].fn = stack[k].fn
  <2>1. \A k \in 1..n : k = 1 \/ k \in 2..n
    BY <1>1
  <2> QED
    BY <1>3, <2>1
<1>5. d = c + (IF f.fn \in Reporting THEN 1 ELSE 0)
  <2>1. stack'[1].fn = f.fn
    BY <1>3
  <2> QED
    BY <1>1, <1>2, <1>3, <1>4, <2>1, ReportsWithTop
<1>6. Bounded(stack, c) /\ FitsInv(stack)
  BY DEF DepthInv
<1> HIDE DEF n, c, d
<1>7. PaidNext(d)
  <2>1. CASE f.fn \in Reporting
    <3>1. Spends /\ d = c + 1
      BY <1>5, <2>1 DEF Reporting, Callers
    <3> QED
      BY <1>1, <3>1 DEF Spends
  <2>2. CASE f.fn \notin Reporting
    <3>1. Quiet /\ d = c
      BY <1>1, <1>5, <2>2 DEF Reporting, Callers
    <3> QED
      BY <1>1, <3>1 DEF Quiet
  <2> QED
    BY <2>1, <2>2
<1>8. FitsInv(stack')
  <2> SUFFICES ASSUME NEW k \in 2..n + 1 PROVE Fits(stack'[k - 1].fn, stack'[k].fn)
    BY <1>3 DEF FitsInv
  <2>1. CASE k = 2
    <3>1. Fits(f.fn, x.fn)
      BY DEF Fits, Callers
    <3> QED
      BY <1>3, <2>1, <3>1
  <2>2. CASE k # 2
    <3>1. k - 1 \in 1..n /\ k - 2 \in 1..n /\ k - 1 \in 2..n /\ (k - 1) - 1 = k - 2
          /\ (k - 1) + 1 = k /\ (k - 2) + 1 = k - 1
      BY <1>1, <2>2
    <3>2. stack'[k].fn = stack[k - 1].fn /\ stack'[k - 1].fn = stack[k - 2].fn
      BY <1>4, <3>1
    <3>3. Fits(stack[(k - 1) - 1].fn, stack[k - 1].fn)
      BY <1>6, <3>1 DEF FitsInv, n
    <3> QED
      BY <3>1, <3>2, <3>3
  <2> QED
    BY <2>1, <2>2
<1>9. Bounded(stack', d)
  <2>1. n + (IF x.fn = "trace" THEN 1 ELSE 0) <= 1 + 2 * c + (IF x.fn = "get" THEN 1 ELSE 0)
    BY <1>6 DEF Bounded, n
  <2>2. n + 1 + (IF f.fn = "trace" THEN 1 ELSE 0) <= 1 + 2 * d + (IF f.fn = "get" THEN 1 ELSE 0)
    <3>1. CASE f.fn = "get" /\ x.fn \in Callers
      BY <1>1, <1>5, <2>1, <3>1 DEF Reporting, Callers
    <3>2. CASE f.fn \in Callers /\ x.fn = "trace"
      BY <1>1, <1>5, <2>1, <3>2 DEF Reporting, Callers
    <3>3. CASE f.fn = "getClassName" /\ x.fn = "get"
      BY <1>1, <1>5, <2>1, <3>3 DEF Reporting
    <3>4. CASE f.fn = "trace" /\ x.fn \in Callers \cup {"getClassName"}
      BY <1>1, <1>5, <2>1, <3>4 DEF Reporting, Callers
    <3> QED
      BY <3>1, <3>2, <3>3, <3>4
  <2> QED
    BY <1>3, <2>2 DEF Bounded
<1> QED
  BY <1>7, <1>8, <1>9 DEF DepthInv, d, Paid, PaidNext

\* A stack of one function that reports nothing.
LEMMA StartDepth ==
  ASSUME IInv, IInv', DepthInv, Quiet, stack = <<>>, NEW f \in Frames, f.fn \in Callers \cup {"get"},
         stack' = <<f>>
  PROVE  DepthInv'
<1>1. /\ stack' \in Seq(Frames) /\ Len(stack') = 1 /\ stack'[1] = f
      /\ stack \in Seq(Frames) /\ Len(stack) = 0
  BY EmptySeq DEF IInv, TypeInv
<1>2. \A k \in 1..0 : FALSE
  OBVIOUS
<1>3. Cardinality(Reports(stack')) = Cardinality(Reports(stack)) /\ Cardinality(Reports(stack)) = 0
  <2>1. Len(stack') = Len(stack) + 1 /\ \A k \in 1..Len(stack) : stack'[k + 1].fn = stack[k].fn
    BY <1>1, <1>2
  <2>2. Reports(stack) = {}
    BY <1>1, <1>2 DEF Reports
  <2>3. Cardinality(Reports(stack)) = 0
    BY <2>2, FS_EmptySet
  <2>4. stack'[1].fn \notin Reporting
    BY <1>1 DEF Reporting, Callers
  <2>5. Cardinality(Reports(stack')) =
          Cardinality(Reports(stack)) + (IF stack'[1].fn \in Reporting THEN 1 ELSE 0)
    BY <1>1, <2>1, ReportsWithTop
  <2>6. Cardinality(Reports(stack)) + (IF stack'[1].fn \in Reporting THEN 1 ELSE 0) = 0 + 0
    BY <2>3, <2>4
  <2> QED
    BY <2>3, <2>5, <2>6
<1>4. PaidNext(0)
  BY <1>3, DepthNumbers DEF Quiet
<1>5. FitsInv(stack')
  BY <1>1 DEF FitsInv
<1>6. Bounded(stack', 0)
  BY <1>1 DEF Bounded, Callers
<1> QED
  BY <1>3, <1>4, <1>5, <1>6 DEF DepthInv, Paid, PaidNext

\* A step that takes exceptions from those to come, and leaves one pending if it takes one.
LEMMA QuietAccount ==
  ASSUME IInv, IInv', faults' <= faults, pending' => pending \/ faults' + 1 <= faults
  PROVE  Quiet
<1>1. MaxFaults \in Nat /\ faults \in Nat /\ faults' \in Nat
  BY CallsAssumption DEF IInv, TypeInv
<1> SUFFICES ASSUME NEW c \in Nat, Paid(c) PROVE PaidNext(c)
  BY DEF Quiet
<1>2. c + faults <= MaxFaults
  BY DEF Paid
<1>3. c + faults' <= MaxFaults
  BY <1>1, <1>2, SumsOfCount, Zenon
<1>4. ASSUME pending' PROVE c + 1 + faults' <= MaxFaults
  <2>1. CASE pending
    <3>1. c + 1 + faults <= MaxFaults
      BY <2>1 DEF Paid
    <3> QED
      BY <1>1, <3>1, SumsOfCount, Zenon
  <2>2. CASE faults' + 1 <= faults
    BY <1>1, <1>2, <2>2, SumsOfCount, Zenon
  <2> QED
    BY <1>4, <2>1, <2>2
<1> QED
  BY <1>3, <1>4 DEF PaidNext

\* A step that clears a pending exception or takes one, and has paid for what it leaves
\* pending.
LEMMA SpendingAccount ==
  ASSUME IInv, IInv', faults' <= faults, pending \/ faults' + 1 <= faults,
         pending' => pending /\ faults' + 1 <= faults
  PROVE  Spends
<1>1. MaxFaults \in Nat /\ faults \in Nat /\ faults' \in Nat
  BY CallsAssumption DEF IInv, TypeInv
<1> SUFFICES ASSUME NEW c \in Nat, Paid(c) PROVE PaidNext(c + 1)
  BY DEF Spends
<1>2. c + faults <= MaxFaults
  BY DEF Paid
<1>3. c + 1 + faults' <= MaxFaults
  <2>1. CASE pending
    <3>1. c + 1 + faults <= MaxFaults
      BY <2>1 DEF Paid
    <3> QED
      BY <1>1, <3>1, SumsOfCount, Zenon
  <2>2. CASE faults' + 1 <= faults
    BY <1>1, <1>2, <2>2, SumsOfCount, Zenon
  <2> QED
    BY <2>1, <2>2
<1>4. ASSUME pending' PROVE (c + 1) + 1 + faults' <= MaxFaults
  <2>1. c + 1 + faults <= MaxFaults /\ faults' + 1 <= faults
    BY <1>4 DEF Paid
  <2>2. c + 1 \in Nat
    OBVIOUS
  <2> QED
    BY <1>1, <2>1, <2>2, SumsOfCount, Zenon
<1> QED
  BY <1>3, <1>4 DEF PaidNext

\* The exceptions still to come after a Fault, and after a step without one.
LEMMA FaultTaken ==
  ASSUME IInv
  PROVE  /\ Fault => faults' <= faults /\ faults' + 1 <= faults
         /\ UNCHANGED faults => faults' <= faults
BY DEF Fault, IInv, TypeInv

\* The top is replaced by another place of the same function.
LEMMA TopChangeDepth ==
  ASSUME IInv, IInv', DepthInv, Quiet, stack # <<>>, NEW x \in Frames,
         stack' = <<x>> \o Tail(stack), x.fn = stack[1].fn
  PROVE  DepthInv'
<1>1. stack \in Seq(Frames)
  BY DEF IInv, TypeInv
<1>2. /\ Len(stack') = Len(stack) /\ Len(stack) \in Nat
      /\ stack'[1] = x
      /\ \A k \in 2..Len(stack) : stack'[k] = stack[k]
  BY <1>1, GotoEffect
<1>3. \A k \in 1..Len(stack) : k = 1 \/ k \in 2..Len(stack)
  BY <1>2
<1>4. \A k \in 1..Len(stack) : stack'[k].fn = stack[k].fn
  BY <1>2, <1>3
<1> QED
  BY <1>2, <1>4, StayDepth

\* The function that runs goes on.
LEMMA GotoDepth ==
  ASSUME IInv, IInv', DepthInv, Quiet, stack # <<>>, NEW at \in Points, Goto(at)
  PROVE  DepthInv'
<1>1. stack \in Seq(Frames)
  BY DEF IInv, TypeInv
<1>2. PICK x \in Frames : stack' = <<x>> \o Tail(stack) /\ x.fn = stack[1].fn
  BY <1>1, GotoFrame
<1> QED
  BY <1>1, <1>2, TopChangeDepth

\* A function calls another one, which is no report.
LEMMA PlainCallDepth ==
  ASSUME IInv, IInv', DepthInv, Quiet, stack # <<>>, NEW at \in Points,
         NEW fn \in Functions, NEW place \in Points, NEW p \in Pointers, Call(at, Frame(fn, place, p)),
         \/ fn = "get" /\ stack[1].fn \in Callers
         \/ fn \in Callers /\ stack[1].fn = "trace"
  PROVE  DepthInv'
<1> DEFINE f == Frame(fn, place, p)
           x == [Top EXCEPT !.at = at]
<1>1. f \in Frames /\ f.fn = fn
  BY DEF Frames, Frame
<1>2. x \in Frames /\ x.fn = stack[1].fn
  <2>1. Top = stack[1] /\ stack[1] \in Frames
    BY TopFacts
  <2> QED
    BY <2>1 DEF Frames
<1>3. stack' = <<f, x>> \o Tail(stack)
  BY DEF Call
<1> HIDE DEF f, x
<1> QED
  BY <1>1, <1>2, <1>3, CallDepth

\* A function reports the exception that is pending, or that it has just met.
LEMMA WrapDepth ==
  ASSUME IInv, IInv', DepthInv, stack # <<>>, stack[1].fn \in Callers \cup {"getClassName"}, BuildNative,
         (pending /\ UNCHANGED faults) \/ Fault
  PROVE  DepthInv'
<1> DEFINE d == CHOOSE n \in Details \ live : TRUE
           f == Frame("trace", "writer", Writer)
           x == [Top EXCEPT !.at = "throw", !.detail = d]
<1>1. stack' = <<f, x>> \o Tail(stack) /\ ~pending'
  BY DEF BuildNative
<1>2. f \in Frames /\ f.fn = "trace"
  BY DEF Frames, Frame, Functions, Points, Pointers
<1>3. x \in Frames /\ x.fn = stack[1].fn
  <2>1. /\ stack' \in Seq(Frames) /\ stack \in Seq(Frames) /\ Top = stack[1] /\ stack[1] \in Frames
    BY TopFacts DEF IInv, TypeInv
  <2>2. x.fn = stack[1].fn
    BY <2>1 DEF Frames
  <2>3. d \in Details
    BY DetailLeft DEF Fault
  <2>4. x \in Frames
    BY <2>1, <2>3 DEF Frames, Points
  <2> QED
    BY <2>2, <2>4
<1> HIDE DEF f, x
<1>4. Spends
  <2>1. faults' <= faults /\ (pending \/ faults' + 1 <= faults)
    BY FaultTaken
  <2> QED
    BY <1>1, <2>1, SpendingAccount
<1> QED
  BY <1>1, <1>2, <1>3, <1>4, CallDepth

\* What an exception of Java does to the account.
LEMMA FaultQuiet ==
  ASSUME IInv, IInv',
         \/ UNCHANGED <<pending, faults>>
         \/ Fault
         \/ pending' = FALSE /\ UNCHANGED faults
  PROVE  Quiet
<1>1. faults' <= faults /\ (pending' => pending \/ faults' + 1 <= faults)
  <2>1. CASE UNCHANGED <<pending, faults>>
    BY <2>1, FaultTaken
  <2>2. CASE Fault
    BY <2>2, FaultTaken
  <2>3. CASE pending' = FALSE /\ UNCHANGED faults
    BY <2>3, FaultTaken
  <2> QED
    BY <2>1, <2>2, <2>3
<1> QED
  BY <1>1, QuietAccount

\* The calls.
LEMMA CallsDepth ==
  ASSUME IInv, IInv', DepthInv, FindForCall \/ TraceWriters \/ NewGlobalRef \/ CheckAndClear \/ GetClassName
  PROVE  DepthInv'
<1>1. CASE FindForCall
  <2>1. PICK fn \in Callers : At(fn, "find")
    BY <1>1 DEF FindForCall
  <2>2. stack # <<>> /\ Top = stack[1] /\ stack[1].fn = fn /\ stack[1].ptr \in Pointers
    BY <2>1, AtFacts
  <2>3. Call("method", Frame("get", "lock", stack[1].ptr)) /\ UNCHANGED <<pending, faults>>
    BY <1>1, <2>2 DEF FindForCall
  <2>4. "get" \in Functions /\ {"lock", "method"} \subseteq Points
    BY DEF Functions, Points
  <2>5. Quiet
    BY <2>3, FaultQuiet
  <2> QED
    BY <2>2, <2>3, <2>4, <2>5, PlainCallDepth
<1>2. CASE TraceWriters
  <2>1. PICK at \in {"writer", "printer", "call"} : At("trace", at)
    BY <1>2 DEF TraceWriters
  <2>2. stack # <<>> /\ stack[1].fn = "trace"
    BY <2>1, AtFacts
  <2>3. PICK next \in {"printer", "class", "text"}, fn \in {"newObject", "callMethod"},
             place \in {"find", "method"}, p \in {Writer, Printer} : Call(next, Frame(fn, place, p))
    BY <1>2 DEF TraceWriters
  <2>4. /\ fn \in Callers /\ fn \in Functions /\ {next, place} \subseteq Points /\ p \in Pointers
    BY DEF Callers, Functions, Points, Pointers
  <2>5. Quiet
    BY <1>2, FaultQuiet DEF TraceWriters
  <2> QED
    BY <2>2, <2>3, <2>4, <2>5, PlainCallDepth
<1>3. CASE CheckAndClear
  <2>1. PICK fn \in Callers : At(fn, "check")
    BY <1>3 DEF CheckAndClear
  <2>2. stack # <<>> /\ stack[1].fn = fn
    BY <2>1, AtFacts
  <2>3. BuildNative /\ pending /\ UNCHANGED faults
    BY <1>3 DEF CheckAndClear
  <2> QED
    BY <2>2, <2>3, WrapDepth
<1>4. CASE GetClassName
  <2>1. stack # <<>> /\ stack[1].fn = "getClassName"
    BY <1>4, AtFacts DEF GetClassName
  <2>2. CASE Return /\ UNCHANGED <<pending, faults, live>>
    <3>1. Quiet
      BY <2>2, FaultQuiet
    <3> QED
      BY <2>1, <2>2, <3>1, ReturnDepth
  <2>3. CASE Fault /\ BuildNative
    BY <2>1, <2>3, WrapDepth
  <2> QED
    BY <1>4, <2>2, <2>3 DEF GetClassName
<1>5. CASE NewGlobalRef
  <2>1. stack # <<>> /\ Top = stack[1] /\ stack[1].fn = "get" /\ stack[1].ptr \in Pointers
    BY <1>5, AtFacts DEF NewGlobalRef
  <2>2. pending' = pending
    BY <1>5 DEF NewGlobalRef
  <2>3. CASE Goto("insert") /\ UNCHANGED faults
    <3>1. Quiet
      BY <2>2, <2>3, FaultQuiet
    <3>2. "insert" \in Points
      BY DEF Points
    <3> QED
      BY <2>1, <2>3, <3>1, <3>2, GotoDepth
  <2>4. CASE Fault /\ Call("refFailed", Frame("getClassName", "name", stack[1].ptr))
    <3> DEFINE f == Frame("getClassName", "name", stack[1].ptr)
               x == [Top EXCEPT !.at = "refFailed"]
    <3>1. f \in Frames /\ f.fn = "getClassName"
      BY <2>1 DEF Frames, Frame, Functions, Points
    <3>2. x \in Frames /\ x.fn = "get"
      <4>1. stack[1] \in Frames
        BY <2>1, TopFacts
      <4> QED
        BY <2>1, <4>1 DEF Frames, Points
    <3>3. stack' = <<f, x>> \o Tail(stack)
      BY <2>4 DEF Call
    <3> HIDE DEF f, x
    <3>4. Spends
      <4>1. faults' <= faults /\ faults' + 1 <= faults
        BY <2>4, FaultTaken
      <4>2. pending' => pending
        BY <2>2
      <4> QED
        BY <4>1, <4>2, SpendingAccount
    <3> QED
      BY <2>1, <3>1, <3>2, <3>3, <3>4, CallDepth
  <2> QED
    BY <1>5, <2>1, <2>3, <2>4 DEF NewGlobalRef
<1> QED
  BY <1>1, <1>2, <1>3, <1>4, <1>5

\* The functions that go on.
LEMMA GoesOnDepth ==
  ASSUME IInv, IInv', DepthInv,
         FindMember \/ CallJava \/ ThrowNative \/ FindClass \/ ThrowNewGlobalRef \/ TracePrint
  PROVE  DepthInv'
<1>1. {"java", "undefined", "check", "ref", "call"} \subseteq Points
  BY DEF Points
<1>2. CASE FindMember
  <2>1. stack # <<>>
    BY <1>2 DEF FindMember, At, Running
  <2>2. Quiet
    BY <1>2, FaultQuiet DEF FindMember
  <2>3. PICK at \in {"java", "undefined"} : Goto(at)
    BY <1>2 DEF FindMember
  <2> QED
    BY <1>1, <2>1, <2>2, <2>3, GotoDepth
<1>3. CASE CallJava
  <2>1. stack # <<>> /\ Goto("check")
    BY <1>3 DEF CallJava, At, Running
  <2>2. Quiet
    BY <1>3, FaultQuiet DEF CallJava
  <2> QED
    BY <1>1, <2>1, <2>2, GotoDepth
<1>4. CASE TracePrint
  <2>1. stack # <<>> /\ Goto("call")
    BY <1>4 DEF TracePrint, At, Running
  <2>2. Quiet
    BY <1>4, FaultQuiet DEF TracePrint
  <2> QED
    BY <1>1, <2>1, <2>2, GotoDepth
<1>5. CASE FindClass
  <2>1. stack # <<>>
    BY <1>5 DEF FindClass, At, Running
  <2>2. Quiet
    BY <1>5, FaultQuiet DEF FindClass
  <2>3. CASE Goto("ref")
    BY <1>1, <2>1, <2>2, <2>3, GotoDepth
  <2>4. CASE UNCHANGED stack
    BY <2>2, <2>4, StayDepth
  <2> QED
    BY <1>5, <2>3, <2>4 DEF FindClass
<1>6. CASE ThrowNewGlobalRef
  <2>1. stack' = stack /\ UNCHANGED <<pending, faults>>
    BY <1>6 DEF ThrowNewGlobalRef
  <2>2. Quiet
    BY <2>1, FaultQuiet
  <2> QED
    BY <2>1, <2>2, StayDepth
<1>7. CASE ThrowNative
  <2> DEFINE x == [Top EXCEPT !.detail = NoDetail]
  <2>1. stack # <<>> /\ stack' = <<x>> \o Tail(stack) /\ UNCHANGED <<pending, faults>>
    BY <1>7 DEF ThrowNative, Running
  <2>2. Top = stack[1] /\ stack[1] \in Frames
    BY <2>1, TopFacts
  <2>3. x \in Frames /\ x.fn = stack[1].fn
    BY <2>2 DEF Frames
  <2>4. Quiet
    BY <2>1, FaultQuiet
  <2> HIDE DEF x
  <2> QED
    BY <2>1, <2>3, <2>4, TopChangeDepth
<1> QED
  BY <1>2, <1>3, <1>4, <1>5, <1>6, <1>7

\* The functions that return.
LEMMA ReturnsDepth ==
  ASSUME IInv, IInv', DepthInv, NoPending \/ LockAndLookUp \/ Insert \/ TraceLookUp \/ TraceText
  PROVE  DepthInv'
<1>1. stack # <<>>
  BY DEF NoPending, LockAndLookUp, Insert, TraceLookUp, TraceText, At, Running
<1>2. Quiet
  <2>1. CASE NoPending
    BY <2>1, FaultQuiet DEF NoPending
  <2>2. CASE LockAndLookUp
    BY <2>2, FaultQuiet DEF LockAndLookUp
  <2>3. CASE Insert
    BY <2>3, FaultQuiet DEF Insert
  <2>4. CASE TraceLookUp
    BY <2>4, FaultQuiet DEF TraceLookUp
  <2>5. CASE TraceText
    BY <2>5, FaultQuiet DEF TraceText
  <2> QED
    BY <2>1, <2>2, <2>3, <2>4, <2>5
<1>3. \/ Return
      \/ stack' = stack
      \/ \E at \in Points : Goto(at)
  <2>1. {"find", "method", "print"} \subseteq Points
    BY DEF Points
  <2>2. CASE NoPending \/ TraceText
    BY <2>2 DEF NoPending, TraceText
  <2>3. CASE LockAndLookUp
    BY <2>1, <2>3 DEF LockAndLookUp
  <2>4. CASE Insert
    BY <2>4 DEF Insert
  <2>5. CASE TraceLookUp
    BY <2>1, <2>5 DEF TraceLookUp
  <2> QED
    BY <2>2, <2>3, <2>4, <2>5
<1> QED
  BY <1>1, <1>2, <1>3, ReturnDepth, StayDepth, GotoDepth

\* The functions that an exception leaves.
LEMMA UnwindsDepth ==
  ASSUME IInv, IInv', DepthInv,
         UnwindCallMethod \/ Rethrow \/ UnwindNewObject \/ UnwindGet \/ Discard \/ SuppressInToString
  PROVE  DepthInv'
<1>1. stack # <<>> /\ Return /\ UNCHANGED <<pending, faults>>
  BY DEF UnwindCallMethod, Rethrow, UnwindNewObject, UnwindGet, Discard, SuppressInToString, Unwinding
<1>2. Quiet
  BY <1>1, FaultQuiet
<1> QED
  BY <1>1, <1>2, ReturnDepth

\* The application.
LEMMA ApplicationDepth ==
  ASSUME IInv, IInv', DepthInv, StartCall \/ HandleException \/ ReuseBuffer \/ UNCHANGED vars
  PROVE  DepthInv'
<1>1. UNCHANGED <<pending, faults>>
  BY DEF StartCall, HandleException, ReuseBuffer, vars
<1>2. Quiet
  BY <1>1, FaultQuiet
<1>3. CASE StartCall
  <2>1. PICK fn \in Callers \cup {"get"}, at \in {"find", "method", "lock"}, p \in Buffers :
          stack' = <<Frame(fn, at, p)>> /\ stack = <<>>
    BY <1>3 DEF StartCall, Callers
  <2> DEFINE f == Frame(fn, at, p)
  <2>2. f \in Frames /\ f.fn = fn
    BY DEF Frames, Frame, Functions, Points, Pointers
  <2> HIDE DEF f
  <2>3. stack' = <<f>>
    BY <2>1 DEF f
  <2> QED
    BY <1>2, <2>1, <2>2, <2>3, StartDepth
<1>4. CASE HandleException \/ ReuseBuffer \/ UNCHANGED vars
  <2>1. stack' = stack
    BY <1>4 DEF HandleException, ReuseBuffer, vars
  <2> QED
    BY <1>2, <2>1, StayDepth
<1> QED
  BY <1>3, <1>4

LEMMA InitDepth == ASSUME Init PROVE DepthInv
<1>1. stack = <<>> /\ Len(stack) = 0 /\ faults = MaxFaults /\ ~pending /\ MaxFaults \in Nat
  BY EmptySeq, CallsAssumption DEF Init
<1>2. \A k \in 1..0 : FALSE
  OBVIOUS
<1>3. Reports(stack) = {}
  BY <1>1, <1>2 DEF Reports
<1>4. Cardinality(Reports(stack)) = 0
  BY <1>3, FS_EmptySet
<1>5. Paid(0)
  BY <1>1 DEF Paid
<1>6. FitsInv(stack) /\ Bounded(stack, 0)
  BY <1>1 DEF FitsInv, Bounded
<1> QED
  BY <1>4, <1>5, <1>6 DEF DepthInv

LEMMA StepDepth == ASSUME IInv, DepthInv, [Next]_vars PROVE DepthInv'
<1>1. IInv'
  BY StepInv
<1>2. CASE FindForCall \/ TraceWriters \/ NewGlobalRef \/ CheckAndClear \/ GetClassName
  BY <1>1, <1>2, CallsDepth
<1>3. CASE FindMember \/ CallJava \/ ThrowNative \/ FindClass \/ ThrowNewGlobalRef \/ TracePrint
  BY <1>1, <1>3, GoesOnDepth
<1>4. CASE NoPending \/ LockAndLookUp \/ Insert \/ TraceLookUp \/ TraceText
  BY <1>1, <1>4, ReturnsDepth
<1>5. CASE \/ UnwindCallMethod \/ Rethrow \/ UnwindNewObject \/ UnwindGet \/ Discard
           \/ SuppressInToString
  BY <1>1, <1>5, UnwindsDepth
<1>6. CASE StartCall \/ HandleException \/ ReuseBuffer \/ UNCHANGED vars
  BY <1>1, <1>6, ApplicationDepth
<1> QED
  BY <1>2, <1>3, <1>4, <1>5, <1>6 DEF Next, LibraryStep

\* The numbers of the bound: r reports for the exceptions raised, of m in all f to come.
LEMMA DepthArithmetic ==
  ASSUME NEW n \in Nat, NEW r \in Nat, NEW f \in Nat, NEW m \in Nat, r + f <= m, f <= m, n <= 2 + 2 * r
  PROVE  n <= 2 + 2 * (m - f)
OBVIOUS

\* Reporting a failure may fail and be reported in turn, but the recursion goes deeper
\* only with every exception that Java raises: two functions for each of them.
THEOREM DepthFollowsFaults == Spec => []DepthBounded
<1>1. Init => IInv /\ DepthInv
  BY InitInv, InitDepth
<1>2. IInv /\ DepthInv /\ [Next]_vars => IInv' /\ DepthInv'
  BY StepInv, StepDepth
<1>3. IInv /\ DepthInv => DepthBounded
  <2> SUFFICES ASSUME IInv, DepthInv PROVE DepthBounded
    OBVIOUS
  <2> DEFINE r == Cardinality(Reports(stack))
             n == Len(stack)
  <2>1. n \in Nat /\ r \in Nat /\ r + faults <= MaxFaults
    BY DepthNumbers DEF Paid
  <2>2. MaxFaults \in Nat /\ faults \in Nat /\ faults <= MaxFaults
    BY CallsAssumption DEF IInv, TypeInv
  <2>3. n <= 2 + 2 * r
    <3>1. CASE stack = <<>>
      <4>1. n = 0
        BY <3>1, EmptySeq
      <4> HIDE DEF n, r
      <4> QED
        BY <2>1, <4>1
    <3>2. CASE stack # <<>>
      <4>1. n + (IF stack[1].fn = "trace" THEN 1 ELSE 0) <= 1 + 2 * r + (IF stack[1].fn = "get" THEN 1 ELSE 0)
        BY <3>2 DEF DepthInv, Bounded
      <4> HIDE DEF n, r
      <4> QED
        BY <2>1, <4>1
    <3> QED
      BY <3>1, <3>2
  <2> HIDE DEF n, r
  <2>4. n <= 2 + 2 * (MaxFaults - faults)
    BY <2>1, <2>2, <2>3, DepthArithmetic, Zenon
  <2> QED
    BY <2>4 DEF DepthBounded, n
<1> QED
  BY <1>1, <1>2, <1>3, PTL DEF Spec

-------------------------------------------------------------------------------
(* How long a call is *)

\* More steps than a function still takes, and the ones it will call, when no Java
\* exception is raised: the two objects that a stack trace is written to are built
\* by calls of newObject, each with a call of get.
StepsOf(f) ==
  CASE f.at \in {"throw", "undefined"} -> 2
    [] f.fn \in Callers /\ f.at = "find" -> 11
    [] f.fn \in Callers /\ f.at = "method" -> 5
    [] f.fn \in Callers /\ f.at = "java" -> 4
    [] f.fn \in Callers /\ f.at = "check" -> 3
    [] f.fn = "get" /\ f.at = "lock" -> 5
    [] f.fn = "get" /\ f.at = "find" -> 4
    [] f.fn = "get" /\ f.at = "ref" -> 3
    [] f.fn = "trace" /\ f.at = "writer" -> 35
    [] f.fn = "trace" /\ f.at = "printer" -> 23
    [] f.fn = "trace" /\ f.at = "class" -> 11
    [] f.fn = "trace" /\ f.at = "method" -> 10
    [] f.fn = "trace" /\ f.at = "print" -> 9
    [] f.fn = "trace" /\ f.at = "call" -> 8
    [] OTHER -> 2

\* A step of a function on the stack is its place from the bottom, and a number.
ToDo(s) == {e \in (1..Len(s)) \X (1..35) : e[2] <= StepsOf(s[Len(s) + 1 - e[1]])}
Work(s) == Cardinality(ToDo(s))

\* What is set aside for the exceptions still to come, for the report of the one that
\* is pending, and for the one that may be thrown next.
Credit ==
  36 * faults + (IF pending THEN 35 ELSE 0) + (IF exc = NoException THEN 1 ELSE 0)
Left == Credit + Work(stack)
LeftInv == Left \in 0..36 * MaxFaults + 47

LEMMA StepsOfFrame ==
  ASSUME NEW f PROVE StepsOf(f) \in 2..35 /\ StepsOf(f) \in Nat
<1>1. StepsOf(f) \in 2..35
  BY DEF StepsOf
<1>2. \A n \in 2..35 : n \in Nat
  OBVIOUS
<1> QED
  BY <1>1, <1>2, Zenon

LEMMA WorkFinite ==
  ASSUME NEW s \in Seq(Frames)
  PROVE  IsFiniteSet(ToDo(s)) /\ Work(s) \in Nat
<1>1. IsFiniteSet(1..Len(s)) /\ IsFiniteSet(1..35)
  <2>1. 1 \in Int /\ 35 \in Int
    OBVIOUS
  <2>2. Len(s) \in Int
    BY LenProperties
  <2> QED
    BY <2>1, <2>2, FS_Interval, Zenon
<1>2. IsFiniteSet((1..Len(s)) \X (1..35))
  BY <1>1, FS_Product
<1>3. ToDo(s) \in SUBSET ((1..Len(s)) \X (1..35))
  BY DEF ToDo
<1> QED
  BY <1>2, <1>3, FS_Subset, FS_CardinalityType DEF Work

\* The steps of a stack are those of its top, and those of the rest.
LEMMA WorkWithTop ==
  ASSUME NEW s \in Seq(Frames), NEW t \in Seq(Frames), Len(s) = Len(t) + 1,
         \A k \in 1..Len(t) : s[k + 1] = t[k]
  PROVE  Work(s) = StepsOf(s[1]) + Work(t)
<1> DEFINE n == Len(t)
           m == StepsOf(s[1])
           new == {n + 1} \X (1..m)
<1>1. n \in Nat /\ Len(s) = n + 1 /\ m \in 2..35
  BY LenProperties, StepsOfFrame
<1>2. /\ ToDo(s) = {e \in (1..n + 1) \X (1..35) : e[2] <= StepsOf(s[n + 2 - e[1]])}
      /\ ToDo(t) = {e \in (1..n) \X (1..35) : e[2] <= StepsOf(t[n + 1 - e[1]])}
  <2>1. (n + 1) + 1 = n + 2
    BY <1>1
  <2>2. \A i \in 1..n + 1 : (n + 1) + 1 - i = n + 2 - i
    BY <1>1
  <2> QED
    BY <1>1, <2>2 DEF ToDo
<1> HIDE DEF n, m
<1>3. \A i \in 1..n : s[n + 2 - i] = t[n + 1 - i]
  <2> SUFFICES ASSUME NEW i \in 1..n PROVE s[n + 2 - i] = t[n + 1 - i]
    OBVIOUS
  <2>1. n + 1 - i \in 1..n /\ (n + 1 - i) + 1 = n + 2 - i
    BY <1>1
  <2> QED
    BY <2>1 DEF n
<1>4. s[n + 2 - (n + 1)] = s[1]
  BY <1>1
<1>5. /\ \A i \in 1..n + 1 : i \in 1..n \/ i = n + 1
      /\ n + 1 \notin 1..n /\ n + 1 \in 1..n + 1 /\ 1..n \subseteq 1..n + 1
  BY <1>1
<1>6. \A j \in 1..35 : j \in 1..m <=> j <= m
  BY <1>1
<1>7. 1..m \subseteq 1..35
  BY <1>1
<1>8. ToDo(s) = ToDo(t) \cup new
  <2>1. ASSUME NEW e \in ToDo(s) PROVE e \in ToDo(t) \cup new
    <3>1. PICK i \in 1..n + 1, j \in 1..35 : e = <<i, j>>
      BY <1>2
    <3>2. j <= StepsOf(s[n + 2 - i])
      BY <1>2, <2>1, <3>1
    <3>3. CASE i \in 1..n
      BY <1>2, <1>3, <3>1, <3>2, <3>3
    <3>4. CASE i = n + 1
      <4>1. j \in 1..m
        BY <1>4, <1>6, <3>2, <3>4 DEF m
      <4> QED
        BY <3>1, <3>4, <4>1
    <3> QED
      BY <1>5, <3>1, <3>3, <3>4
  <2>2. ASSUME NEW e \in ToDo(t) PROVE e \in ToDo(s)
    <3>1. PICK i \in 1..n, j \in 1..35 : e = <<i, j>>
      BY <1>2
    <3>2. j <= StepsOf(s[n + 2 - i]) /\ i \in 1..n + 1
      BY <1>2, <1>3, <1>5, <2>2, <3>1
    <3> QED
      BY <1>2, <3>1, <3>2
  <2>3. ASSUME NEW e \in new PROVE e \in ToDo(s)
    <3>1. PICK j \in 1..m : e = <<n + 1, j>>
      OBVIOUS
    <3>2. j \in 1..35 /\ j <= StepsOf(s[n + 2 - (n + 1)]) /\ n + 1 \in 1..n + 1
      BY <1>4, <1>5, <1>6, <1>7, <3>1 DEF m
    <3> QED
      BY <1>2, <3>1, <3>2
  <2> QED
    BY <2>1, <2>2, <2>3
<1>9. ToDo(t) \cap new = {}
  BY <1>2, <1>5
<1>10. IsFiniteSet(new) /\ Cardinality(new) = m
  <2>1. IsFiniteSet({n + 1}) /\ Cardinality({n + 1}) = 1
    BY FS_Singleton
  <2>2. IsFiniteSet(1..m) /\ Cardinality(1..m) = m
    <3>1. 1 \in Int /\ m \in Int /\ ~(1 > m) /\ m - 1 + 1 = m
      BY <1>1
    <3> QED
      BY <3>1, FS_Interval
  <2>3. IsFiniteSet(new) /\ Cardinality(new) = 1 * m
    <3>1. IsFiniteSet(new) /\ Cardinality(new) = Cardinality({n + 1}) * Cardinality(1..m)
      BY <2>1, <2>2, FS_Product, Zenon
    <3> QED
      BY <2>1, <2>2, <3>1, Zenon
  <2> QED
    BY <1>1, <2>3
<1> HIDE DEF new
<1>11. IsFiniteSet(ToDo(t)) /\ Work(t) \in Nat
  BY WorkFinite
<1>12. Cardinality(ToDo(t) \cup new)
         = Cardinality(ToDo(t)) + Cardinality(new) - Cardinality(ToDo(t) \cap new)
  BY <1>10, <1>11, FS_Union
<1>13. Cardinality(ToDo(t) \cap new) = 0
  BY <1>9, FS_EmptySet
<1>14. Work(s) = Work(t) + m - 0
  BY <1>8, <1>10, <1>12, <1>13 DEF Work
<1>15. \A w, k \in Nat : w + k - 0 = k + w
  OBVIOUS
<1>16. m \in Nat
  BY <1>1
<1>17. Work(s) = m + Work(t)
  BY <1>11, <1>14, <1>15, <1>16, Zenon
<1> QED
  BY <1>17, Zenon DEF m

\* The steps of the stack, and of what each kind of step makes of it.
LEMMA WorkOfStack ==
  ASSUME IInv, stack # <<>>
  PROVE  \E r \in Nat :
           /\ Work(stack) = StepsOf(stack[1]) + r
           /\ Return => Work(stack') = r
           /\ \A x \in Frames : stack' = <<x>> \o Tail(stack) => Work(stack') = StepsOf(x) + r
           /\ \A f, x \in Frames :
                stack' = <<f, x>> \o Tail(stack) => Work(stack') = StepsOf(f) + StepsOf(x) + r
<1> DEFINE rest == Tail(stack)
           r == Work(rest)
<1>1. stack \in Seq(Frames)
  BY DEF IInv, TypeInv
<1>2. /\ rest \in Seq(Frames) /\ Len(rest) = Len(stack) - 1
      /\ Len(stack) \in Nat /\ 1 <= Len(stack)
      /\ \A k \in 1..Len(stack) - 1 : rest[k] = stack[k + 1]
  BY <1>1, RestOfStack
<1>3. r \in Nat
  BY <1>2, WorkFinite
<1>4. Return => Work(stack') = r
  BY DEF Return
<1> HIDE DEF rest
<1>5. Work(stack) = StepsOf(stack[1]) + r
  <2>1. Len(stack) = Len(rest) + 1 /\ \A k \in 1..Len(rest) : stack[k + 1] = rest[k]
    BY <1>2
  <2> QED
    BY <1>1, <1>2, <2>1, WorkWithTop
<1>6. ASSUME NEW x \in Frames, stack' = <<x>> \o Tail(stack) PROVE Work(stack') = StepsOf(x) + r
  <2>1. /\ stack' \in Seq(Frames) /\ Len(stack') = Len(stack) /\ stack'[1] = x
        /\ \A k \in 2..Len(stack) : stack'[k] = stack[k]
    BY <1>1, <1>6, GotoEffect
  <2>2. \A k \in 1..Len(stack) - 1 : k + 1 \in 2..Len(stack)
    BY <1>2
  <2>3. Len(stack') = Len(rest) + 1 /\ \A k \in 1..Len(rest) : stack'[k + 1] = rest[k]
    BY <1>2, <2>1, <2>2
  <2> QED
    BY <1>2, <2>1, <2>3, WorkWithTop
<1>7. ASSUME NEW f \in Frames, NEW x \in Frames, stack' = <<f, x>> \o Tail(stack)
      PROVE  Work(stack') = StepsOf(f) + StepsOf(x) + r
  <2> DEFINE one == <<x>>
             mid == one \o rest
  <2>1. one \in Seq(Frames) /\ Len(one) = 1 /\ one[1] = x
    OBVIOUS
  <2> HIDE DEF one
  <2>2. /\ mid \in Seq(Frames) /\ Len(mid) = Len(one) + Len(rest)
        /\ \A i \in 1..Len(one) + Len(rest) : mid[i] = IF i <= Len(one) THEN one[i] ELSE rest[i - Len(one)]
    <3>1. one \in Seq(Frames) /\ rest \in Seq(Frames)
      BY <1>2, <2>1
    <3> QED
      BY <3>1, ConcatProperties, Zenon
  <2>3. Len(rest) \in Nat
    BY <1>2
  <2> HIDE DEF mid
  <2>4. Len(mid) = Len(rest) + 1 /\ mid[1] = x /\ \A k \in 1..Len(rest) : mid[k + 1] = rest[k]
    <3>1. Len(mid) = Len(rest) + 1 /\ mid[1] = x
      BY <2>1, <2>2, <2>3
    <3>2. ASSUME NEW k \in 1..Len(rest) PROVE mid[k + 1] = rest[k]
      <4>1. k + 1 \in 1..1 + Len(rest) /\ ~(k + 1 <= 1) /\ (k + 1) - 1 = k
        BY <2>3
      <4> QED
        BY <2>1, <2>2, <4>1
    <3> QED
      BY <3>1, <3>2
  <2>5. Work(mid) = StepsOf(x) + r
    BY <1>2, <2>2, <2>4, WorkWithTop
  <2>6. /\ stack' \in Seq(Frames) /\ Len(stack') = Len(stack) + 1
        /\ stack'[1] = f /\ stack'[2] = x
        /\ \A k \in 3..Len(stack) + 1 : stack'[k] = stack[k - 1]
    BY <1>1, <1>7, CallEffect
  <2>7. Len(stack') = Len(mid) + 1
    BY <1>2, <2>4, <2>6
  <2>8. ASSUME NEW k \in 1..Len(mid) PROVE stack'[k + 1] = mid[k]
    <3>1. CASE k = 1
      BY <2>4, <2>6, <3>1
    <3>2. CASE k # 1
      <4>1. /\ k - 1 \in 1..Len(stack) - 1 /\ (k - 1) + 1 = k
            /\ k + 1 \in 3..Len(stack) + 1 /\ (k + 1) - 1 = k
        BY <1>2, <2>4, <3>2
      <4>2. mid[k] = rest[k - 1]
        BY <1>2, <2>4, <4>1
      <4>3. rest[k - 1] = stack[k] /\ stack'[k + 1] = stack[k]
        BY <1>2, <2>6, <4>1
      <4> QED
        BY <4>2, <4>3
    <3> QED
      BY <3>1, <3>2
  <2>9. Work(stack') = StepsOf(f) + Work(mid)
    BY <2>2, <2>6, <2>7, <2>8, WorkWithTop
  <2>10. StepsOf(f) \in Nat /\ StepsOf(x) \in Nat
    BY StepsOfFrame, Zenon
  <2> QED
    BY <1>3, <2>5, <2>9, <2>10
<1> QED
  BY <1>3, <1>4, <1>5, <1>6, <1>7

\* The credit c before a step and d after it, by its parts: n and m for the exceptions to
\* come, p and q for the one that is pending, a and b for the one to be thrown.
CreditChange(n, p, a, c, m, q, b, d) ==
  /\ c \in Nat /\ d \in Nat
  /\ m = n - 1 /\ q = p /\ b = a => d + 36 = c
  /\ m = n - 1 /\ b = a => d < c /\ d <= c
  /\ m = n - 1 /\ q = 0 /\ b = a => d + 36 <= c
  /\ m = n /\ p = 35 /\ q = 0 /\ b = a => d + 35 = c
  /\ (m = n \/ m = n - 1) /\ q <= p /\ a = 1 /\ b = 0 => d < c /\ d <= c
  /\ m = n /\ q = p => d <= c + 1

LEMMA CreditArithmetic ==
  ASSUME NEW n \in Nat, NEW m \in Nat, NEW p \in 0..35, NEW q \in 0..35,
         NEW a \in 0..1, NEW b \in 0..1, NEW c, NEW d,
         c = 36 * n + p + a, d = 36 * m + q + b
  PROVE  CreditChange(n, p, a, c, m, q, b, d)
BY DEF CreditChange

\* The credit is a number, and what an exception takes from it.
LEMMA CreditOfStep ==
  ASSUME IInv, IInv'
  PROVE  /\ Credit \in Nat /\ Credit' \in Nat
         /\ UNCHANGED <<faults, pending, exc>> => Credit' = Credit /\ Credit' <= Credit
         /\ Fault /\ pending' = pending /\ exc' = exc => Credit' + 36 = Credit
         /\ Fault /\ exc' = exc => Credit' < Credit /\ Credit' <= Credit
         /\ Fault /\ ~pending' /\ exc' = exc => Credit' + 36 <= Credit
         /\ pending /\ ~pending' /\ UNCHANGED <<faults, exc>> => Credit' + 35 = Credit
         /\ (UNCHANGED faults \/ Fault) /\ (pending' => pending)
              /\ exc = NoException /\ exc' # NoException => Credit' < Credit /\ Credit' <= Credit
         /\ UNCHANGED <<faults, pending>> => Credit' <= Credit + 1
<1> DEFINE p == IF pending THEN 35 ELSE 0
           q == IF pending' THEN 35 ELSE 0
           a == IF exc = NoException THEN 1 ELSE 0
           b == IF exc' = NoException THEN 1 ELSE 0
<1>1. faults \in Nat /\ faults' \in Nat
  BY CallsAssumption DEF IInv, TypeInv
<1>2. p \in 0..35 /\ q \in 0..35 /\ a \in 0..1 /\ b \in 0..1
  OBVIOUS
<1>3. Credit = 36 * faults + p + a /\ Credit' = 36 * faults' + q + b
  BY DEF Credit
<1>4. /\ pending' = pending => q = p
      /\ pending => p = 35
      /\ ~pending' => q = 0
      /\ (pending' => pending) => q <= p
      /\ exc' = exc => b = a
      /\ exc = NoException => a = 1
      /\ exc' # NoException => b = 0
  OBVIOUS
<1> HIDE DEF p, q, a, b
<1>5. Fault => faults' = faults - 1
  BY DEF Fault
<1>6. CreditChange(faults, p, a, Credit, faults', q, b, Credit')
  BY <1>1, <1>2, <1>3, CreditArithmetic, Zenon
<1>7. UNCHANGED <<faults, pending, exc>> => Credit' = Credit /\ Credit' <= Credit
  <2>1. UNCHANGED <<faults, pending, exc>> => Credit' = Credit
    BY <1>3, <1>4, Zenon
  <2>2. \A k \in Nat : k <= k
    OBVIOUS
  <2> QED
    BY <1>6, <2>1, <2>2, Zenon DEF CreditChange
<1>8. (UNCHANGED faults \/ Fault) /\ (pending' => pending)
        /\ exc = NoException /\ exc' # NoException => Credit' < Credit /\ Credit' <= Credit
  BY <1>4, <1>5, <1>6, Zenon DEF CreditChange
<1>9. /\ Fault /\ pending' = pending /\ exc' = exc => Credit' + 36 = Credit
      /\ Fault /\ exc' = exc => Credit' < Credit /\ Credit' <= Credit
      /\ Fault /\ ~pending' /\ exc' = exc => Credit' + 36 <= Credit
      /\ pending /\ ~pending' /\ UNCHANGED <<faults, exc>> => Credit' + 35 = Credit
      /\ UNCHANGED <<faults, pending>> => Credit' <= Credit + 1
  BY <1>4, <1>5, <1>6, Zenon DEF CreditChange
<1> QED
  BY <1>6, <1>7, <1>8, <1>9, Zenon DEF CreditChange

\* Sums of a measure whose parts change.
LEMMA SumsOfWork ==
  ASSUME NEW c \in Nat, NEW d \in Nat, NEW r \in Nat, NEW s \in Nat, NEW u \in Nat, d + u < c + s
  PROVE  d + (u + r) < c + (s + r)
OBVIOUS

LEMMA ReturnPays ==
  ASSUME NEW c \in Nat, NEW d \in Nat, NEW r \in Nat, NEW s \in 2..35, d <= c + 1
  PROVE  d + r < c + (s + r)
OBVIOUS

LEMMA TopPays ==
  ASSUME NEW c \in Nat, NEW d \in Nat, NEW s \in Nat, NEW u \in Nat, d <= c, u < s
  PROVE  d + u < c + s
OBVIOUS

LEMMA NumbersLess ==
  ASSUME NEW c \in Nat, NEW d \in Nat
  PROVE  /\ d < c => d <= c
         /\ d <= c => d <= c + 1
         /\ d + 36 = c => d + (2 + 2) < c + 3
         /\ d + 36 <= c => d + (35 + 2) < c + 2
         /\ d + 35 = c => d + (35 + 2) < c + 3
OBVIOUS

\* Each kind of step comes nearer to the end if the credit and the top pay for it.
LEMMA ReturnNearer ==
  ASSUME IInv, IInv', stack # <<>>, Return, Credit' <= Credit + 1
  PROVE  Left' < Left
<1>1. PICK r \in Nat : Work(stack) = StepsOf(stack[1]) + r /\ Work(stack') = r
  BY WorkOfStack
<1>2. Credit \in Nat /\ Credit' \in Nat
  BY CreditOfStep, Zenon
<1>3. StepsOf(stack[1]) \in 2..35
  BY StepsOfFrame, Zenon
<1>4. Credit' + r < Credit + (StepsOf(stack[1]) + r)
  BY <1>1, <1>2, <1>3, ReturnPays, Zenon
<1>5. Left = Credit + (StepsOf(stack[1]) + r) /\ Left' = Credit' + r
  BY <1>1, Zenon DEF Left
<1> QED
  BY <1>4, <1>5, Zenon

LEMMA TopNearer ==
  ASSUME IInv, IInv', stack # <<>>, NEW x \in Frames, stack' = <<x>> \o Tail(stack),
         Credit' + StepsOf(x) < Credit + StepsOf(stack[1])
  PROVE  Left' < Left
<1>1. PICK r \in Nat : Work(stack) = StepsOf(stack[1]) + r /\ Work(stack') = StepsOf(x) + r
  BY WorkOfStack
<1>2. Credit \in Nat /\ Credit' \in Nat
  BY CreditOfStep, Zenon
<1>3. StepsOf(stack[1]) \in Nat /\ StepsOf(x) \in Nat
  BY StepsOfFrame, Zenon
<1>4. Credit' + (StepsOf(x) + r) < Credit + (StepsOf(stack[1]) + r)
  BY <1>1, <1>2, <1>3, SumsOfWork, Zenon
<1>5. Left = Credit + (StepsOf(stack[1]) + r) /\ Left' = Credit' + (StepsOf(x) + r)
  BY <1>1, Zenon DEF Left
<1> QED
  BY <1>4, <1>5, Zenon

LEMMA PushNearer ==
  ASSUME IInv, IInv', stack # <<>>, NEW f \in Frames, NEW x \in Frames,
         stack' = <<f, x>> \o Tail(stack),
         Credit' + (StepsOf(f) + StepsOf(x)) < Credit + StepsOf(stack[1])
  PROVE  Left' < Left
<1> DEFINE both == StepsOf(f) + StepsOf(x)
<1>1. PICK r \in Nat : Work(stack) = StepsOf(stack[1]) + r /\ Work(stack') = both + r
  BY WorkOfStack
<1>2. Credit \in Nat /\ Credit' \in Nat
  BY CreditOfStep, Zenon
<1>3. both \in Nat
  <2>1. StepsOf(f) \in Nat /\ StepsOf(x) \in Nat
    BY StepsOfFrame, Zenon
  <2>2. \A i, j \in Nat : i + j \in Nat
    OBVIOUS
  <2> QED
    BY <2>1, <2>2, Zenon
<1>4. StepsOf(stack[1]) \in Nat
  BY StepsOfFrame, Zenon
<1>5. Credit' + both < Credit + StepsOf(stack[1])
  OBVIOUS
<1> HIDE DEF both
<1>6. Credit' + (both + r) < Credit + (StepsOf(stack[1]) + r)
  BY <1>1, <1>2, <1>3, <1>4, <1>5, SumsOfWork, Zenon
<1>7. Left = Credit + (StepsOf(stack[1]) + r) /\ Left' = Credit' + (both + r)
  BY <1>1, Zenon DEF Left
<1> QED
  BY <1>6, <1>7, Zenon

LEMMA StillNearer ==
  ASSUME IInv, IInv', stack' = stack, Credit' < Credit
  PROVE  Left' < Left
<1>1. Credit \in Nat /\ Credit' \in Nat
  BY CreditOfStep, Zenon
<1>2. Work(stack) \in Nat /\ Work(stack') = Work(stack)
  BY WorkFinite DEF IInv, TypeInv
<1>3. \A c, d, w \in Nat : d < c => d + w < c + w
  OBVIOUS
<1>4. Credit' + Work(stack') < Credit + Work(stack)
  BY <1>1, <1>2, <1>3, Zenon
<1> QED
  BY <1>4, Zenon DEF Left

\* The function that runs goes on, or calls another one.
LEMMA GotoNearer ==
  ASSUME IInv, IInv', stack # <<>>, NEW at \in Points, Goto(at), Credit' <= Credit,
         \A x \in Frames : x.fn = stack[1].fn /\ x.at = at => StepsOf(x) < StepsOf(stack[1])
  PROVE  Left' < Left
<1>1. stack \in Seq(Frames)
  BY DEF IInv, TypeInv
<1>2. PICK x \in Frames : stack' = <<x>> \o Tail(stack) /\ x.fn = stack[1].fn /\ x.at = at
  BY <1>1, GotoFrame
<1>3. Credit \in Nat /\ Credit' \in Nat /\ StepsOf(x) \in Nat /\ StepsOf(stack[1]) \in Nat
  BY CreditOfStep, StepsOfFrame, Zenon
<1>4. StepsOf(x) < StepsOf(stack[1])
  BY <1>2
<1>5. Credit' + StepsOf(x) < Credit + StepsOf(stack[1])
  BY <1>3, <1>4, TopPays, Zenon
<1> QED
  BY <1>2, <1>5, TopNearer

LEMMA CallNearer ==
  ASSUME IInv, IInv', stack # <<>>, NEW at \in Points,
         NEW fn \in Functions, NEW place \in Points, NEW p \in Pointers, Call(at, Frame(fn, place, p)),
         \A f, x \in Frames :
           f.fn = fn /\ f.at = place /\ x.fn = stack[1].fn /\ x.at = at
             => Credit' + (StepsOf(f) + StepsOf(x)) < Credit + StepsOf(stack[1])
  PROVE  Left' < Left
<1> DEFINE f == Frame(fn, place, p)
           x == [Top EXCEPT !.at = at]
<1>1. f \in Frames /\ f.fn = fn /\ f.at = place
  BY DEF Frames, Frame
<1>2. x \in Frames /\ x.fn = stack[1].fn /\ x.at = at
  <2>1. Top = stack[1] /\ stack[1] \in Frames
    BY TopFacts
  <2> QED
    BY <2>1 DEF Frames
<1>3. stack' = <<f, x>> \o Tail(stack)
  BY DEF Call
<1> HIDE DEF f, x
<1>4. Credit' + (StepsOf(f) + StepsOf(x)) < Credit + StepsOf(stack[1])
  BY <1>1, <1>2
<1> QED
  BY <1>1, <1>2, <1>3, <1>4, PushNearer

\* The report of an exception, pending or new, is paid by it.
LEMMA WrapNearer ==
  ASSUME IInv, IInv', stack # <<>>, BuildNative, exc' = exc,
         \/ stack[1].fn \in Callers /\ stack[1].at = "check" /\ pending /\ UNCHANGED faults
         \/ stack[1].fn = "getClassName" /\ stack[1].at = "name" /\ Fault
  PROVE  Left' < Left
<1> DEFINE d == CHOOSE n \in Details \ live : TRUE
           f == Frame("trace", "writer", Writer)
           x == [Top EXCEPT !.at = "throw", !.detail = d]
<1>1. stack' = <<f, x>> \o Tail(stack) /\ pending' = FALSE
  BY DEF BuildNative
<1>2. f \in Frames /\ f.fn = "trace" /\ f.at = "writer"
  BY DEF Frames, Frame, Functions, Points, Pointers
<1>3. x \in Frames /\ x.at = "throw"
  <2>1. Top = stack[1] /\ stack[1] \in Frames
    BY TopFacts
  <2>2. d \in Details
    BY DetailLeft DEF Fault
  <2> QED
    BY <2>1, <2>2 DEF Frames, Points
<1> HIDE DEF f, x
<1>4. StepsOf(f) = 35 /\ StepsOf(x) = 2
  BY <1>2, <1>3 DEF StepsOf, Callers
<1>5. Credit \in Nat /\ Credit' \in Nat
  BY CreditOfStep, Zenon
<1>6. Credit' + (35 + 2) < Credit + StepsOf(stack[1])
  <2>1. CASE stack[1].fn \in Callers /\ stack[1].at = "check" /\ pending /\ UNCHANGED faults
    <3>1. StepsOf(stack[1]) = 3
      BY <2>1 DEF StepsOf, Callers
    <3>2. Credit' + 35 = Credit
      BY <1>1, <2>1, CreditOfStep
    <3>3. Credit' + (35 + 2) < Credit + 3
      BY <1>5, <3>2, NumbersLess, Zenon
    <3> QED
      BY <3>1, <3>3, Zenon
  <2>2. CASE stack[1].fn = "getClassName" /\ stack[1].at = "name" /\ Fault
    <3>1. StepsOf(stack[1]) = 2
      BY <2>2 DEF StepsOf, Callers
    <3>2. Credit' + 36 <= Credit
      BY <1>1, <2>2, CreditOfStep
    <3>3. Credit' + (35 + 2) < Credit + 2
      BY <1>5, <3>2, NumbersLess, Zenon
    <3> QED
      BY <3>1, <3>3, Zenon
  <2> QED
    BY <2>1, <2>2
<1>7. Credit' + (StepsOf(f) + StepsOf(x)) < Credit + StepsOf(stack[1])
  BY <1>4, <1>6, Zenon
<1> QED
  BY <1>1, <1>2, <1>3, <1>7, PushNearer

\* The steps of the functions that call Java.
LEMMA CallersNearer ==
  ASSUME IInv, IInv', FindForCall \/ FindMember \/ CallJava \/ NoPending \/ CheckAndClear
  PROVE  Left' < Left
<1>1. {"find", "method", "java", "check", "undefined", "lock"} \subseteq Points /\ "get" \in Functions
  BY DEF Points, Functions
<1>2. Credit \in Nat /\ Credit' \in Nat
  BY CreditOfStep, Zenon
<1>3. CASE FindForCall
  <2>1. PICK fn \in Callers : At(fn, "find")
    BY <1>3 DEF FindForCall
  <2>2. /\ stack # <<>> /\ Top = stack[1] /\ stack[1].ptr \in Pointers
        /\ stack[1].fn \in Callers /\ stack[1].at = "find"
    BY <2>1, AtFacts
  <2>3. Call("method", Frame("get", "lock", stack[1].ptr)) /\ UNCHANGED <<faults, pending, exc>>
    BY <1>3, <2>2 DEF FindForCall
  <2>4. Credit' <= Credit
    BY <2>3, CreditOfStep, Zenon
  <2>5. StepsOf(stack[1]) = 11 /\ 10 < 11 /\ 10 \in Nat /\ 11 \in Nat
    BY <2>2 DEF StepsOf, Callers
  <2>6. ASSUME NEW f \in Frames, NEW x \in Frames,
               f.fn = "get", f.at = "lock", x.fn = stack[1].fn, x.at = "method"
        PROVE  Credit' + (StepsOf(f) + StepsOf(x)) < Credit + StepsOf(stack[1])
    <3>1. StepsOf(f) = 5 /\ StepsOf(x) = 5
      BY <2>2, <2>6 DEF StepsOf, Callers
    <3>2. StepsOf(f) + StepsOf(x) = 10
      BY <3>1
    <3>3. Credit' + 10 < Credit + 11
      BY <1>2, <2>4, <2>5, TopPays, Zenon
    <3> QED
      BY <2>5, <3>2, <3>3, Zenon
  <2> QED
    BY <1>1, <2>2, <2>3, <2>6, CallNearer
<1>4. CASE FindMember
  <2>1. PICK fn \in Callers : At(fn, "method")
    BY <1>4 DEF FindMember
  <2>2. /\ stack # <<>> /\ stack[1].fn \in Callers /\ stack[1].at = "method"
    BY <2>1, AtFacts
  <2>3. StepsOf(stack[1]) = 5
    BY <2>2 DEF StepsOf, Callers
  <2>4. PICK at \in {"java", "undefined"} : Goto(at)
    BY <1>4 DEF FindMember
  <2>5. Credit' <= Credit
    <3>1. CASE UNCHANGED <<pending, faults>>
      BY <1>4, <3>1, CreditOfStep, Zenon DEF FindMember
    <3>2. CASE Fault
      BY <1>4, <3>2, CreditOfStep, Zenon DEF FindMember
    <3> QED
      BY <1>4, <3>1, <3>2 DEF FindMember
  <2>6. ASSUME NEW x \in Frames, x.fn = stack[1].fn, x.at = at
        PROVE  StepsOf(x) < StepsOf(stack[1])
    <3>1. StepsOf(x) \in {2, 4}
      BY <2>2, <2>6 DEF StepsOf, Callers
    <3> QED
      BY <2>3, <3>1
  <2> QED
    BY <1>1, <2>2, <2>4, <2>5, <2>6, GotoNearer
<1>5. CASE CallJava
  <2>1. PICK fn \in Callers : At(fn, "java")
    BY <1>5 DEF CallJava
  <2>2. /\ stack # <<>> /\ stack[1].fn \in Callers /\ stack[1].at = "java"
    BY <2>1, AtFacts
  <2>3. StepsOf(stack[1]) = 4 /\ Goto("check")
    BY <1>5, <2>2 DEF StepsOf, Callers, CallJava
  <2>4. Credit' <= Credit
    <3>1. CASE UNCHANGED <<pending, faults>>
      BY <1>5, <3>1, CreditOfStep, Zenon DEF CallJava
    <3>2. CASE Fault
      BY <1>5, <3>2, CreditOfStep, Zenon DEF CallJava
    <3> QED
      BY <1>5, <3>1, <3>2 DEF CallJava
  <2>5. ASSUME NEW x \in Frames, x.fn = stack[1].fn, x.at = "check"
        PROVE  StepsOf(x) < StepsOf(stack[1])
    <3>1. StepsOf(x) = 3
      BY <2>2, <2>5 DEF StepsOf, Callers
    <3> QED
      BY <2>3, <3>1
  <2> QED
    BY <1>1, <2>2, <2>3, <2>4, <2>5, GotoNearer
<1>6. CASE NoPending
  <2>1. stack # <<>> /\ Return /\ UNCHANGED <<faults, pending, exc>>
    BY <1>6 DEF NoPending, At, Running
  <2>2. Credit' <= Credit + 1
    BY <2>1, CreditOfStep, Zenon
  <2> QED
    BY <2>1, <2>2, ReturnNearer, Zenon
<1>7. CASE CheckAndClear
  <2>1. PICK fn \in Callers : At(fn, "check")
    BY <1>7 DEF CheckAndClear
  <2>2. stack # <<>> /\ stack[1].fn \in Callers /\ stack[1].at = "check"
    BY <2>1, AtFacts
  <2>3. BuildNative /\ exc' = exc /\ pending /\ UNCHANGED faults
    BY <1>7 DEF CheckAndClear
  <2> QED
    BY <2>2, <2>3, WrapNearer
<1> QED
  BY <1>3, <1>4, <1>5, <1>6, <1>7

\* An exception is thrown where the program is.
LEMMA ThrowsNearer ==
  ASSUME IInv, IInv', ThrowNative \/ ThrowNewGlobalRef
  PROVE  Left' < Left
<1>1. Credit \in Nat /\ Credit' \in Nat
  BY CreditOfStep, Zenon
<1>2. stack # <<>> /\ exc = NoException /\ exc' # NoException /\ UNCHANGED <<pending, faults>>
  <2>1. stack # <<>> /\ exc = NoException
    BY DEF ThrowNative, ThrowNewGlobalRef, At, Running
  <2>2. exc'.kind = "native" /\ NoException.kind = "none"
    BY DEF ThrowNative, ThrowNewGlobalRef, Native, NoException
  <2>3. UNCHANGED <<pending, faults>>
    BY DEF ThrowNative, ThrowNewGlobalRef
  <2> QED
    BY <2>1, <2>2, <2>3
<1>3. Credit' < Credit
  BY <1>2, CreditOfStep, Zenon
<1>4. CASE ThrowNative
  <2> DEFINE x == [Top EXCEPT !.detail = NoDetail]
  <2>1. stack' = <<x>> \o Tail(stack) /\ Top.at = "throw" /\ Top = stack[1] /\ stack[1] \in Frames
    BY <1>2, <1>4, TopFacts DEF ThrowNative
  <2>2. x \in Frames /\ x.at = "throw"
    BY <2>1 DEF Frames
  <2> HIDE DEF x
  <2>3. StepsOf(x) = 2 /\ StepsOf(stack[1]) = 2
    BY <2>1, <2>2 DEF StepsOf
  <2>4. \A c, d \in Nat : d < c => d + 2 < c + 2
    OBVIOUS
  <2>5. Credit' + 2 < Credit + 2
    BY <1>1, <1>3, <2>4, Zenon
  <2>6. Credit' + StepsOf(x) < Credit + StepsOf(stack[1])
    BY <2>3, <2>5, Zenon
  <2> QED
    BY <1>2, <2>1, <2>2, <2>6, TopNearer
<1>5. CASE ThrowNewGlobalRef
  <2>1. stack' = stack
    BY <1>5 DEF ThrowNewGlobalRef
  <2> QED
    BY <1>3, <2>1, StillNearer, Zenon
<1> QED
  BY <1>4, <1>5

\* The steps of the class cache.
LEMMA CacheNearer ==
  ASSUME IInv, IInv', LockAndLookUp \/ FindClass \/ NewGlobalRef \/ Insert \/ GetClassName
  PROVE  Left' < Left
<1>1. {"find", "ref", "refFailed", "insert", "name"} \subseteq Points /\ "getClassName" \in Functions
  BY DEF Points, Functions
<1>2. Credit \in Nat /\ Credit' \in Nat
  BY CreditOfStep, Zenon
<1>3. CASE LockAndLookUp
  <2>1. stack # <<>> /\ stack[1].fn = "get" /\ stack[1].at = "lock"
    BY <1>3, AtFacts DEF LockAndLookUp
  <2>2. UNCHANGED <<faults, pending, exc>>
    BY <1>3 DEF LockAndLookUp
  <2>3. CASE Return
    <3>1. Credit' <= Credit + 1
      BY <2>2, CreditOfStep, Zenon
    <3> QED
      BY <2>1, <2>3, <3>1, ReturnNearer, Zenon
  <2>4. CASE Goto("find")
    <3>1. ASSUME NEW x \in Frames, x.fn = stack[1].fn, x.at = "find"
          PROVE  StepsOf(x) < StepsOf(stack[1])
      <4>1. StepsOf(x) = 4 /\ StepsOf(stack[1]) = 5
        BY <2>1, <3>1 DEF StepsOf, Callers
      <4> QED
        BY <4>1
    <3>2. Credit' <= Credit
      BY <2>2, CreditOfStep, Zenon
    <3> QED
      BY <1>1, <2>1, <2>4, <3>1, <3>2, GotoNearer
  <2> QED
    BY <1>3, <2>3, <2>4 DEF LockAndLookUp
<1>4. CASE FindClass
  <2>1. stack # <<>> /\ exc = NoException /\ stack[1].fn = "get" /\ stack[1].at = "find"
    BY <1>4, AtFacts DEF FindClass
  <2>2. CASE Goto("ref") /\ UNCHANGED <<exc, pending, faults>>
    <3>1. ASSUME NEW x \in Frames, x.fn = stack[1].fn, x.at = "ref"
          PROVE  StepsOf(x) < StepsOf(stack[1])
      <4>1. StepsOf(x) = 3 /\ StepsOf(stack[1]) = 4
        BY <2>1, <3>1 DEF StepsOf, Callers
      <4> QED
        BY <4>1
    <3>2. Credit' <= Credit
      BY <2>2, CreditOfStep, Zenon
    <3> QED
      BY <1>1, <2>1, <2>2, <3>1, <3>2, GotoNearer
  <2>3. CASE ~(Goto("ref") /\ UNCHANGED <<exc, pending, faults>>)
    <3>1. PICK n : exc' = Native(n)
      BY <1>4, <2>3 DEF FindClass
    <3>2. stack' = stack /\ pending' = FALSE /\ (UNCHANGED faults \/ Fault)
      BY <1>4, <2>3 DEF FindClass
    <3>3. exc' # NoException
      BY <3>1 DEF Native, NoException
    <3>4. Credit' < Credit
      BY <2>1, <3>2, <3>3, CreditOfStep, Zenon
    <3> QED
      BY <3>2, <3>4, StillNearer, Zenon
  <2> QED
    BY <2>2, <2>3
<1>5. CASE NewGlobalRef
  <2>1. /\ stack # <<>> /\ Top = stack[1] /\ stack[1].ptr \in Pointers
        /\ stack[1].fn = "get" /\ stack[1].at = "ref"
    BY <1>5, AtFacts DEF NewGlobalRef
  <2>2. StepsOf(stack[1]) = 3 /\ UNCHANGED <<pending, exc>>
    BY <1>5, <2>1 DEF StepsOf, Callers, NewGlobalRef
  <2>3. CASE Goto("insert") /\ UNCHANGED faults
    <3>1. ASSUME NEW x \in Frames, x.fn = stack[1].fn, x.at = "insert"
          PROVE  StepsOf(x) < StepsOf(stack[1])
      <4>1. StepsOf(x) = 2
        BY <2>1, <3>1 DEF StepsOf, Callers
      <4> QED
        BY <2>2, <4>1
    <3>2. Credit' <= Credit
      BY <2>2, <2>3, CreditOfStep, Zenon
    <3> QED
      BY <1>1, <2>1, <2>3, <3>1, <3>2, GotoNearer
  <2>4. CASE Fault /\ Call("refFailed", Frame("getClassName", "name", stack[1].ptr))
    <3>1. Credit' + (2 + 2) < Credit + 3
      <4>1. Credit' + 36 = Credit
        BY <2>2, <2>4, CreditOfStep, Zenon
      <4> QED
        BY <1>2, <4>1, NumbersLess, Zenon
    <3>2. ASSUME NEW f \in Frames, NEW x \in Frames
          PROVE  f.fn = "getClassName" /\ f.at = "name" /\ x.fn = stack[1].fn /\ x.at = "refFailed"
                   => Credit' + (StepsOf(f) + StepsOf(x)) < Credit + StepsOf(stack[1])
      <4> SUFFICES ASSUME f.fn = "getClassName", f.at = "name", x.fn = stack[1].fn, x.at = "refFailed"
                   PROVE  Credit' + (StepsOf(f) + StepsOf(x)) < Credit + StepsOf(stack[1])
        OBVIOUS
      <4>1. StepsOf(f) = 2 /\ StepsOf(x) = 2
        BY <2>1 DEF StepsOf, Callers
      <4> QED
        BY <2>2, <3>1, <4>1, Zenon
    <3> QED
      BY <1>1, <2>1, <2>4, <3>2, CallNearer
  <2> QED
    BY <1>5, <2>1, <2>3, <2>4 DEF NewGlobalRef
<1>6. CASE Insert
  <2>1. stack # <<>> /\ exc = NoException /\ UNCHANGED pending
    BY <1>6 DEF Insert, At, Running
  <2>2. CASE Return /\ UNCHANGED <<exc, faults>>
    <3>1. Credit' <= Credit + 1
      BY <2>1, <2>2, CreditOfStep, Zenon
    <3> QED
      BY <2>1, <2>2, <3>1, ReturnNearer, Zenon
  <2>3. CASE Fault /\ exc' = BadAlloc /\ UNCHANGED stack
    <3>1. exc' # NoException
      BY <2>3 DEF BadAlloc, NoException
    <3>2. Credit' < Credit
      BY <2>1, <2>3, <3>1, CreditOfStep, Zenon
    <3> QED
      BY <2>3, <3>2, StillNearer, Zenon
  <2> QED
    BY <1>6, <2>2, <2>3 DEF Insert
<1>7. CASE GetClassName
  <2>1. stack # <<>> /\ stack[1].fn = "getClassName" /\ stack[1].at = "name" /\ exc' = exc
    BY <1>7, AtFacts DEF GetClassName
  <2>2. CASE Return /\ UNCHANGED <<pending, faults, live>>
    <3>1. Credit' <= Credit + 1
      BY <2>1, <2>2, CreditOfStep, Zenon
    <3> QED
      BY <2>1, <2>2, <3>1, ReturnNearer, Zenon
  <2>3. CASE Fault /\ BuildNative
    BY <2>1, <2>3, WrapNearer
  <2> QED
    BY <1>7, <2>2, <2>3 DEF GetClassName
<1> QED
  BY <1>3, <1>4, <1>5, <1>6, <1>7

\* The steps of getThrowableStackTrace.
LEMMA TraceNearer ==
  ASSUME IInv, IInv', TraceWriters \/ TraceLookUp \/ TracePrint \/ TraceText
  PROVE  Left' < Left
<1>1. /\ {"writer", "printer", "class", "method", "print", "call", "text", "find"} \subseteq Points
      /\ {"newObject", "callMethod"} \subseteq Functions
      /\ {Writer, Printer} \subseteq Pointers
  BY DEF Points, Functions, Callers, Pointers
<1>2. Credit \in Nat /\ Credit' \in Nat
  BY CreditOfStep, Zenon
<1>3. \A f : StepsOf(f) \in Nat
  BY StepsOfFrame, Zenon
<1>4. PICK at \in {"writer", "printer", "class", "method", "print", "call", "text"} : At("trace", at)
  BY DEF TraceWriters, TraceLookUp, TracePrint, TraceText
<1>5. stack # <<>> /\ Top = stack[1] /\ stack[1].fn = "trace" /\ stack[1].at = at
  BY <1>4, AtFacts
<1>6. exc' = exc
  BY DEF TraceWriters, TraceLookUp, TracePrint, TraceText
<1>7. CASE TraceWriters
  <2>1. Credit' <= Credit
    <3>1. UNCHANGED <<faults, pending, exc>>
      BY <1>6, <1>7 DEF TraceWriters
    <3> QED
      BY <3>1, CreditOfStep, Zenon
  <2>2. ASSUME NEW next \in Points, NEW fn \in {"newObject", "callMethod"}, NEW place \in Points,
               NEW p \in {Writer, Printer}, Call(next, Frame(fn, place, p)),
               \/ at = "writer" /\ next = "printer" /\ fn = "newObject" /\ place = "find"
               \/ at = "printer" /\ next = "class" /\ fn = "newObject" /\ place = "find"
               \/ at = "call" /\ next = "text" /\ fn = "callMethod" /\ place = "method"
        PROVE  Left' < Left
    <3>1. ASSUME NEW f \in Frames, NEW x \in Frames,
                 f.fn = fn, f.at = place, x.fn = stack[1].fn, x.at = next
          PROVE  Credit' + (StepsOf(f) + StepsOf(x)) < Credit + StepsOf(stack[1])
      <4>1. \/ StepsOf(stack[1]) = 35 /\ StepsOf(x) = 23 /\ StepsOf(f) = 11
            \/ StepsOf(stack[1]) = 23 /\ StepsOf(x) = 11 /\ StepsOf(f) = 11
            \/ StepsOf(stack[1]) = 8 /\ StepsOf(x) = 2 /\ StepsOf(f) = 5
        BY <1>5, <2>2, <3>1 DEF StepsOf, Callers
      <4>2. StepsOf(f) + StepsOf(x) \in Nat /\ StepsOf(f) + StepsOf(x) < StepsOf(stack[1])
        BY <4>1
      <4> QED
        BY <1>2, <1>3, <2>1, <4>2, TopPays, Zenon
    <3>2. fn \in Functions /\ p \in Pointers
      BY <1>1
    <3> QED
      BY <1>5, <2>2, <3>1, <3>2, CallNearer
  <2>3. \/ at = "writer" /\ Call("printer", Frame("newObject", "find", Writer))
        \/ at = "printer" /\ Call("class", Frame("newObject", "find", Printer))
        \/ at = "call" /\ Call("text", Frame("callMethod", "method", Writer))
    BY <1>5, <1>7 DEF TraceWriters, At
  <2> QED
    BY <1>1, <2>2, <2>3
<1>8. ASSUME Return, Credit' <= Credit PROVE Left' < Left
  <2>1. Credit' <= Credit + 1
    BY <1>2, <1>8, NumbersLess, Zenon
  <2> QED
    BY <1>5, <1>8, <2>1, ReturnNearer, Zenon
<1>9. ASSUME Fault \/ UNCHANGED <<pending, faults>> PROVE Credit' <= Credit
  <2>1. CASE Fault
    BY <1>6, <2>1, CreditOfStep, Zenon
  <2>2. CASE UNCHANGED <<pending, faults>>
    BY <1>6, <2>2, CreditOfStep, Zenon
  <2> QED
    BY <1>9, <2>1, <2>2
<1>10. ASSUME NEW next \in {"method", "print", "call"}, Goto(next), Credit' <= Credit,
              \/ at = "class" /\ next = "method"
              \/ at = "method" /\ next = "print"
              \/ at = "print" /\ next = "call"
       PROVE  Left' < Left
  <2>1. ASSUME NEW x \in Frames, x.fn = stack[1].fn, x.at = next
        PROVE  StepsOf(x) < StepsOf(stack[1])
    <3>1. \/ StepsOf(stack[1]) = 11 /\ StepsOf(x) = 10
          \/ StepsOf(stack[1]) = 10 /\ StepsOf(x) = 9
          \/ StepsOf(stack[1]) = 9 /\ StepsOf(x) = 8
      BY <1>5, <1>10, <2>1 DEF StepsOf, Callers
    <3> QED
      BY <3>1
  <2> QED
    BY <1>1, <1>5, <1>10, <2>1, GotoNearer
<1>11. CASE TraceLookUp
  <2>1. at \in {"class", "method"} /\ (Fault \/ UNCHANGED <<pending, faults>>)
    BY <1>5, <1>11 DEF TraceLookUp, At
  <2>2. Return \/ Goto(IF at = "class" THEN "method" ELSE "print")
    BY <1>5, <1>11 DEF TraceLookUp
  <2> QED
    BY <1>8, <1>9, <1>10, <2>1, <2>2
<1>12. CASE TracePrint
  <2>1. at = "print" /\ Goto("call") /\ (Fault \/ UNCHANGED <<pending, faults>>)
    BY <1>5, <1>12 DEF TracePrint, At
  <2> QED
    BY <1>9, <1>10, <2>1
<1>13. CASE TraceText
  <2>1. Return /\ (Fault \/ UNCHANGED <<pending, faults>>)
    BY <1>13 DEF TraceText
  <2> QED
    BY <1>8, <1>9, <2>1
<1> QED
  BY <1>7, <1>11, <1>12, <1>13

\* An exception that passes through a function, or is stopped there.
LEMMA UnwindsNearer ==
  ASSUME IInv, IInv',
         UnwindCallMethod \/ Rethrow \/ UnwindNewObject \/ UnwindGet \/ Discard \/ SuppressInToString
  PROVE  Left' < Left
<1>1. stack # <<>> /\ Return /\ UNCHANGED <<pending, faults>>
  BY DEF UnwindCallMethod, Rethrow, UnwindNewObject, UnwindGet, Discard, SuppressInToString, Unwinding
<1>2. Credit' <= Credit + 1
  BY <1>1, CreditOfStep, Zenon
<1> QED
  BY <1>1, <1>2, ReturnNearer, Zenon

\* Every step of the library comes nearer to the end of the call.
LEMMA StepNearer == ASSUME IInv, LibraryStep PROVE Left' < Left
<1>1. IInv'
  BY StepInv DEF Next
<1>2. CASE FindForCall \/ FindMember \/ CallJava \/ NoPending \/ CheckAndClear
  BY <1>1, <1>2, CallersNearer
<1>3. CASE ThrowNative \/ ThrowNewGlobalRef
  BY <1>1, <1>3, ThrowsNearer
<1>4. CASE LockAndLookUp \/ FindClass \/ NewGlobalRef \/ Insert \/ GetClassName
  BY <1>1, <1>4, CacheNearer
<1>5. CASE TraceWriters \/ TraceLookUp \/ TracePrint \/ TraceText
  BY <1>1, <1>5, TraceNearer
<1>6. CASE \/ UnwindCallMethod \/ Rethrow \/ UnwindNewObject \/ UnwindGet \/ Discard
           \/ SuppressInToString
  BY <1>1, <1>6, UnwindsNearer
<1> QED
  BY <1>2, <1>3, <1>4, <1>5, <1>6 DEF LibraryStep

\* Outside the library only the credit is left; a call starts with 11 steps at most.
LEMMA WorkOfNothing == ToDo(<<>>) = {} /\ Work(<<>>) = 0
<1>1. Len(<<>>) = 0 /\ \A i \in 1..0 : FALSE
  OBVIOUS
<1>2. ToDo(<<>>) = {}
  BY <1>1 DEF ToDo
<1> QED
  BY <1>2, FS_EmptySet DEF Work

LEMMA CreditSum ==
  ASSUME NEW m \in Nat, NEW n \in Nat, n <= m, NEW p \in 0..35, NEW a \in 0..1
  PROVE  36 * n + p + a \in 0..36 * m + 36
OBVIOUS

LEMMA CreditBound ==
  /\ IInv => Credit \in 0..36 * MaxFaults + 36
  /\ IInv' => Credit' \in 0..36 * MaxFaults + 36
<1>1. MaxFaults \in Nat
  BY CallsAssumption
<1>2. ASSUME IInv PROVE Credit \in 0..36 * MaxFaults + 36
  <2> DEFINE p == IF pending THEN 35 ELSE 0
             a == IF exc = NoException THEN 1 ELSE 0
  <2>1. faults \in Nat /\ faults <= MaxFaults
    BY <1>1, <1>2 DEF IInv, TypeInv
  <2>2. p \in 0..35 /\ a \in 0..1
    OBVIOUS
  <2>3. Credit = 36 * faults + p + a
    BY DEF Credit
  <2> HIDE DEF p, a
  <2> QED
    BY <1>1, <2>1, <2>2, <2>3, CreditSum, Zenon
<1>3. ASSUME IInv' PROVE Credit' \in 0..36 * MaxFaults + 36
  <2> DEFINE p == IF pending' THEN 35 ELSE 0
             a == IF exc' = NoException THEN 1 ELSE 0
  <2>1. faults' \in Nat /\ faults' <= MaxFaults
    BY <1>1, <1>3 DEF IInv, TypeInv
  <2>2. p \in 0..35 /\ a \in 0..1
    OBVIOUS
  <2>3. Credit' = 36 * faults' + p + a
    BY DEF Credit
  <2> HIDE DEF p, a
  <2> QED
    BY <1>1, <2>1, <2>2, <2>3, CreditSum, Zenon
<1> QED
  BY <1>2, <1>3

LEMMA StepLeft == ASSUME IInv, LeftInv, [Next]_vars PROVE LeftInv'
<1>1. IInv' /\ MaxFaults \in Nat
  BY StepInv, CallsAssumption
<1>2. MaxFaults' = MaxFaults
  OBVIOUS
<1>3. Credit' \in 0..36 * MaxFaults + 36 /\ Work(stack') \in Nat
  <2>1. Credit' \in 0..36 * MaxFaults + 36
    BY <1>1, CreditBound, Zenon
  <2> QED
    BY <1>1, <2>1, WorkFinite DEF IInv, TypeInv
<1>4. Left' = Credit' + Work(stack')
  BY DEF Left
<1>5. ASSUME Work(stack') <= 11 PROVE LeftInv'
  <2>1. Left' \in 0..36 * MaxFaults + 47
    BY <1>1, <1>3, <1>4, <1>5
  <2> QED
    BY <2>1 DEF LeftInv
<1>6. CASE LibraryStep
  <2>1. Left' < Left
    BY <1>6, StepNearer
  <2>2. Left' \in Nat
    BY <1>1, <1>3, <1>4
  <2>3. Left \in 0..36 * MaxFaults + 47
    BY DEF LeftInv
  <2> HIDE DEF Left
  <2>4. Left' \in 0..36 * MaxFaults + 47
    BY <1>1, <2>1, <2>2, <2>3
  <2> QED
    BY <2>4 DEF LeftInv
<1>7. CASE StartCall
  <2>1. PICK fn \in Callers \cup {"get"}, at \in {"find", "method", "lock"}, p \in Buffers :
          /\ stack' = <<Frame(fn, at, p)>>
          /\ fn \in Callers => at \in {"find", "method"}
          /\ fn = "get" => at = "lock"
    BY <1>7 DEF StartCall, Callers
  <2> DEFINE f == Frame(fn, at, p)
             none == <<>>
  <2>2. f \in Frames /\ f.fn = fn /\ f.at = at
    BY DEF Frames, Frame, Functions, Points, Pointers
  <2>3. StepsOf(f) \in {5, 11}
    BY <2>1, <2>2 DEF StepsOf, Callers
  <2> HIDE DEF f
  <2>4. stack' = <<f>>
    BY <2>1 DEF f
  <2>5. stack' \in Seq(Frames) /\ Len(stack') = 1 /\ stack'[1] = f
    BY <2>2, <2>4
  <2>6. none \in Seq(Frames) /\ Len(none) = 0 /\ Work(none) = 0
    BY EmptySeq, WorkOfNothing
  <2> HIDE DEF none
  <2>7. Len(stack') = Len(none) + 1 /\ \A k \in 1..Len(none) : stack'[k + 1] = none[k]
    BY <2>5, <2>6
  <2>8. Work(stack') = StepsOf(f) + 0
    BY <2>5, <2>6, <2>7, WorkWithTop
  <2> QED
    BY <1>5, <2>3, <2>8
<1>8. CASE HandleException \/ ReuseBuffer
  <2>1. stack' = <<>>
    BY <1>8 DEF HandleException, ReuseBuffer
  <2> QED
    BY <1>5, <2>1, WorkOfNothing
<1>9. CASE UNCHANGED vars
  <2>1. Left' = Left
    BY <1>9 DEF vars, Left, Credit, Work, ToDo
  <2> QED
    BY <2>1 DEF LeftInv
<1> QED
  BY <1>6, <1>7, <1>8, <1>9 DEF Next

\* A call is bounded: of the exceptions that Java raises, each one costs it 36 steps at
\* most, for its report and the reports of what fails in that one; the rest of a call
\* of callMethod, newObject or getEnumObject (JNIHelper.cc:540) takes 47 at most. While
\* the library runs, every step is one of these. This is what CallsEnd rests on,
\* without the fairness.
THEOREM CallsAreBounded == Spec => []LeftInv /\ [][stack # <<>> => Left' < Left]_vars
<1>1. Init => IInv /\ LeftInv
  <2> SUFFICES ASSUME Init PROVE IInv /\ LeftInv
    OBVIOUS
  <2>1. IInv /\ stack = <<>> /\ MaxFaults \in Nat
    BY InitInv, CallsAssumption DEF Init
  <2>2. Left = Credit + 0 /\ Credit \in 0..36 * MaxFaults + 36
    BY <2>1, WorkOfNothing, CreditBound DEF Left
  <2> QED
    BY <2>1, <2>2 DEF LeftInv
<1>2. (IInv /\ LeftInv) /\ [Next]_vars => (IInv /\ LeftInv)'
  BY StepInv, StepLeft
<1>3. (IInv /\ LeftInv) /\ [Next]_vars => [stack # <<>> => Left' < Left]_vars
  <2> SUFFICES ASSUME IInv, Next, stack # <<>> PROVE Left' < Left
    OBVIOUS
  <2>1. LibraryStep
    BY DEF Next, StartCall, HandleException, ReuseBuffer
  <2> QED
    BY <2>1, StepNearer
<1> QED
  BY <1>1, <1>2, <1>3, PTL DEF Spec

-------------------------------------------------------------------------------
(* Where a call stops *)

\* A guard of LibraryStep holds: a function can go on, or be unwound.
CanGoOn ==
  \/ \E fn \in Callers : \E at \in {"find", "method", "java", "check"} : At(fn, at)
  \/ Running /\ Top.at = "throw"
  \/ At("get", "lock") /\ ~locked
  \/ \E at \in {"find", "ref", "refFailed", "insert"} : At("get", at)
  \/ At("getClassName", "name")
  \/ \E at \in {"writer", "printer", "class", "method", "print", "call", "text"} : At("trace", at)
  \/ \E fn \in Callers \cup {"get"} : Unwinding(fn)
  \/ Unwinding("getClassName") /\ exc.kind = "native"
  \/ Unwinding("trace") /\ exc.kind \in {"native", "std"}
OnlyLockOrNullStops == stack # <<>> => CanGoOn \/ SelfBlocked \/ Undefined

\* getClassName, which catches NativeException only, meets no other exception.
NativeInv ==
  exc # NoException /\ stack # <<>> /\ stack[1].fn = "getClassName" => exc.kind = "native"

LEMMA StepNative == ASSUME IInv, NativeInv, [Next]_vars PROVE NativeInv'
<1> SUFFICES ASSUME exc' # NoException, stack' # <<>>, stack'[1].fn = "getClassName"
             PROVE  exc'.kind = "native"
  BY DEF NativeInv
<1>1. IInv'
  BY StepInv
<1>2. CASE ThrowNative \/ ThrowNewGlobalRef \/ FindClass
  <2>1. exc' = exc \/ \E d : exc' = Native(d)
    BY <1>2 DEF ThrowNative, ThrowNewGlobalRef, FindClass
  <2>2. exc = NoException
    BY <1>2 DEF ThrowNative, ThrowNewGlobalRef, FindClass, At, Running
  <2> QED
    BY <2>1, <2>2 DEF Native
<1>3. CASE Insert
  <2>1. stack # <<>> /\ exc = NoException /\ stack[1].fn = "get"
    BY <1>3, AtFacts DEF Insert
  <2>2. stack' = stack
    BY <1>3, <2>1 DEF Insert
  <2> QED
    BY <2>1, <2>2
<1>4. CASE Discard \/ SuppressInToString
  BY <1>4 DEF Discard, SuppressInToString
<1>5. CASE UnwindCallMethod \/ Rethrow \/ UnwindNewObject \/ UnwindGet
  <2>1. PICK fn \in Callers \cup {"get"} : Unwinding(fn)
    BY <1>5 DEF UnwindCallMethod, Rethrow, UnwindNewObject, UnwindGet, Callers
  <2>2. stack # <<>> /\ stack[1].fn # "trace" /\ Return
    BY <1>5, <2>1, UnwindFacts
       DEF UnwindCallMethod, Rethrow, UnwindNewObject, UnwindGet, Callers
  <2>3. /\ stack' \in Seq(Frames) /\ Len(stack') = Len(stack) - 1 /\ Len(stack) \in Nat
        /\ \A k \in 1..Len(stack) - 1 : stack'[k] = stack[k + 1] /\ k + 1 \in 2..Len(stack)
    BY <2>2, PopIndices
  <2>4. 1 \in 1..Len(stack) - 1
    <3>1. Len(stack') # 0
      BY <2>3, EmptySeq
    <3> QED
      BY <2>3, <3>1, LenProperties
  <2>5. stack'[1] = stack[2] /\ 2 \in 2..Len(stack) /\ stack[2].fn = "getClassName"
    BY <2>3, <2>4
  <2>6. Waiting(stack[2]) /\ (stack[2].at = "throw" => stack[2 - 1].fn = "trace")
    BY <2>5 DEF IInv, StackInv, FramesInv
  <2>7. stack[2].at = "throw"
    BY <2>5, <2>6 DEF Waiting, Callers
  <2> QED
    BY <2>2, <2>6, <2>7
<1>6. CASE HandleException
  BY <1>6 DEF HandleException
<1>7. CASE ReuseBuffer \/ UNCHANGED vars
  BY <1>7 DEF ReuseBuffer, vars, NativeInv
<1>8. CASE \/ StartCall \/ FindForCall \/ FindMember \/ CallJava \/ NoPending \/ CheckAndClear
           \/ LockAndLookUp \/ NewGlobalRef \/ GetClassName
           \/ TraceWriters \/ TraceLookUp \/ TracePrint \/ TraceText
  <2>1. exc' = exc
    BY <1>8 DEF StartCall, FindForCall, FindMember, CallJava, NoPending, CheckAndClear, LockAndLookUp,
                NewGlobalRef, GetClassName, TraceWriters, TraceLookUp, TracePrint, TraceText
  <2>2. exc = NoException
    BY <1>8 DEF StartCall, FindForCall, FindMember, CallJava, NoPending, CheckAndClear, LockAndLookUp,
                NewGlobalRef, GetClassName, TraceWriters, TraceLookUp, TracePrint, TraceText, At, Running
  <2> QED
    BY <2>1, <2>2
<1> QED
  BY <1>2, <1>3, <1>4, <1>5, <1>6, <1>7, <1>8 DEF Next, LibraryStep

\* A call stops before it has returned or thrown in two places only: where ClassCache::get
\* (JNIHelper.cc:124) waits for the lock that it holds itself, further down the same
\* stack, and where a NULL method goes into a JNI call. Everywhere else a step can be
\* taken: an exception, whatever its type, finds a function it passes through or a
\* catch clause that is for it.
THEOREM NothingElseStops == Spec => []OnlyLockOrNullStops
<1>1. Init => IInv /\ NativeInv
  BY InitInv DEF Init, NativeInv
<1>2. (IInv /\ NativeInv) /\ [Next]_vars => (IInv /\ NativeInv)'
  BY StepInv, StepNative
<1>3. IInv /\ NativeInv => OnlyLockOrNullStops
  <2> SUFFICES ASSUME IInv, NativeInv, stack # <<>> PROVE CanGoOn \/ SelfBlocked \/ Undefined
    BY DEF OnlyLockOrNullStops
  <2>1. Top = stack[1] /\ stack[1] \in Frames /\ Placed(stack[1]) /\ stack \in Seq(Frames)
    BY TopFacts
  <2>2. CASE exc = NoException
    <3>1. Running
      BY <2>2 DEF Running
    <3>2. CASE stack[1].fn = "get" /\ stack[1].at = "lock" /\ locked
      <4>1. PICK k \in 1..Len(stack) : Serves(stack[k])
        BY <3>2 DEF IInv, StackInv, ServeInv
      <4>2. k \in DOMAIN stack
        BY <2>1, LenProperties
      <4>3. Serving # {}
        BY <4>1, <4>2 DEF Serving, Serves
      <4> QED
        BY <2>1, <3>1, <3>2, <4>3 DEF SelfBlocked, At
    <3>3. CASE ~(stack[1].fn = "get" /\ stack[1].at = "lock" /\ locked)
      <4>1. CASE stack[1].at \in {"throw", "undefined"}
        BY <2>1, <3>1, <4>1 DEF CanGoOn, Undefined
      <4>2. CASE stack[1].fn \in Callers /\ stack[1].at \notin {"throw", "undefined"}
        BY <2>1, <3>1, <4>2 DEF CanGoOn, At, Placed, Callers
      <4>3. CASE stack[1].fn \notin Callers /\ stack[1].at \notin {"throw", "undefined"}
        BY <2>1, <3>1, <3>3, <4>3 DEF CanGoOn, At, Placed
      <4> QED
        BY <4>1, <4>2, <4>3
    <3> QED
      BY <3>2, <3>3
  <2>3. CASE exc # NoException
    <3>1. \A fn : stack[1].fn = fn => Unwinding(fn)
      BY <2>1, <2>3 DEF Unwinding
    <3>2. stack[1].fn \in Callers \cup {"get", "getClassName", "trace"}
      BY <2>1 DEF Placed
    <3>3. exc.kind \in {"native", "std"}
      <4>1. exc \in Exceptions /\ (exc.kind # "native" => exc.detail = NoDetail)
        BY DEF IInv, TypeInv, ExcInv
      <4>2. exc.kind = "none" => exc = NoException
        BY <4>1 DEF Exceptions, NoException
      <4> QED
        BY <2>3, <4>1, <4>2 DEF Exceptions
    <3> QED
      BY <2>3, <3>1, <3>2, <3>3 DEF CanGoOn, NativeInv
  <2> QED
    BY <2>2, <2>3
<1> QED
  BY <1>1, <1>2, <1>3, PTL DEF Spec

-------------------------------------------------------------------------------
(* What the disagreements with the comments take *)

\* A function that reports is one of the reports that are counted.
LEMMA ReportCounted ==
  ASSUME NEW s \in Seq(Frames), NEW k \in 1..Len(s), s[k].fn \in Reporting
  PROVE  /\ Len(s) + 1 - k \in Reports(s)
         /\ Cardinality(Reports(s)) \in Nat /\ 1 <= Cardinality(Reports(s))
<1> DEFINE n == Len(s)
           i == n + 1 - k
<1>1. n \in Nat
  BY LenProperties
<1>2. i \in 1..n /\ n + 1 - i = k
  BY <1>1
<1> HIDE DEF i
<1>3. i \in Reports(s)
  BY <1>2 DEF Reports
<1>4. IsFiniteSet(Reports(s)) /\ Cardinality(Reports(s)) \in Nat
  BY ReportsFinite
<1>5. Cardinality(Reports(s)) # 0
  BY <1>3, <1>4, FS_EmptySet
<1>6. \A c \in Nat : c # 0 => 1 <= c
  OBVIOUS
<1>7. 1 <= Cardinality(Reports(s))
  BY <1>4, <1>5, <1>6, Zenon
<1> QED
  BY <1>3, <1>4, <1>7, Zenon DEF i

LEMMA TwoReportsCounted ==
  ASSUME NEW s \in Seq(Frames), NEW j \in 1..Len(s), NEW k \in 1..Len(s), j # k,
         s[j].fn \in Reporting, s[k].fn \in Reporting
  PROVE  2 <= Cardinality(Reports(s))
<1> DEFINE a == Len(s) + 1 - j
           b == Len(s) + 1 - k
<1>1. a \in Reports(s) /\ b \in Reports(s)
  BY ReportCounted, Zenon
<1>2. a # b
  BY LenProperties
<1> HIDE DEF a, b
<1>3. IsFiniteSet({a}) /\ Cardinality({a}) = 1
  BY FS_Singleton
<1>4. Cardinality({a} \cup {b}) = 2
  <2>1. b \notin {a}
    BY <1>2
  <2>2. Cardinality({a} \cup {b}) = Cardinality({a}) + 1
    BY <1>3, <2>1, FS_AddElement
  <2>3. 1 + 1 = 2
    OBVIOUS
  <2> QED
    BY <1>3, <2>2, <2>3, Zenon
<1>5. {a} \cup {b} \in SUBSET Reports(s)
  BY <1>1
<1>6. IsFiniteSet(Reports(s))
  BY ReportsFinite
<1>7. Cardinality({a} \cup {b}) <= Cardinality(Reports(s))
  BY <1>5, <1>6, FS_Subset
<1> QED
  BY <1>4, <1>7, Zenon

\* What the reports leave of the exceptions to come.
LEMMA RaisedNumbers ==
  ASSUME NEW c \in Nat, NEW f \in Nat, NEW g \in Nat, NEW m \in Nat, c + f <= m
  PROVE  /\ 2 <= c => f + 2 <= m
         /\ 1 <= c /\ g + 1 <= f => g + 2 <= m
         /\ g <= f /\ f + 2 <= m => g + 2 <= m
OBVIOUS

\* The lock of the class cache is waited for by its own holder (the run calls_lock) only
\* after two failures, one of them raised in the report of the other: NewGlobalRef
\* fails, and so does Env::getClassName (JNIHelper.cc:318), whose own report comes back
\* to ClassCache::get. The first failure of an execution never blocks a call.
THEOREM TwoFailuresToBlock == Spec => [](SelfBlocked => faults + 2 <= MaxFaults)
<1>1. Init => IInv /\ DepthInv
  BY InitInv, InitDepth
<1>2. (IInv /\ DepthInv) /\ [Next]_vars => (IInv /\ DepthInv)'
  BY StepInv, StepDepth
<1>3. IInv /\ DepthInv => (SelfBlocked => faults + 2 <= MaxFaults)
  <2> SUFFICES ASSUME IInv, DepthInv, SelfBlocked PROVE faults + 2 <= MaxFaults
    OBVIOUS
  <2> DEFINE n == Len(stack)
             c == Cardinality(Reports(stack))
  <2>1. /\ stack # <<>> /\ stack[1].fn = "get" /\ stack[1].at = "lock" /\ stack \in Seq(Frames)
    BY AtFacts DEF SelfBlocked
  <2>2. n \in Nat /\ DOMAIN stack = 1..n
    BY <2>1, LenProperties
  <2>3. PICK k \in 1..n : stack[k].fn = "get" /\ stack[k].at # "lock"
    BY <2>2 DEF SelfBlocked, Serving
  <2>4. \A i \in 2..n : Fits(stack[i - 1].fn, stack[i].fn)
    BY DEF DepthInv, FitsInv
  <2> HIDE DEF n
  <2>5. k \in 2..n /\ k - 1 \in 1..n
    <3>1. k # 1
      BY <2>1, <2>3
    <3> QED
      BY <2>2, <3>1
  <2>6. stack[k - 1].fn = "getClassName"
    BY <2>3, <2>4, <2>5 DEF Fits
  <2>7. k - 1 \in 2..n /\ (k - 1) - 1 \in 1..n /\ (k - 1) - 1 # k - 1
    <3>1. k - 1 # 1
      BY <2>1, <2>6
    <3> QED
      BY <2>2, <2>5, <3>1
  <2>8. stack[(k - 1) - 1].fn = "trace"
    BY <2>4, <2>6, <2>7 DEF Fits
  <2>9. 2 <= c
    BY <2>1, <2>5, <2>6, <2>7, <2>8, TwoReportsCounted DEF Reporting, n
  <2>10. c \in Nat /\ c + faults <= MaxFaults
    BY DepthNumbers DEF Paid
  <2>11. MaxFaults \in Nat /\ faults \in Nat
    BY CallsAssumption DEF IInv, TypeInv
  <2> HIDE DEF c
  <2> QED
    BY <2>9, <2>10, <2>11, RaisedNumbers, Zenon
<1> QED
  BY <1>1, <1>2, <1>3, PTL DEF Spec

\* A pending exception is about to be found by the check of the function that called
\* Java, or was raised in a report.
Raised == faults + 2 <= MaxFaults
Checking ==
  stack # <<>> /\ exc = NoException /\ stack[1].fn \in Callers /\ stack[1].at \in {"check", "undefined"}
PendingInv == pending => Raised \/ Checking

\* No step gives an exception back.
LEMMA RaisedStays ==
  ASSUME IInv, IInv', Raised, faults' <= faults
  PROVE  Raised'
<1>1. MaxFaults \in Nat /\ faults \in Nat /\ faults' \in Nat
  BY CallsAssumption DEF IInv, TypeInv
<1>2. 0 + faults <= MaxFaults
  BY <1>1 DEF Raised
<1>3. 0 \in Nat /\ MaxFaults' = MaxFaults
  OBVIOUS
<1> QED
  BY <1>1, <1>2, <1>3, RaisedNumbers, Zenon DEF Raised

\* getThrowableStackTrace is the report of one exception, and meets another.
LEMMA RaisedInTrace ==
  ASSUME IInv, IInv', DepthInv, stack # <<>>, stack[1].fn = "trace", Fault
  PROVE  Raised'
<1> DEFINE c == Cardinality(Reports(stack))
<1>1. stack \in Seq(Frames) /\ 1 \in 1..Len(stack)
  BY TopFacts
<1>2. c \in Nat /\ 1 <= c
  BY <1>1, ReportCounted DEF Reporting
<1>3. c + faults <= MaxFaults
  BY DepthNumbers DEF Paid
<1>4. MaxFaults \in Nat /\ faults \in Nat /\ faults' \in Nat
  BY CallsAssumption DEF IInv, TypeInv
<1>5. faults' + 1 <= faults
  BY FaultTaken
<1> HIDE DEF c
<1> QED
  BY <1>2, <1>3, <1>4, <1>5, RaisedNumbers, Zenon DEF Raised

\* A function that calls Java goes on to where it may leave an exception pending.
LEMMA CallerAt ==
  ASSUME IInv, stack # <<>>, stack[1].fn \in Callers, NEW at \in {"check", "undefined"}, Goto(at),
         exc = NoException, exc' = exc
  PROVE  Checking'
<1>1. stack \in Seq(Frames) /\ at \in Points
  BY DEF IInv, TypeInv, Points
<1>2. PICK x \in Frames : stack' = <<x>> \o Tail(stack) /\ x.fn = stack[1].fn /\ x.at = at
  BY <1>1, GotoFrame
<1>3. Len(stack') = Len(stack) /\ 1 <= Len(stack) /\ stack'[1] = x /\ stack' \in Seq(Frames)
  BY <1>1, <1>2, GotoEffect
<1>4. stack' # <<>>
  <2>1. Len(stack') # 0
    BY <1>1, <1>3, LenProperties
  <2> QED
    BY <2>1, EmptySeq
<1> QED
  BY <1>2, <1>3, <1>4 DEF Checking

LEMMA StepPending == ASSUME IInv, DepthInv, PendingInv, [Next]_vars PROVE PendingInv'
<1>1. IInv'
  BY StepInv
<1>2. ASSUME pending' => pending /\ ~Checking, faults' <= faults PROVE PendingInv'
  BY <1>1, <1>2, RaisedStays DEF PendingInv
<1>3. /\ Fault => faults' <= faults
      /\ UNCHANGED faults => faults' <= faults
  BY FaultTaken
<1>4. CASE FindMember
  <2>1. PICK fn \in Callers : At(fn, "method")
    BY <1>4 DEF FindMember
  <2>2. stack # <<>> /\ exc = NoException /\ stack[1].fn = fn /\ stack[1].at = "method"
    BY <2>1, AtFacts
  <2>3. CASE UNCHANGED <<pending, faults>>
    BY <1>2, <1>3, <2>2, <2>3 DEF Checking
  <2>4. CASE Goto("undefined")
    <3>1. Checking'
      BY <1>4, <2>2, <2>4, CallerAt DEF FindMember
    <3> QED
      BY <3>1 DEF PendingInv
  <2> QED
    BY <1>4, <2>3, <2>4 DEF FindMember
<1>5. CASE CallJava
  <2>1. PICK fn \in Callers : At(fn, "java")
    BY <1>5 DEF CallJava
  <2>2. stack # <<>> /\ exc = NoException /\ stack[1].fn = fn
    BY <2>1, AtFacts
  <2>3. Checking'
    BY <1>5, <2>2, CallerAt DEF CallJava
  <2> QED
    BY <2>3 DEF PendingInv
<1>6. CASE TraceLookUp \/ TracePrint
  <2>1. PICK at : At("trace", at)
    BY <1>6 DEF TraceLookUp, TracePrint
  <2>2. stack # <<>> /\ stack[1].fn = "trace"
    BY <2>1, AtFacts
  <2>3. CASE Fault
    <3>1. Raised'
      BY <1>1, <2>2, <2>3, RaisedInTrace
    <3> QED
      BY <3>1 DEF PendingInv
  <2>4. CASE UNCHANGED <<pending, faults>>
    BY <1>2, <1>3, <2>2, <2>4 DEF Checking, Callers
  <2> QED
    BY <1>6, <2>3, <2>4 DEF TraceLookUp, TracePrint
<1>7. CASE CheckAndClear \/ FindClass \/ NoPending
  <2>1. ~pending'
    BY <1>7 DEF CheckAndClear, BuildNative, FindClass, NoPending
  <2> QED
    BY <2>1 DEF PendingInv
<1>8. CASE \/ UnwindCallMethod \/ Rethrow \/ UnwindNewObject \/ UnwindGet \/ Discard
           \/ SuppressInToString
  <2>1. exc # NoException /\ UNCHANGED <<pending, faults>>
    BY <1>8 DEF UnwindCallMethod, Rethrow, UnwindNewObject, UnwindGet, Discard, SuppressInToString,
                Unwinding
  <2> QED
    BY <1>2, <1>3, <2>1 DEF Checking
<1>9. CASE StartCall \/ HandleException \/ ReuseBuffer
  <2>1. stack = <<>> /\ UNCHANGED <<pending, faults>>
    BY <1>9 DEF StartCall, HandleException, ReuseBuffer
  <2> QED
    BY <1>2, <1>3, <2>1 DEF Checking
<1>10. CASE FindForCall \/ ThrowNative
  <2>1. Running /\ Top.at \in {"find", "throw"} /\ UNCHANGED <<pending, faults>>
    BY <1>10 DEF FindForCall, ThrowNative, At
  <2>2. stack[1].at \in {"find", "throw"}
    BY <2>1, TopFacts DEF Running
  <2> QED
    BY <1>2, <1>3, <2>1, <2>2 DEF Checking
<1>11. CASE LockAndLookUp \/ NewGlobalRef \/ ThrowNewGlobalRef \/ Insert \/ GetClassName \/ TraceWriters \/ TraceText
  <2>1. PICK fn \in {"get", "getClassName", "trace"} : \E at : At(fn, at)
    BY <1>11 DEF LockAndLookUp, NewGlobalRef, ThrowNewGlobalRef, Insert, GetClassName, TraceWriters, TraceText
  <2>2. stack[1].fn \notin Callers
    BY <2>1, AtFacts DEF Callers
  <2>3. (pending' => pending) /\ (Fault \/ UNCHANGED faults)
    <3>1. CASE GetClassName
      <4>1. CASE UNCHANGED <<pending, faults, live>>
        BY <4>1
      <4>2. CASE Fault /\ BuildNative
        <5>1. pending' = FALSE
          BY <4>2 DEF BuildNative
        <5> QED
          BY <4>2, <5>1
      <4> QED
        BY <3>1, <4>1, <4>2 DEF GetClassName
    <3>2. CASE LockAndLookUp \/ ThrowNewGlobalRef \/ TraceWriters
      BY <3>2 DEF LockAndLookUp, ThrowNewGlobalRef, TraceWriters
    <3>3. CASE NewGlobalRef \/ Insert \/ TraceText
      BY <3>3 DEF NewGlobalRef, Insert, TraceText
    <3> QED
      BY <1>11, <3>1, <3>2, <3>3
  <2> QED
    BY <1>2, <1>3, <2>2, <2>3 DEF Checking
<1>12. CASE UNCHANGED vars
  BY <1>12 DEF vars, PendingInv, Raised, Checking
<1> QED
  BY <1>4, <1>5, <1>6, <1>7, <1>8, <1>9, <1>10, <1>11, <1>12 DEF Next, LibraryStep

\* A Java exception is still pending after a call (the run calls_pending) only if two were
\* raised, the second one in getThrowableStackTrace (JNIHelper.cc:716) while it
\* reported the first: until then each one is cleared before it is thrown into C++.
THEOREM TwoFailuresToStayPending ==
  Spec => [](faults + 2 > MaxFaults /\ stack = <<>> => ~pending /\ ClearedBeforeThrow)
<1>1. Init => IInv /\ DepthInv /\ PendingInv
  <2>1. Init => PendingInv
    BY DEF Init, PendingInv
  <2> QED
    BY <2>1, InitInv, InitDepth
<1>2. (IInv /\ DepthInv /\ PendingInv) /\ [Next]_vars => (IInv /\ DepthInv /\ PendingInv)'
  BY StepInv, StepDepth, StepPending
<1>3. IInv /\ DepthInv /\ PendingInv
        => (faults + 2 > MaxFaults /\ stack = <<>> => ~pending /\ ClearedBeforeThrow)
  <2> SUFFICES ASSUME IInv, PendingInv, faults + 2 > MaxFaults, stack = <<>> PROVE ~pending
    BY DEF ClearedBeforeThrow
  <2>1. MaxFaults \in Nat /\ faults \in Nat
    BY CallsAssumption DEF IInv, TypeInv
  <2>2. \A f, m \in Nat : f + 2 > m => ~(f + 2 <= m)
    OBVIOUS
  <2>3. ~Raised
    BY <2>1, <2>2, Zenon DEF Raised
  <2> QED
    BY <2>3 DEF PendingInv, Checking
<1> QED
  BY <1>1, <1>2, <1>3, PTL DEF Spec

\* An entry of the cache is the class of the name at its pointer, as long as nothing
\* else is written there.
CacheInv == \A p \in Pointers : cache[p] # NoClass => cache[p] = text[p]

\* findClassAndCache (JNIHelper.cc:189) answers the class of the name it was given as long
\* as the application leaves the buffers of its class names alone, whatever fails and
\* however calls and reports nest. With a reused buffer the run calls_reuse shows the
\* contrary.
THEOREM KeptNamesAnswerRight == ASSUME ~Reuse PROVE Spec => []CachedAnswerCurrent
<1>1. Init => IInv /\ CacheInv
  <2>1. Init => CacheInv
    BY DEF Init, CacheInv
  <2> QED
    BY <2>1, InitInv
<1>2. (IInv /\ CacheInv) /\ [Next]_vars => (IInv /\ CacheInv)'
  <2> SUFFICES ASSUME IInv, CacheInv, [Next]_vars PROVE CacheInv'
    BY StepInv
  <2>1. CASE Insert
    <3>1. Top = stack[1] /\ stack[1].ptr \in Pointers
      BY <2>1, AtFacts DEF Insert
    <3>2. text' = text /\ (cache' = cache \/ cache' = [cache EXCEPT ![Top.ptr] = text[Top.ptr]])
      BY <2>1 DEF Insert
    <3>3. cache \in [Pointers -> Names \cup {Writer, Printer, NoClass}]
      BY DEF IInv, TypeInv
    <3> QED
      BY <3>1, <3>2, <3>3 DEF CacheInv
  <2>2. CASE ~Insert
    <3>1. UNCHANGED <<cache, text>>
      BY <2>2 DEF Next, LibraryStep, vars, cacheVars, StartCall, HandleException, ReuseBuffer, FindForCall,
                  FindMember, CallJava, NoPending, CheckAndClear, ThrowNative, LockAndLookUp, FindClass,
                  NewGlobalRef, ThrowNewGlobalRef, GetClassName, TraceWriters, TraceLookUp, TracePrint,
                  TraceText, UnwindCallMethod, Rethrow, UnwindNewObject, UnwindGet, Discard,
                  SuppressInToString
    <3> QED
      BY <3>1 DEF CacheInv
  <2> QED
    BY <2>1, <2>2
<1>3. IInv /\ CacheInv => CachedAnswerCurrent
  <2> SUFFICES ASSUME IInv, CacheInv, At("get", "lock"), cache[Top.ptr] # NoClass
               PROVE  cache[Top.ptr] = text[Top.ptr]
    BY DEF CachedAnswerCurrent
  <2>1. Top.ptr \in Pointers
    BY AtFacts
  <2> QED
    BY <2>1 DEF CacheInv
<1> QED
  BY <1>1, <1>2, <1>3, PTL DEF Spec
===============================================================================
