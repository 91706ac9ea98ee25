--------------------------- MODULE SignaturesProofs ----------------------------
(***************************************************************************)
(* Theorems about Signatures, for every set of strings: findNext stays in  *)
(* its string and finds the return type, a call that throws leaves the     *)
(* caller's jvalue alone, and one that returns writes the member its       *)
(* caller reads.                                                           *)
(***************************************************************************)
EXTENDS Signatures, SequenceTheorems, TLAPS

\* The characters of an input, and what lies beyond it.
LEMMA Characters ==
  ASSUME TypeOK
  PROVE  /\ Len(sig) \in Nat
         /\ \A k \in 1..Len(sig) : sig[k] \in Char /\ sig[k] # NUL /\ At(k) = sig[k]
         /\ \A k \in Nat : At(k) \in Char \cup {NUL}
         /\ \A k \in Nat \ {0} : At(k) # NUL => k \in 1..Len(sig)
  <1>1. sig \in Seq(Char)
    BY SignaturesAssumption DEF TypeOK
  <1>2. Len(sig) \in Nat /\ \A k \in 1..Len(sig) : sig[k] \in Char
    BY <1>1
  <1> QED
    BY <1>2, SignaturesAssumption DEF At

LEMMA InitInv == Init => IInv
  <1> SUFFICES ASSUME Init PROVE IInv
    OBVIOUS
  <1>1. TypeOK
    BY DEF Init, TypeOK
  <1>2. Len(sig) \in Nat
    BY <1>1, Characters
  <1> QED
    BY <1>1, <1>2 DEF Init, IInv, StaysInString, Walked, ReturnTypeFound

LEMMA NextInv == IInv /\ [Next]_vars => IInv'
  <1> SUFFICES ASSUME IInv, [Next]_vars PROVE IInv'
    OBVIOUS
  <1>t. TypeOK
    BY DEF IInv
  <1>c. /\ Len(sig) \in Nat
        /\ \A k \in 1..Len(sig) : sig[k] \in Char /\ sig[k] # NUL /\ At(k) = sig[k]
        /\ \A k \in Nat : At(k) \in Char \cup {NUL}
        /\ \A k \in Nat \ {0} : At(k) # NUL => k \in 1..Len(sig)
    BY <1>t, Characters
  <1>1. CASE Advance
    <2>1. str \in 1..Len(sig) /\ At(str) = sig[str] /\ sig' = sig /\ str' = str + 1
      BY <1>1, <1>c DEF Advance, IInv, StaysInString
    <2>2. At(str') \in Char \cup {NUL}
      BY <2>1, <1>c
    <2>3. \A k \in 1..str - 1 : sig[k] # ")"
      BY <1>1 DEF Advance, IInv, Walked
    <2>4. CASE At(str) = ")" /\ n' = At(str') /\ pc' = "found"
      <3>1. IsFirstClose(str)
        BY <2>1, <2>3, <2>4 DEF IsFirstClose
      <3>2. /\ \A k \in 1..Len(sig) : IsFirstClose(k)' <=> IsFirstClose(k)
            /\ \A k \in Nat : At(k)' = At(k)
        BY <2>1 DEF IsFirstClose, At
      <3>3. ReturnTypeFound'
        BY <1>c, <2>1, <2>4, <3>1, <3>2 DEF ReturnTypeFound
      <3> QED
        BY <1>1, <1>c, <2>1, <2>2, <2>4, <3>3
           DEF Advance, IInv, TypeOK, StaysInString, Walked
    <2>5. CASE At(str) # ")" /\ UNCHANGED <<n, pc>>
      BY <1>1, <1>c, <2>1, <2>3, <2>5
         DEF Advance, IInv, TypeOK, StaysInString, Walked, ReturnTypeFound
    <2> QED
      BY <1>1, <2>4, <2>5 DEF Advance
  <1>2. CASE AtEnd
    <2>1. str = Len(sig) + 1
      BY <1>2, <1>c DEF AtEnd, IInv, StaysInString
    <2> QED
      BY <1>2, <1>c, <2>1
         DEF AtEnd, IInv, TypeOK, StaysInString, Walked, ReturnTypeFound, IsFirstClose, At
  <1>3. CASE Reject
    BY <1>3 DEF Reject, IInv, TypeOK, StaysInString, Walked, ReturnTypeFound, IsFirstClose, At
  <1>4. CASE CallMethod
    <2>1. Member(n) \in {"z", "b", "c", "s", "i", "j", "f", "d", "l", "untouched"}
      BY <1>4 DEF CallMethod, Member, Types
    <2>2. member' \in {"z", "b", "c", "s", "i", "j", "f", "d", "l", "untouched"}
      BY <1>4, <2>1 DEF CallMethod, IInv, TypeOK
    <2> QED
      BY <1>4, <2>2
         DEF CallMethod, IInv, TypeOK, StaysInString, Walked, ReturnTypeFound, IsFirstClose, At
  <1>5. CASE UNCHANGED vars
    BY <1>5 DEF vars, IInv, TypeOK, StaysInString, Walked, ReturnTypeFound, IsFirstClose, At
  <1> QED
    BY <1>1, <1>2, <1>3, <1>4, <1>5 DEF Next

\* The invariant that the others follow from: what findNext has behind it.
THEOREM InductiveInvariant == Spec => []IInv
  BY InitInv, NextInv, PTL DEF Spec

\* findNext (Util.cc:37) never reads past the end of a signature.
THEOREM NeverPastTheEnd == Spec => []StaysInString
  <1>1. IInv => StaysInString
    BY DEF IInv
  <1> QED
    BY <1>1, InductiveInvariant, PTL

\* getMethodRetType (JNIHelper.cc:497) finds the return type of any signature, and
\* refuses a string that has none.
THEOREM RetTypeCorrect == Spec => []ReturnTypeFound
  <1>1. IInv => ReturnTypeFound
    BY DEF IInv
  <1> QED
    BY <1>1, InductiveInvariant, PTL

-------------------------------------------------------------------------------
(* The result of the calls the library makes *)

\* What a call that returns has written.
ResultInv == pc = "return" => n \in Types /\ (wanted => member = Member(n))

\* The characters between the parentheses.
Parameters == {"B", "I", "J", "L", "Z", "["}

\* The first `)' of a signature is the one that Signature puts before the return type.
LEMMA SignatureType ==
  ASSUME NEW ps \in Seq(Parameters), NEW type, sig = Signature(ps, type)
  PROVE  /\ \E k \in 1..Len(sig) : sig[k] = ")"
         /\ \A k \in 1..Len(sig) : IsFirstClose(k) => At(k + 1) = type
<1> DEFINE Any == Parameters \cup {"(", ")", type}
           open == <<"(">>
           close == <<")", type>>
           m == Len(ps)
<1>1. /\ open \in Seq(Any) /\ Len(open) = 1 /\ open[1] = "("
      /\ close \in Seq(Any) /\ Len(close) = 2 /\ close[1] = ")" /\ close[2] = type
  OBVIOUS
<1>2. m \in Nat /\ ps \in Seq(Any) /\ \A k \in 1..m : ps[k] # ")"
  BY LenProperties, ElementOfSeq DEF Parameters
<1>3. sig = open \o ps \o close
  BY DEF Signature
<1> HIDE DEF Any, open, close, m
<1>4. /\ open \o ps \in Seq(Any) /\ Len(open \o ps) = m + 1
      /\ \A k \in 1..m + 1 : (open \o ps)[k] = IF k <= 1 THEN open[k] ELSE ps[k - 1]
  <2>1. /\ open \o ps \in Seq(Any) /\ Len(open \o ps) = Len(open) + Len(ps)
        /\ \A k \in 1..Len(open) + Len(ps) :
             (open \o ps)[k] = IF k <= Len(open) THEN open[k] ELSE ps[k - Len(open)]
    <3>1. open \in Seq(Any) /\ ps \in Seq(Any)
      BY <1>1, <1>2
    <3> QED
      BY <3>1, ConcatProperties
  <2>2. Len(open) + Len(ps) = m + 1
    BY <1>1, <1>2 DEF m
  <2> QED
    BY <1>1, <2>1, <2>2
<1> DEFINE most == open \o ps
<1> HIDE DEF most
<1>5. /\ Len(sig) = m + 3
      /\ \A k \in 1..m + 3 : sig[k] = IF k <= m + 1 THEN most[k] ELSE close[k - (m + 1)]
  <2>1. /\ Len(sig) = Len(most) + Len(close)
        /\ \A k \in 1..Len(most) + Len(close) :
             sig[k] = IF k <= Len(most) THEN most[k] ELSE close[k - Len(most)]
    <3>1. most \in Seq(Any) /\ close \in Seq(Any) /\ sig = most \o close
      BY <1>1, <1>3, <1>4 DEF most
    <3> QED
      BY <3>1, ConcatProperties
  <2>2. Len(most) = m + 1 /\ Len(most) + Len(close) = m + 3
    BY <1>1, <1>2, <1>4 DEF most
  <2> QED
    BY <2>1, <2>2
<1>6. sig[m + 2] = ")" /\ sig[m + 3] = type
  BY <1>1, <1>2, <1>5
<1>7. \A k \in 1..m + 1 : sig[k] # ")"
  <2> SUFFICES ASSUME NEW k \in 1..m + 1 PROVE sig[k] # ")"
    OBVIOUS
  <2>1. sig[k] = most[k] /\ most[k] = IF k <= 1 THEN open[k] ELSE ps[k - 1]
    <3>1. k \in 1..m + 3 /\ k <= m + 1
      BY <1>2
    <3>2. sig[k] = most[k]
      BY <1>5, <3>1
    <3>3. most[k] = IF k <= 1 THEN open[k] ELSE ps[k - 1]
      BY <1>4 DEF most
    <3> QED
      BY <3>2, <3>3
  <2>2. k = 1 \/ k - 1 \in 1..m
    BY <1>2
  <2> QED
    BY <1>1, <1>2, <2>1, <2>2
<1>8. m + 2 \in 1..Len(sig) /\ (m + 2) + 1 = m + 3 /\ m + 3 \in 1..Len(sig)
  BY <1>2, <1>5
<1>9. ASSUME NEW k \in 1..Len(sig), IsFirstClose(k) PROVE k = m + 2
  <2>1. k \notin 1..m + 1 /\ m + 2 \notin 1..k - 1
    BY <1>6, <1>7, <1>9 DEF IsFirstClose
  <2> QED
    BY <1>2, <1>5, <2>1
<1> QED
  BY <1>6, <1>8, <1>9 DEF At

\* The type that is found in such a signature, and the member it is for.
LEMMA CallReturns ==
  ASSUME IInv, ResultInv, pc = "return", wanted,
         NEW ps \in Seq(Parameters), NEW type \in Types, sig = Signature(ps, type)
  PROVE  member = Member(type)
<1>1. n = type
  BY SignatureType DEF IInv, ReturnTypeFound
<1> QED
  BY <1>1 DEF ResultInv

LEMMA ResultNext == IInv /\ ResultInv /\ [Next]_vars => ResultInv'
<1> SUFFICES ASSUME IInv, ResultInv, [Next]_vars PROVE ResultInv'
  OBVIOUS
<1>1. CASE Advance \/ AtEnd \/ Reject
  BY <1>1 DEF Advance, AtEnd, Reject, ResultInv
<1>2. CASE CallMethod
  BY <1>2 DEF CallMethod, ResultInv
<1>3. CASE UNCHANGED vars
  BY <1>3 DEF vars, ResultInv
<1> QED
  BY <1>1, <1>2, <1>3 DEF Next

\* The macros of the JNI calls (JNIHelper.h:342) and the switch over the return type
\* choose the member of the jvalue that each caller in Alluxio.cc and JNIHelper.cc
\* reads, whatever other strings they are given.
THEOREM MemberReadIsWritten == Spec => []ResultRead
<1>1. Init => ResultInv
  BY DEF Init, ResultInv
<1>2. IInv /\ ResultInv => ResultRead
  <2> SUFFICES ASSUME IInv, ResultInv, pc = "return", wanted,
                      NEW c \in LibraryCalls, c[1] = sig
               PROVE  c[2] = member
    BY DEF ResultRead
  <2>1. PICK ps \in Seq(Parameters), type \in Types : c = <<Signature(ps, type), Member(type)>>
    <3>1. /\ <<>> \in Seq(Parameters) /\ <<"L">> \in Seq(Parameters) /\ <<"[", "B">> \in Seq(Parameters)
          /\ <<"[", "B", "I", "I">> \in Seq(Parameters) /\ <<"J">> \in Seq(Parameters)
          /\ <<"I">> \in Seq(Parameters) /\ <<"Z">> \in Seq(Parameters) /\ <<"L", "L">> \in Seq(Parameters)
      BY DEF Parameters
    <3>2. /\ Member("Z") = "z" /\ Member("I") = "i" /\ Member("J") = "j" /\ Member("L") = "l"
          /\ {"Z", "I", "J", "L"} \subseteq Types
      BY DEF Member, Types
    <3> QED
      BY <3>1, <3>2 DEF LibraryCalls
  <2>2. c[1] = Signature(ps, type) /\ c[2] = Member(type)
    BY <2>1
  <2> QED
    BY <2>2, CallReturns
<1>3. Init => IInv
  BY InitInv
<1>4. IInv /\ ResultInv /\ [Next]_vars => IInv' /\ ResultInv'
  BY NextInv, ResultNext
<1> QED
  BY <1>1, <1>2, <1>3, <1>4, PTL DEF Spec

-------------------------------------------------------------------------------
(* How long a call is *)

\* The steps a call still has before it: a turn of the loop for each character
\* from str to the NUL, the answer, and the call or its refusal.
Left ==
  CASE pc = "findNext" -> Len(sig) + 3 - str
    [] pc = "found" -> 1
    [] pc \in {"return", "throw"} -> 0

\* The measure is a number, and it is spent exactly when the call is over.
LeftInv == Left \in 0..Len(sig) + 2 /\ (Left = 0 <=> pc \in {"return", "throw"})

\* The loop of findNext (Util.cc:37) and the switch that follows are over after
\* as many steps as the signature has characters, and two more: every step that
\* changes anything takes the call nearer to its return or its throw. This is
\* what Ends rests on, without the fairness.
THEOREM WalkIsShort == Spec => []LeftInv /\ [][Left' < Left]_vars
<1>1. IInv => LeftInv
  <2> SUFFICES ASSUME IInv PROVE LeftInv
    OBVIOUS
  <2>1. Len(sig) \in Nat /\ str \in 1..Len(sig) + 1 /\ pc \in {"findNext", "found", "return", "throw"}
    BY Characters DEF IInv, TypeOK, StaysInString
  <2> QED
    BY <2>1 DEF LeftInv, Left
<1>2. IInv /\ Next => Left' < Left
  <2> SUFFICES ASSUME IInv, Next PROVE Left' < Left
    OBVIOUS
  <2>1. /\ Len(sig) \in Nat /\ str \in 1..Len(sig) + 1 /\ sig' = sig
        /\ At(str) # NUL => str \in 1..Len(sig)
    <3>1. sig' = sig
      BY DEF Next, Advance, AtEnd, Reject, CallMethod
    <3> QED
      BY <3>1, Characters DEF IInv, TypeOK, StaysInString
  <2>2. CASE Advance
    <3>1. pc = "findNext" /\ str \in 1..Len(sig) /\ str' = str + 1 /\ pc' \in {"findNext", "found"}
      BY <2>1, <2>2 DEF Advance
    <3> QED
      BY <2>1, <3>1 DEF Left
  <2>3. CASE AtEnd
    <3>1. pc = "findNext" /\ pc' = "found"
      BY <2>3 DEF AtEnd
    <3> QED
      BY <2>1, <3>1 DEF Left
  <2>4. CASE Reject \/ CallMethod
    <3>1. pc = "found" /\ pc' \in {"return", "throw"}
      BY <2>4 DEF Reject, CallMethod
    <3> QED
      BY <3>1 DEF Left
  <2> QED
    BY <2>2, <2>3, <2>4 DEF Next
<1>3. IInv /\ [Next]_vars => [Left' < Left]_vars
  BY <1>2
<1> QED
  BY <1>1, <1>3, InductiveInvariant, PTL DEF Spec
===============================================================================
