------------------------------ MODULE Signatures -------------------------------
(***************************************************************************)
(* How Env::callMethodV finds the type a Java method returns: findNext     *)
(* walks over the signature to the character after the first `)',          *)
(* getMethodRetType accepts it, and the switch chooses the JNI function,   *)
(* hence the member of the caller's jvalue that is written.                *)
(*                                                                         *)
(* A signature is a sequence of characters; C puts a NUL after it.         *)
(***************************************************************************)
EXTENDS Naturals, Sequences

CONSTANTS
  Inputs,    \* signatures, whatever they look like
  Char,      \* the characters they are made of
  NUL        \* the end of a C string

ASSUME SignaturesAssumption ==
  /\ Inputs \subseteq Seq(Char)
  /\ NUL \notin Char

VARIABLES
  sig,       \* methodSignature
  wanted,    \* retOut is not NULL
  pc,
  str,       \* index of the character *str
  n,         \* what findNext returns
  member     \* the member of *retOut that was written, or "untouched"

vars == <<sig, wanted, pc, str, n, member>>

\* The character at an index: that of the NUL is the last one that may be read.
At(k) == IF k \in 1..Len(sig) THEN sig[k] ELSE NUL

Init ==
  /\ sig \in Inputs
  /\ wanted \in BOOLEAN
  /\ pc = "findNext"
  /\ str = 1
  /\ n = NUL
  /\ member = "untouched"

-------------------------------------------------------------------------------
\* Mutant: the character found is the one that was looked for.
Advance_NoIncrement ==
  /\ pc = "findNext" /\ At(str) # NUL
  /\ \/ At(str) = ")" /\ UNCHANGED str /\ n' = At(str) /\ pc' = "found"
     \/ At(str) # ")" /\ str' = str + 1 /\ UNCHANGED <<n, pc>>
  /\ UNCHANGED <<sig, wanted, member>>

\* Mutant: the pointer is not moved when the character is another one.
Advance_Stuck ==
  /\ pc = "findNext" /\ At(str) # NUL
  /\ \/ At(str) = ")" /\ str' = str + 1 /\ n' = At(str') /\ pc' = "found"
     \/ At(str) # ")" /\ UNCHANGED <<str, n, pc>>
  /\ UNCHANGED <<sig, wanted, member>>

\* One turn of the loop of findNext.
Advance ==
  /\ pc = "findNext" /\ At(str) # NUL
  /\ str' = str + 1
  /\ \/ At(str) = ")" /\ n' = At(str') /\ pc' = "found"
     \/ At(str) # ")" /\ UNCHANGED <<n, pc>>
  /\ UNCHANGED <<sig, wanted, member>>

\* Mutant: the loop does not look for the end of the string.
AtEnd_Ignored ==
  /\ pc = "findNext" /\ At(str) = NUL
  /\ str' = str + 1
  /\ UNCHANGED <<sig, wanted, pc, n, member>>

AtEnd ==
  /\ pc = "findNext" /\ At(str) = NUL
  /\ n' = NUL
  /\ pc' = "found"
  /\ UNCHANGED <<sig, wanted, str, member>>

\* Mutant: the case of boolean falls through to the next one.
Member_FallThrough(type) ==
  CASE type \in {"Z", "B"} -> "b" [] type = "C" -> "c" [] type = "S" -> "s"
    [] type = "I" -> "i" [] type = "J" -> "j" [] type = "F" -> "f" [] type = "D" -> "d"
    [] type \in {"L", "["} -> "l"
    [] type = "V" -> "untouched"

\* The cases of the switch; a void method writes nothing.
Member(type) ==
  CASE type = "Z" -> "z" [] type = "B" -> "b" [] type = "C" -> "c" [] type = "S" -> "s"
    [] type = "I" -> "i" [] type = "J" -> "j" [] type = "F" -> "f" [] type = "D" -> "d"
    [] type \in {"L", "["} -> "l"
    [] type = "V" -> "untouched"
Types == {"Z", "B", "C", "S", "I", "J", "F", "D", "L", "[", "V"}

\* "Could not get return type", "Unrecognized return type".
Reject ==
  /\ pc = "found"
  /\ n \notin Types
  /\ pc' = "throw"
  /\ UNCHANGED <<sig, wanted, str, n, member>>

\* The JNI call, checkExceptionAndClear, then the assignment if retOut is not NULL.
CallMethod ==
  /\ pc = "found"
  /\ n \in Types
  /\ \/ pc' = "throw" /\ UNCHANGED member
     \/ pc' = "return" /\ member' = IF wanted THEN Member(n) ELSE "untouched"
  /\ UNCHANGED <<sig, wanted, str, n>>

Next == Advance \/ AtEnd \/ Reject \/ CallMethod

Spec == Init /\ [][Next]_vars

\* The code is sequential and the Java method returns.
FairSpec == Spec /\ WF_vars(Next)

-------------------------------------------------------------------------------
TypeOK ==
  /\ sig \in Inputs
  /\ wanted \in BOOLEAN
  /\ pc \in {"findNext", "found", "return", "throw"}
  /\ str \in Nat
  /\ n \in Char \cup {NUL}
  /\ member \in {"z", "b", "c", "s", "i", "j", "f", "d", "l", "untouched"}

\* findNext never reads past the NUL of a signature, complete or not.
StaysInString == str \in 1..Len(sig) + 1

\* For every string, findNext answers the character after the first `)', and NUL
\* if there is none or nothing follows; a class name holds no `)', so that is the
\* return type of a signature.
IsFirstClose(k) == k \in 1..Len(sig) /\ sig[k] = ")" /\ \A j \in 1..k - 1 : sig[j] # ")"
ReturnTypeFound ==
  pc # "findNext" =>
    \/ \E k \in 1..Len(sig) : IsFirstClose(k) /\ n = At(k + 1)
    \/ n = NUL /\ \A k \in 1..Len(sig) : sig[k] # ")"

\* The calls the library makes, with the member of the jvalue it then reads. A
\* class name is one character here.
Signature(parameters, type) == <<"(">> \o parameters \o <<")", type>>
LibraryCalls ==
  { <<Signature(<<"L">>, "Z"), "z">>,                  \* exists
    <<Signature(<<>>, "I"), "i">>,                     \* read, size
    <<Signature(<<"[", "B">>, "I"), "i">>,             \* read of an array
    <<Signature(<<"[", "B", "I", "I">>, "I"), "i">>,   \* read of a part of an array
    <<Signature(<<"J">>, "J"), "j">>,                  \* skip
    <<Signature(<<>>, "J"), "j">>,                     \* getLength
    <<Signature(<<>>, "L"), "l">>,                     \* BaseFileSystem.get, defaults, toString
    <<Signature(<<"I">>, "L"), "l">>,                  \* ByteBuffer.allocate, List.get
    <<Signature(<<"Z">>, "L"), "l">>,                  \* setRecursive
    <<Signature(<<"L">>, "L"), "l">>,                  \* openFile, createFile, getStatus, listStatus
    <<Signature(<<"L", "L">>, "L"), "l">> }            \* openFile, createFile with options

\* After a call that returns, the member its caller reads is the one that was written.
ResultRead ==
  pc = "return" /\ wanted => \A c \in LibraryCalls : c[1] = sig => c[2] = member

\* Every call returns or throws.
Ends == <>(pc \in {"return", "throw"})

-------------------------------------------------------------------------------
\* While findNext walks, no `)' is behind it.
Walked == pc = "findNext" => \A k \in 1..str - 1 : sig[k] # ")"

IInv == TypeOK /\ StaysInString /\ Walked /\ ReturnTypeFound
===============================================================================
