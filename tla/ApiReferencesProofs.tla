-------------------------- MODULE ApiReferencesProofs --------------------------
(***************************************************************************)
(* Proofs about ApiReferences, for any references and any number of turns. *)
(***************************************************************************)
EXTENDS ApiReferences, FiniteSetTheorems, SequenceTheorems, TLAPS

-------------------------------------------------------------------------------
(* The shape of a program *)

Wrappers == Scoped \cup Raw
Vars == LocalVars \cup {NoVar}
Used == LocalVars \cup Wrappers \cup {"this", "options"}

\* Steps on local references; a choice between such steps, and a loop of either.
Simple == [do : {"allocate", "static", "call", "drop"}, out : Vars, uses : SUBSET Used,
           caught : SUBSET LocalVars, body : {<<>>}]
Bodied(do, steps) ==
  [do : {do}, out : {NoVar}, uses : {{}}, caught : {{}}, body : Seq(steps)]
Inner == Simple \cup Bodied("maybe", Simple)

\* Steps on wrappers. A destructor runs for what is in scope only.
Wrapping ==
  [do : {"wrap"}, out : Wrappers, uses : SUBSET Used, caught : {{}}, body : {<<>>}]
Destroying ==
  [do : {"destroy"}, out : {NoVar}, uses : {{w} : w \in Scoped}, caught : {{}}, body : {<<>>}]

\* Every step but the return of an object.
Plain == Inner \cup Bodied("loop", Inner) \cup Wrapping \cup Destroying

\* p wraps a reference in w.
WrapsIn(p, w) == \E j \in 1..Len(p) : p[j].do = "wrap" /\ p[j].out = w

\* A program returns nothing; or it ends with the return of an object, which is
\* in a raw pointer and was wrapped before.
Returning(program, w) == \E p \in Seq(Plain) : program = p \o <<Give(w)>> /\ WrapsIn(p, w)
Shaped(operation) ==
  \/ operation.program \in Seq(Plain)
  \/ operation.gives \in Kinds /\ \E w \in Raw : Returning(operation.program, w)

-------------------------------------------------------------------------------
(* The programs have this shape *)

LEMMA PlainConcat ==
  ASSUME NEW s \in Seq(Plain), NEW t \in Seq(Plain)
  PROVE  /\ s \o t \in Seq(Plain)
         /\ \A w : WrapsIn(s, w) \/ WrapsIn(t, w) => WrapsIn(s \o t, w)
<1>1. /\ s \o t \in Seq(Plain) /\ Len(s \o t) = Len(s) + Len(t)
      /\ \A i \in 1..Len(s) + Len(t) : (s \o t)[i] = IF i <= Len(s) THEN s[i] ELSE t[i - Len(s)]
  BY ConcatProperties
<1>2. Len(s) \in Nat /\ Len(t) \in Nat
  BY LenProperties
<1> DEFINE st == s \o t
<1> HIDE DEF st
<1>3. ASSUME NEW w, WrapsIn(s, w) PROVE WrapsIn(st, w)
  <2>1. PICK j \in 1..Len(s) : s[j].do = "wrap" /\ s[j].out = w
    BY <1>3 DEF WrapsIn
  <2>2. j \in 1..Len(st) /\ st[j] = s[j]
    BY <1>1, <1>2 DEF st
  <2> QED
    BY <2>1, <2>2 DEF WrapsIn
<1>4. ASSUME NEW w, WrapsIn(t, w) PROVE WrapsIn(st, w)
  <2>1. PICK j \in 1..Len(t) : t[j].do = "wrap" /\ t[j].out = w
    BY <1>4 DEF WrapsIn
  <2>2. Len(s) + j \in 1..Len(s) + Len(t) /\ ~(Len(s) + j <= Len(s)) /\ (Len(s) + j) - Len(s) = j
    BY <1>2
  <2>3. Len(s) + j \in 1..Len(st) /\ st[Len(s) + j] = t[j]
    BY <1>1, <2>2 DEF st
  <2> QED
    BY <2>1, <2>3 DEF WrapsIn
<1> QED
  BY <1>1, <1>3, <1>4 DEF st

\* The steps.
LEMMA SimpleSteps ==
  /\ \A v \in Vars : Allocate(v) \in Simple
  /\ MayThrow \in Simple
  /\ \A v \in Vars, u \in SUBSET Used : Static(v, u) \in Simple /\ Call(v, u) \in Simple
  /\ \A v \in Used : Drop(v) \in Simple
BY DEF Simple, Allocate, MayThrow, Static, Call, Drop, Step, Vars

LEMMA WrapperSteps ==
  /\ \A v \in Used, w \in Wrappers : /\ Wrap(v, w) \in Wrapping
                                     /\ Wrap(v, w).do = "wrap" /\ Wrap(v, w).out = w
  /\ \A w \in Scoped : Destroy(w) \in Destroying
BY DEF Wrapping, Destroying, Wrap, Destroy, Step

LEMMA BodySteps ==
  /\ \A b \in Seq(Simple) : Maybe(b) \in Bodied("maybe", Simple)
  /\ \A b \in Seq(Inner) : Loop(b) \in Bodied("loop", Inner)
BY DEF Bodied, Maybe, Loop, Step

LEMMA Names ==
  /\ LocalVars \subseteq Vars /\ LocalVars \subseteq Used /\ Wrappers \subseteq Used /\ NoVar \in Vars
  /\ "this" \in Used /\ "options" \in Used
  /\ Scoped \subseteq Wrappers /\ Raw \subseteq Wrappers
  /\ {"uri", "origURI", "newURI", "jKeyObject", "jValueString"} \subseteq Scoped
  /\ {"result", "origFile", "newFile"} \subseteq Raw
  /\ {"jPathStr", "jscheme", "jauthority", "jpath", "retObj", "ret", "enum", "key", "value",
      "defaults", "recursive", "list", "uriObj", "uriString", "status", "jBuf"} \subseteq LocalVars
BY DEF Vars, Used, Wrappers, Scoped, Raw, LocalVars

LEMMA PlainParts ==
  /\ Simple \subseteq Inner /\ Inner \subseteq Plain /\ Simple \subseteq Plain
  /\ Wrapping \subseteq Plain /\ Destroying \subseteq Plain /\ Bodied("loop", Inner) \subseteq Plain
  /\ Bodied("maybe", Simple) \subseteq Inner
BY DEF Inner, Plain

LEMMA NewURIShape ==
  ASSUME NEW w \in Wrappers
  PROVE  NewURI(w) \in Seq(Plain) /\ WrapsIn(NewURI(w), w)
<1> DEFINE a == Allocate("jPathStr")
           b == Static("retObj", {"jPathStr"})
           c == Drop("jPathStr")
           d == Wrap("retObj", w)
<1>1. /\ a \in Plain /\ b \in Plain /\ c \in Plain /\ d \in Plain
      /\ d.do = "wrap" /\ d.out = w
  <2>1. /\ "jPathStr" \in Vars /\ "jPathStr" \in Used /\ {"jPathStr"} \in SUBSET Used
        /\ "retObj" \in Vars /\ "retObj" \in Used
    BY Names
  <2>2. a \in Simple /\ b \in Simple /\ c \in Simple
    BY <2>1, SimpleSteps
  <2>3. d \in Wrapping /\ d.do = "wrap" /\ d.out = w
    BY <2>1, WrapperSteps
  <2> QED
    BY <2>2, <2>3, PlainParts
<1>2. NewURI(w) = <<a, b, c, d>>
  BY DEF NewURI
<1> HIDE DEF a, b, c, d
<1>3. <<a, b, c, d>> \in Seq(Plain) /\ Len(<<a, b, c, d>>) = 4 /\ <<a, b, c, d>>[4] = d
  BY <1>1
<1>4. WrapsIn(NewURI(w), w)
  BY <1>1, <1>2, <1>3 DEF WrapsIn
<1> QED
  BY <1>2, <1>3, <1>4

LEMMA PlainSteps ==
  /\ \A v \in LocalVars : Allocate(v) \in Plain /\ Drop(v) \in Plain
  /\ MayThrow \in Plain
  /\ \A v \in Vars, u \in SUBSET Used : Static(v, u) \in Plain /\ Call(v, u) \in Plain
  /\ \A v \in LocalVars, w \in Wrappers : Wrap(v, w) \in Plain
  /\ \A w \in Scoped : Destroy(w) \in Plain
BY SimpleSteps, WrapperSteps, PlainParts, Names

\* A sequence of plain steps that ends with the return of w.
LEMMA ReturningIs ==
  ASSUME NEW p \in Seq(Plain), NEW w, WrapsIn(p, w)
  PROVE  Returning(p \o <<Give(w)>>, w)
BY DEF Returning

LEMMA NewURI3Shape == Returning(NewURI3, "result")
<1> DEFINE a1 == Allocate("jscheme")
           a2 == Allocate("jauthority")
           a3 == Allocate("jpath")
           b == Static("retObj", {"jscheme", "jauthority", "jpath"})
           d1 == Drop("jscheme")
           d2 == Drop("jauthority")
           d3 == Drop("jpath")
           c == Wrap("retObj", "result")
           g == Give("result")
           p == <<a1, a2, a3, b, d1, d2, d3, c>>
<1>1. /\ {"jscheme", "jauthority", "jpath", "retObj"} \subseteq LocalVars /\ "retObj" \in Vars
      /\ {"jscheme", "jauthority", "jpath"} \in SUBSET Used
      /\ "retObj" \in Used /\ "result" \in Wrappers
  BY Names
<1>2. /\ a1 \in Plain /\ a2 \in Plain /\ a3 \in Plain /\ d1 \in Plain /\ d2 \in Plain /\ d3 \in Plain
      /\ b \in Plain /\ c \in Plain
  BY <1>1, PlainSteps
<1>3. c.do = "wrap" /\ c.out = "result"
  BY <1>1, WrapperSteps
<1>4. NewURI3 = <<a1, a2, a3, b, d1, d2, d3, c, g>>
  BY DEF NewURI3
<1> HIDE DEF a1, a2, a3, b, d1, d2, d3, c, g
<1>5. p \in Seq(Plain) /\ Len(p) = 8 /\ p[8] = c
  BY <1>2
<1>6. WrapsIn(p, "result")
  BY <1>3, <1>5 DEF WrapsIn
<1>7. NewURI3 = p \o <<g>>
  BY <1>4
<1> QED
  BY <1>5, <1>6, <1>7, ReturningIs DEF g

LEMMA FactoryShape == Returning(Factory, "result")
<1> DEFINE a == Static("ret", {})
           b == Wrap("ret", "result")
           g == Give("result")
           p == <<a, b>>
<1>1. "ret" \in LocalVars /\ "ret" \in Vars /\ "ret" \in Used /\ {} \in SUBSET Used /\ "result" \in Wrappers
  BY Names
<1>2. a \in Plain /\ b \in Plain
  BY <1>1, PlainSteps
<1>3. b.do = "wrap" /\ b.out = "result"
  BY <1>1, WrapperSteps
<1>4. Factory = <<a, b, g>>
  BY DEF Factory
<1> HIDE DEF a, b, g
<1>5. p \in Seq(Plain) /\ Len(p) = 2 /\ p[2] = b
  BY <1>2
<1>6. WrapsIn(p, "result")
  BY <1>3, <1>5 DEF WrapsIn
<1>7. Factory = p \o <<g>>
  BY <1>4
<1> QED
  BY <1>5, <1>6, <1>7, ReturningIs DEF g

LEMMA SetTypeShape == SetType \in Seq(Plain)
<1>1. "enum" \in Vars /\ "ret" \in Vars /\ {} \in SUBSET Used /\ {"this", "enum"} \in SUBSET Used
  BY Names
<1>2. MayThrow \in Plain /\ Static("enum", {}) \in Plain /\ Call("ret", {"this", "enum"}) \in Plain
  BY <1>1, PlainSteps
<1> QED
  BY <1>2 DEF SetType

LEMMA ConnectShape == Connect \in Seq(Plain)
<1>1. SetStringConstant \in Seq(Plain)
  <2>1. /\ "key" \in LocalVars /\ "value" \in LocalVars /\ "key" \in Vars /\ NoVar \in Vars
        /\ {} \in SUBSET Used /\ {"jKeyObject", "jValueString"} \in SUBSET Used
        /\ "jKeyObject" \in Wrappers /\ "jValueString" \in Wrappers
        /\ "jKeyObject" \in Scoped /\ "jValueString" \in Scoped
    BY Names
  <2>2. /\ Static("key", {}) \in Plain /\ Wrap("key", "jKeyObject") \in Plain
        /\ Allocate("value") \in Plain /\ Wrap("value", "jValueString") \in Plain
        /\ Static(NoVar, {"jKeyObject", "jValueString"}) \in Plain
        /\ Destroy("jValueString") \in Plain /\ Destroy("jKeyObject") \in Plain
    BY <2>1, PlainSteps
  <2> QED
    BY <2>2 DEF SetStringConstant
<1>2. <<Static(NoVar, {})>> \in Seq(Plain)
  <2>1. Static(NoVar, {}) \in Plain
    BY Names, PlainSteps
  <2> QED
    BY <2>1
<1> DEFINE s == SetStringConstant
           e == <<Static(NoVar, {})>>
<1> HIDE DEF s, e
<1>3. \A x, y \in Seq(Plain) : x \o y \in Seq(Plain)
  BY PlainConcat
<1>4. s \in Seq(Plain) /\ e \in Seq(Plain)
  BY <1>1, <1>2 DEF s, e
<1>5. Connect = s \o s \o s \o s \o e
  BY DEF Connect, s, e
<1> QED
  BY <1>3, <1>4, <1>5

LEMMA PathCallShape == PathCall \in Seq(Plain)
<1>1. NoVar \in Vars /\ {"uri"} \in SUBSET Used /\ "uri" \in Scoped /\ "uri" \in Wrappers
  BY Names
<1>2. Call(NoVar, {"uri"}) \in Plain /\ Destroy("uri") \in Plain
  BY <1>1, PlainSteps
<1> DEFINE a == Call(NoVar, {"uri"})
           b == Destroy("uri")
<1> HIDE DEF a, b
<1>3. <<a, b>> \in Seq(Plain)
  BY <1>2 DEF a, b
<1>4. NewURI("uri") \in Seq(Plain)
  BY <1>1, NewURIShape
<1>5. PathCall = NewURI("uri") \o <<a, b>>
  BY DEF PathCall, a, b
<1> QED
  BY <1>3, <1>4, <1>5, PlainConcat

LEMMA DeleteRecursiveShape == DeleteRecursive \in Seq(Plain)
<1> DEFINE a == Static("defaults", {})
           b == Call("recursive", {"defaults"})
           c == Call(NoVar, {"uri", "recursive"})
           d == Destroy("uri")
<1>1. /\ NoVar \in Vars /\ {"uri", "recursive"} \in SUBSET Used /\ "uri" \in Scoped /\ "uri" \in Wrappers
      /\ "defaults" \in Vars /\ "recursive" \in Vars /\ {} \in SUBSET Used /\ {"defaults"} \in SUBSET Used
  BY Names
<1>2. a \in Plain /\ b \in Plain /\ c \in Plain /\ d \in Plain
  BY <1>1, PlainSteps
<1>3. DeleteRecursive = NewURI("uri") \o <<a, b, c, d>>
  BY DEF DeleteRecursive
<1> HIDE DEF a, b, c, d
<1>4. <<a, b, c, d>> \in Seq(Plain)
  BY <1>2
<1>5. NewURI("uri") \in Seq(Plain)
  BY <1>1, NewURIShape
<1> QED
  BY <1>3, <1>4, <1>5, PlainConcat

LEMMA FileSizeShape == FileSize \in Seq(Plain)
<1> DEFINE a == Call("status", {"uri"})
           b == Call(NoVar, {"status"})
           c == Destroy("uri")
<1>1. /\ NoVar \in Vars /\ {"uri"} \in SUBSET Used /\ "uri" \in Scoped /\ "uri" \in Wrappers
      /\ "status" \in Vars /\ {"status"} \in SUBSET Used
  BY Names
<1>2. a \in Plain /\ b \in Plain /\ c \in Plain
  BY <1>1, PlainSteps
<1>3. FileSize = NewURI("uri") \o <<a, b, c>>
  BY DEF FileSize
<1> HIDE DEF a, b, c
<1>4. <<a, b, c>> \in Seq(Plain)
  BY <1>2
<1>5. NewURI("uri") \in Seq(Plain)
  BY <1>1, NewURIShape
<1> QED
  BY <1>3, <1>4, <1>5, PlainConcat

LEMMA RenameFileShape == RenameFile \in Seq(Plain)
<1> DEFINE a == Call(NoVar, {"origURI", "newURI"})
           b == Destroy("newURI")
           c == Destroy("origURI")
<1>1. /\ NoVar \in Vars /\ {"origURI", "newURI"} \in SUBSET Used
      /\ "newURI" \in Scoped /\ "newURI" \in Wrappers /\ "origURI" \in Scoped /\ "origURI" \in Wrappers
  BY Names
<1>2. a \in Plain /\ b \in Plain /\ c \in Plain
  BY <1>1, PlainSteps
<1>3. RenameFile = NewURI("origURI") \o NewURI("newURI") \o <<a, b, c>>
  BY DEF RenameFile
<1> HIDE DEF a, b, c
<1>4. <<a, b, c>> \in Seq(Plain)
  BY <1>2
<1>5. NewURI("origURI") \in Seq(Plain) /\ NewURI("newURI") \in Seq(Plain)
  BY <1>1, NewURIShape
<1>6. NewURI("origURI") \o NewURI("newURI") \in Seq(Plain)
  BY <1>5, PlainConcat
<1> QED
  BY <1>3, <1>4, <1>6, PlainConcat

LEMMA ListPathShape == ListPath \in Seq(Plain)
<1> DEFINE a == Call("list", {"uri"})
           b == Call(NoVar, {"list"})
           x == Call("uriObj", {"list"})
           y == Call("uriString", {"uriObj"})
           body == <<x, y, MayThrow>>
           l == Loop(body)
           d == Destroy("uri")
<1>1. /\ NoVar \in Vars /\ {"uri"} \in SUBSET Used /\ "uri" \in Scoped /\ "uri" \in Wrappers
      /\ "list" \in Vars /\ {"list"} \in SUBSET Used /\ "uriObj" \in Vars /\ {"uriObj"} \in SUBSET Used
      /\ "uriString" \in Vars
  BY Names
<1>2. a \in Plain /\ b \in Plain /\ d \in Plain
  BY <1>1, PlainSteps
<1>3. l \in Plain
  <2>1. x \in Inner /\ y \in Inner /\ MayThrow \in Inner
    BY <1>1, SimpleSteps, PlainParts
  <2>2. body \in Seq(Inner)
    BY <2>1
  <2> QED
    BY <2>2, BodySteps, PlainParts
<1>4. ListPath = NewURI("uri") \o <<a, b, l, d>>
  BY DEF ListPath
<1> HIDE DEF a, b, l, d
<1>5. <<a, b, l, d>> \in Seq(Plain)
  BY <1>2, <1>3
<1>6. NewURI("uri") \in Seq(Plain)
  BY <1>1, NewURIShape
<1> QED
  BY <1>4, <1>5, <1>6, PlainConcat

LEMMA OpenFileShape ==
  ASSUME NEW w \in Wrappers
  PROVE  OpenFile(w) \in Seq(Plain) /\ WrapsIn(OpenFile(w), w)
<1> DEFINE a == Call("ret", {"uri", "options"})
           b == Wrap("ret", w)
           c == Destroy("uri")
           t == <<a, b, c>>
<1>1. /\ "ret" \in Vars /\ "ret" \in LocalVars /\ "ret" \in Used /\ {"uri", "options"} \in SUBSET Used
      /\ "uri" \in Scoped /\ "uri" \in Wrappers
  BY Names
<1>2. a \in Plain /\ b \in Plain /\ c \in Plain
  BY <1>1, PlainSteps
<1>3. b.do = "wrap" /\ b.out = w
  BY <1>1, WrapperSteps
<1>4. OpenFile(w) = NewURI("uri") \o t
  BY DEF OpenFile
<1> HIDE DEF a, b, c
<1>5. t \in Seq(Plain) /\ Len(t) = 3 /\ t[2] = b
  BY <1>2
<1>6. WrapsIn(t, w)
  BY <1>3, <1>5 DEF WrapsIn
<1>7. NewURI("uri") \in Seq(Plain)
  BY <1>1, NewURIShape
<1> HIDE DEF t
<1> QED
  BY <1>4, <1>5, <1>6, <1>7, PlainConcat

\* The calls of a stream use local references only.
LEMMA StreamShape ==
  ASSUME NEW s \in Used
  PROVE  /\ Read(s) \in Seq(Simple) /\ Read(s) \in Seq(Inner) /\ Read(s) \in Seq(Plain)
         /\ Write(s) \in Seq(Simple) /\ Write(s) \in Seq(Plain)
<1> DEFINE a == Allocate("jBuf")
           k == Call(NoVar, {s, "jBuf"})
           h == [k EXCEPT !.caught = {"jBuf"}]
           d == Drop("jBuf")
<1>1. "jBuf" \in Vars /\ "jBuf" \in Used /\ NoVar \in Vars /\ {s, "jBuf"} \in SUBSET Used /\ "jBuf" \in LocalVars
  BY Names
<1>2. a \in Simple /\ k \in Simple /\ d \in Simple /\ MayThrow \in Simple
  BY <1>1, SimpleSteps
<1>3. Read(s) = <<a, h, d>> /\ Write(s) = <<a, MayThrow, k, d>>
  BY DEF Read, Write
<1> HIDE DEF k
<1>4. h \in Simple
  BY <1>1, <1>2 DEF Simple
<1> HIDE DEF a, h, d
<1>5. <<a, h, d>> \in Seq(Simple) /\ <<a, MayThrow, k, d>> \in Seq(Simple)
  BY <1>2, <1>4
<1> QED
  BY <1>3, <1>5, SeqMonotonic, PlainParts

LEMMA PairConcat ==
  ASSUME NEW S, NEW c \in S, NEW g \in S
  PROVE  <<c, g>> = <<c>> \o <<g>>
<1> DEFINE s == <<c>>
           t == <<g>>
           u == <<c, g>>
<1>1. /\ s \in Seq(S) /\ Len(s) = 1 /\ s[1] = c
      /\ t \in Seq(S) /\ Len(t) = 1 /\ t[1] = g
      /\ u \in Seq(S) /\ Len(u) = 2 /\ u[1] = c /\ u[2] = g
  OBVIOUS
<1> HIDE DEF s, t, u
<1>2. /\ s \o t \in Seq(S) /\ Len(s \o t) = 2
      /\ \A i \in 1..2 : (s \o t)[i] = IF i <= 1 THEN s[i] ELSE t[i - 1]
  BY <1>1, ConcatProperties
<1>3. \A i \in 1..2 : (s \o t)[i] = u[i]
  BY <1>1, <1>2
<1>4. s \o t = u
  BY <1>1, <1>2, <1>3, SeqEqual
<1> QED
  BY <1>4 DEF s, t, u

LEMMA OpenFileForAppendShape == Returning(OpenFileForAppend, "newFile")
<1> DEFINE m == Maybe(Write("newFile"))
           turn == Read("origFile") \o <<m>>
           l == Loop(turn)
           c == Call(NoVar, {"origFile"})
           g == Give("newFile")
           o1 == OpenFile("origFile")
           o2 == OpenFile("newFile")
           f == <<MayThrow>>
           last == <<l>>
           q == f \o o1 \o o2 \o turn \o last
           p == q \o <<c>>
<1>1. /\ "origFile" \in Used /\ "newFile" \in Used /\ "origFile" \in Wrappers /\ "newFile" \in Wrappers
      /\ NoVar \in Vars /\ {"origFile"} \in SUBSET Used
  BY Names
<1>2. m \in Inner
  BY <1>1, StreamShape, BodySteps, PlainParts
<1>3. turn \in Seq(Inner)
  <2>1. Read("origFile") \in Seq(Inner) /\ <<m>> \in Seq(Inner)
    BY <1>1, <1>2, StreamShape
  <2> QED
    BY <2>1, ConcatProperties
<1>4. turn \in Seq(Plain)
  BY <1>3, SeqMonotonic, PlainParts
<1>5. l \in Plain
  BY <1>3, BodySteps, PlainParts
<1>6. c \in Plain /\ MayThrow \in Plain
  BY <1>1, PlainSteps
<1>7. o1 \in Seq(Plain) /\ o2 \in Seq(Plain) /\ WrapsIn(o2, "newFile")
  BY <1>1, OpenFileShape
<1>8. OpenFileForAppend = q \o <<c, g>>
  BY DEF OpenFileForAppend
<1> HIDE DEF m, turn, l, c, g, o1, o2
<1>9. f \in Seq(Plain) /\ last \in Seq(Plain) /\ <<c>> \in Seq(Plain)
  BY <1>5, <1>6
<1> HIDE DEF f, last
<1>10. f \o o1 \in Seq(Plain)
  BY <1>7, <1>9, PlainConcat
<1>11. f \o o1 \o o2 \in Seq(Plain) /\ WrapsIn(f \o o1 \o o2, "newFile")
  BY <1>7, <1>10, PlainConcat
<1>12. f \o o1 \o o2 \o turn \in Seq(Plain) /\ WrapsIn(f \o o1 \o o2 \o turn, "newFile")
  BY <1>4, <1>11, PlainConcat
<1>13. q \in Seq(Plain) /\ WrapsIn(q, "newFile")
  BY <1>9, <1>12, PlainConcat
<1> HIDE DEF q
<1>14. p \in Seq(Plain) /\ WrapsIn(p, "newFile")
  BY <1>9, <1>13, PlainConcat
<1>15. q \o <<c, g>> = p \o <<g>>
  <2> DEFINE any == Plain \cup {g}
  <2>1. q \in Seq(any)
    BY <1>13, SeqMonotonic
  <2>2. c \in any /\ g \in any
    BY <1>6
  <2> HIDE DEF any
  <2>3. <<c>> \in Seq(any) /\ <<g>> \in Seq(any) /\ <<c, g>> = <<c>> \o <<g>>
    BY <2>2, PairConcat
  <2>4. (q \o <<c>>) \o <<g>> = q \o (<<c>> \o <<g>>)
    BY <2>1, <2>3, ConcatAssociative
  <2> QED
    BY <2>3, <2>4
<1> HIDE DEF p
<1> QED
  BY <1>8, <1>14, <1>15, ReturningIs DEF g

LEMMA CompleteAppendShape == CompleteAppend \in Seq(Plain)
<1> DEFINE a == Call(NoVar, {"this"})
           f == <<MayThrow, a>>
<1>1. NoVar \in Vars /\ {"this"} \in SUBSET Used
  BY Names
<1>2. MayThrow \in Plain /\ a \in Plain
  BY <1>1, PlainSteps
<1>3. CompleteAppend = f \o PathCall \o RenameFile
  BY DEF CompleteAppend
<1> HIDE DEF a
<1>4. f \in Seq(Plain)
  BY <1>2
<1> HIDE DEF f
<1>5. f \o PathCall \in Seq(Plain)
  BY <1>4, PathCallShape, PlainConcat
<1> QED
  BY <1>3, <1>5, RenameFileShape, PlainConcat

LEMMA OperationsShaped ==
  ASSUME NEW name \in DOMAIN Operations
  PROVE  Shaped(Operations[name])
<1>1. /\ "result" \in Raw /\ "newFile" \in Raw /\ "result" \in Wrappers
      /\ {"uri", "options", "buffer", "in", "out"} \subseteq Kinds
      /\ "this" \in Used /\ NoVar \in Vars /\ {"this"} \in SUBSET Used
  BY Names DEF Kinds
<1> DEFINE g == <<Give("result")>>
           call == <<Call(NoVar, {"this"})>>
           o == Operations[name]
<1>2. call \in Seq(Plain)
  <2>1. Call(NoVar, {"this"}) \in Plain
    BY <1>1, PlainSteps
  <2> QED
    BY <2>1
<1>3. /\ Returning(NewURI("result") \o g, "result")
      /\ Returning(OpenFile("result") \o g, "result")
  BY <1>1, NewURIShape, OpenFileShape, ReturningIs
<1>4. name \in {"newURI", "newURI3", "getOptions", "allocate", "allocateNull", "setType", "connect", "pathCall",
                "deleteRecursive", "openFile", "createFile", "renameFile", "fileSize", "listPath",
                "openFileForAppend", "completeAppend", "read", "write", "inCall", "outCall"}
  BY DEF Operations
<1>5. \/ o.program = NewURI("result") \o g /\ o.gives = "uri"
      \/ o.program = NewURI3 /\ o.gives = "uri"
      \/ o.program = Factory /\ o.gives \in {"options", "buffer"}
      \/ o.program \in {SetType, Connect, PathCall, DeleteRecursive, RenameFile, FileSize, ListPath,
                        CompleteAppend, AllocateNull, Read("this"), Write("this"), call}
      \/ o.program = OpenFile("result") \o g /\ o.gives \in {"in", "out"}
      \/ o.program = OpenFileForAppend /\ o.gives = "out"
  <2>1. name = "newURI" => o.program = NewURI("result") \o g /\ o.gives = "uri"
    BY DEF Operations, Operation
  <2>2. name = "newURI3" => o.program = NewURI3 /\ o.gives = "uri"
    BY DEF Operations, Operation
  <2>3. name = "getOptions" => o.program = Factory /\ o.gives = "options"
    BY DEF Operations, Operation
  <2>4. name = "allocate" => o.program = Factory /\ o.gives = "buffer"
    BY DEF Operations, Operation
  <2>5. name = "setType" => o.program = SetType
    BY DEF Operations, Operation
  <2>6. name = "connect" => o.program = Connect
    BY DEF Operations, Operation
  <2>7. name = "pathCall" => o.program = PathCall
    BY DEF Operations, Operation
  <2>8. name = "deleteRecursive" => o.program = DeleteRecursive
    BY DEF Operations, Operation
  <2>9. name = "openFile" => o.program = OpenFile("result") \o g /\ o.gives = "in"
    BY DEF Operations, Operation
  <2>10. name = "createFile" => o.program = OpenFile("result") \o g /\ o.gives = "out"
    BY DEF Operations, Operation
  <2>11. name = "renameFile" => o.program = RenameFile
    BY DEF Operations, Operation
  <2>12. name = "fileSize" => o.program = FileSize
    BY DEF Operations, Operation
  <2>13. name = "listPath" => o.program = ListPath
    BY DEF Operations, Operation
  <2>14. name = "openFileForAppend" => o.program = OpenFileForAppend /\ o.gives = "out"
    BY DEF Operations, Operation
  <2>15. name = "completeAppend" => o.program = CompleteAppend
    BY DEF Operations, Operation
  <2>16. name = "read" => o.program = Read("this")
    BY DEF Operations, Operation
  <2>17. name = "write" => o.program = Write("this")
    BY DEF Operations, Operation
  <2>18. name = "inCall" => o.program = call
    BY DEF Operations, Operation
  <2>19. name = "outCall" => o.program = call
    BY DEF Operations, Operation
  <2>20. name = "allocateNull" => o.program = AllocateNull
    BY DEF Operations, Operation
  <2> QED
    BY <1>4, <2>1, <2>2, <2>3, <2>4, <2>5, <2>6, <2>7, <2>8, <2>9, <2>10, <2>11, <2>12, <2>13, <2>14, <2>15, <2>16, <2>17, <2>18, <2>19, <2>20
<1> HIDE DEF o, call, g
<1>6. CASE o.program \in {SetType, Connect, PathCall, DeleteRecursive, RenameFile, FileSize, ListPath,
                          CompleteAppend, AllocateNull, Read("this"), Write("this"), call}
  <2>1. Read("this") \in Seq(Plain) /\ Write("this") \in Seq(Plain)
    BY <1>1, StreamShape
  <2>2. AllocateNull \in Seq(Plain)
    <3>1. Static(NoVar, {}) \in Plain
      BY <1>1, PlainSteps
    <3> QED
      BY <3>1 DEF AllocateNull
  <2>3. o.program \in Seq(Plain)
    BY <1>2, <1>6, <2>1, <2>2, SetTypeShape, ConnectShape, PathCallShape, DeleteRecursiveShape,
       RenameFileShape, FileSizeShape, ListPathShape, CompleteAppendShape
  <2> QED
    BY <2>3 DEF Shaped, o
<1>7. CASE \/ o.program = NewURI("result") \o g /\ o.gives = "uri"
           \/ o.program = NewURI3 /\ o.gives = "uri"
           \/ o.program = Factory /\ o.gives \in {"options", "buffer"}
           \/ o.program = OpenFile("result") \o g /\ o.gives \in {"in", "out"}
  <2>1. Returning(o.program, "result") /\ o.gives \in Kinds
    BY <1>1, <1>3, <1>7, NewURI3Shape, FactoryShape
  <2> QED
    BY <1>1, <2>1 DEF Shaped, o
<1>8. CASE o.program = OpenFileForAppend /\ o.gives = "out"
  <2>1. Returning(o.program, "newFile") /\ o.gives \in Kinds
    BY <1>1, <1>8, OpenFileForAppendShape
  <2> QED
    BY <1>1, <2>1 DEF Shaped, o
<1> QED
  BY <1>5, <1>6, <1>7, <1>8

-------------------------------------------------------------------------------
(* The inductive invariant *)

TypeInv ==
  /\ op \in DOMAIN Operations
  /\ failures \in 0..MaxFailures
  /\ turns \in 0..MaxTurns
  /\ args \in [{"this", "options"} -> Refs \cup {NoRef}]
  /\ locals \subseteq LocalVars /\ IsFiniteSet(locals)
  /\ leaked \in Nat
  /\ wraps \in [Wrappers -> Refs \cup {NoRef}]
  /\ mine \subseteq Kinds \X Refs
  /\ globals \subseteq Refs

\* What is left of a program: it returns nothing, or an object that is wrapped
\* already or will be.
Promised(p, w) == todo = p \o <<Give(w)>> /\ (wraps[w] # NoRef \/ WrapsIn(p, w))
TodoInv ==
  \/ todo \in Seq(Plain)
  \/ Operations[op].gives \in Kinds /\ \E p \in Seq(Plain), w \in Raw : Promised(p, w)

\* GlobalsOwned, element by element.
OwnedInv ==
  /\ \A m \in mine : m[2] \in globals
  /\ \A w \in Wrappers :
       wraps[w] # NoRef => wraps[w] \in globals /\ \A m \in mine : m[2] # wraps[w]
  /\ \A v, w \in Wrappers : wraps[v] = wraps[w] /\ wraps[v] # NoRef => v = w
  /\ \A m, n \in mine : m[2] = n[2] => m = n

CountInv ==
  /\ IsFiniteSet(mine) /\ IsFiniteSet(MineRefs)
  /\ Cardinality(mine) = Cardinality(MineRefs)

IInv == TypeInv /\ TodoInv /\ OwnedInv /\ CountInv

-------------------------------------------------------------------------------
(* The program goes on *)

LEMMA PlainIsNoGive == \A s \in Plain : s.do # "give"
BY DEF Plain, Inner, Simple, Bodied, Wrapping, Destroying

LEMMA GiveIs == \A w : Give(w).do = "give" /\ Give(w).uses = {w}
BY DEF Give, Step

\* A sequence that ends with g, seen from its head.
LEMMA FromTheHead ==
  ASSUME NEW p \in Seq(Plain), NEW g
  PROVE  /\ p = <<>> => /\ Head(p \o <<g>>) = g /\ Tail(p \o <<g>>) = <<>>
         /\ p # <<>> => /\ Head(p \o <<g>>) = Head(p) /\ Tail(p \o <<g>>) = Tail(p) \o <<g>>
                        /\ Tail(p) \in Seq(Plain) /\ Head(p) \in Plain
         /\ p \o <<g>> # <<>>
<1> DEFINE any == Plain \cup {g}
           e == <<g>>
           s == p \o e
<1>1. p \in Seq(any) /\ e \in Seq(any) /\ Len(e) = 1 /\ e[1] = g
  <2>1. e \in Seq(any) /\ Len(e) = 1 /\ e[1] = g
    OBVIOUS
  <2> QED
    BY <2>1, SeqMonotonic
<1> HIDE DEF any, e
<1>2. /\ s \in Seq(any) /\ Len(s) = Len(p) + 1
      /\ \A i \in 1..Len(p) + 1 : s[i] = IF i <= Len(p) THEN p[i] ELSE e[i - Len(p)]
  BY <1>1, ConcatProperties
<1>3. Len(p) \in Nat
  BY LenProperties
<1> HIDE DEF s
<1>4. s # <<>>
  BY <1>2, <1>3, EmptySeq
<1>5. /\ Head(s) \in any /\ Tail(s) \in Seq(any) /\ Len(Tail(s)) = Len(p)
      /\ \A i \in 1..Len(p) : Tail(s)[i] = s[i + 1]
      /\ Head(s) = s[1]
  BY <1>2, <1>3, <1>4, HeadTailProperties
<1>6. CASE p = <<>>
  <2>1. Len(p) = 0
    BY <1>6, EmptySeq
  <2>2. Head(s) = g
    BY <1>1, <1>2, <1>5, <2>1
  <2>3. Tail(s) = <<>>
    BY <1>5, <2>1, EmptySeq
  <2> QED
    BY <1>4, <1>6, <2>2, <2>3 DEF s, e
<1>7. CASE p # <<>>
  <2>1. /\ Head(p) \in Plain /\ Tail(p) \in Seq(Plain) /\ Len(Tail(p)) = Len(p) - 1
        /\ \A i \in 1..Len(p) - 1 : Tail(p)[i] = p[i + 1]
        /\ Head(p) = p[1] /\ Len(p) >= 1
    BY <1>3, <1>7, HeadTailProperties, EmptySeq
  <2>2. Head(s) = Head(p)
    BY <1>2, <1>3, <1>5, <2>1
  <2> DEFINE t == Tail(p)
             u == t \o e
  <2>3. t \in Seq(any) /\ Len(t) = Len(p) - 1
    BY <2>1, SeqMonotonic DEF any
  <2> HIDE DEF t
  <2>4. /\ u \in Seq(any) /\ Len(u) = Len(p)
        /\ \A i \in 1..Len(p) : u[i] = IF i <= Len(p) - 1 THEN t[i] ELSE e[i - (Len(p) - 1)]
    <3>1. /\ u \in Seq(any) /\ Len(u) = Len(t) + Len(e)
          /\ \A i \in 1..Len(t) + Len(e) : u[i] = IF i <= Len(t) THEN t[i] ELSE e[i - Len(t)]
      BY <1>1, <2>3, ConcatProperties
    <3>2. Len(t) + Len(e) = Len(p)
      BY <1>1, <1>3, <2>3
    <3> QED
      BY <2>3, <3>1, <3>2
  <2> HIDE DEF u
  <2>5. ASSUME NEW i \in 1..Len(p) PROVE Tail(s)[i] = u[i]
    <3>1. CASE i <= Len(p) - 1
      <4>1. i + 1 \in 1..Len(p) + 1 /\ i + 1 <= Len(p) /\ i \in 1..Len(p) - 1
        BY <1>3, <3>1
      <4>2. s[i + 1] = p[i + 1] /\ u[i] = t[i] /\ t[i] = p[i + 1]
        BY <1>2, <2>1, <2>4, <3>1, <4>1 DEF t
      <4> QED
        BY <1>5, <4>2
    <3>2. CASE ~(i <= Len(p) - 1)
      <4>1. i = Len(p) /\ i + 1 \in 1..Len(p) + 1 /\ ~(i + 1 <= Len(p)) /\ (i + 1) - Len(p) = 1
            /\ i - (Len(p) - 1) = 1
        BY <1>3, <3>2
      <4>2. s[i + 1] = e[1] /\ u[i] = e[1]
        BY <1>2, <2>4, <3>2, <4>1
      <4> QED
        BY <1>5, <4>2
    <3> QED
      BY <3>1, <3>2
  <2>6. Tail(s) = u
    BY <1>5, <2>4, <2>5, SeqEqual
  <2> QED
    BY <1>4, <1>7, <2>1, <2>2, <2>6 DEF s, e, u, t
<1> QED
  BY <1>6, <1>7

\* The next step is plain, or it is the return of a wrapper that is there.
LEMMA NextStep ==
  ASSUME TodoInv, todo # <<>>
  PROVE  \/ Current \in Plain
         \/ /\ Current.do = "give" /\ Tail(todo) = <<>>
            /\ Operations[op].gives \in Kinds
            /\ \E w \in Raw : Current.uses = {w} /\ wraps[w] # NoRef
<1>1. CASE todo \in Seq(Plain)
  BY <1>1, HeadTailProperties DEF Current
<1>2. CASE Operations[op].gives \in Kinds /\ \E p \in Seq(Plain), w \in Raw : Promised(p, w)
  <2>1. PICK p \in Seq(Plain), w \in Raw : Promised(p, w)
    BY <1>2
  <2>2. todo = p \o <<Give(w)>> /\ (wraps[w] # NoRef \/ WrapsIn(p, w))
    BY <2>1 DEF Promised
  <2>3. CASE p # <<>>
    <3>1. Head(todo) = Head(p) /\ Head(p) \in Plain
      BY <2>2, <2>3, FromTheHead
    <3> QED
      BY <3>1 DEF Current
  <2>4. CASE p = <<>>
    <3>1. Head(todo) = Give(w) /\ Tail(todo) = <<>>
      BY <2>2, <2>4, FromTheHead
    <3>2. ~WrapsIn(p, w)
      <4>1. Len(p) = 0
        BY <2>4, EmptySeq
      <4> QED
        BY <4>1 DEF WrapsIn
    <3>3. Current.do = "give" /\ Current.uses = {w} /\ wraps[w] # NoRef
      BY <2>2, <3>1, <3>2, GiveIs DEF Current
    <3> QED
      BY <1>2, <3>1, <3>3
  <2> QED
    BY <2>3, <2>4
<1> QED
  BY <1>1, <1>2 DEF TodoInv

\* What is left after a plain step still promises the object.
LEMMA TailOfTodo ==
  ASSUME NEW p \in Seq(Plain), NEW w, todo = p \o <<Give(w)>>, Current \in Plain
  PROVE  /\ Tail(p) \in Seq(Plain) /\ Tail(todo) = Tail(p) \o <<Give(w)>>
         /\ WrapsIn(p, w) => WrapsIn(Tail(p), w) \/ (Current.do = "wrap" /\ Current.out = w)
<1>1. p # <<>>
  <2>1. SUFFICES ASSUME p = <<>> PROVE FALSE
    OBVIOUS
  <2>2. Current = Give(w)
    BY <2>1, FromTheHead DEF Current
  <2> QED
    BY <2>2, PlainIsNoGive, GiveIs
<1>2. Current = Head(p) /\ Tail(todo) = Tail(p) \o <<Give(w)>> /\ Tail(p) \in Seq(Plain)
  BY <1>1, FromTheHead DEF Current
<1>3. ASSUME WrapsIn(p, w) PROVE WrapsIn(Tail(p), w) \/ (Current.do = "wrap" /\ Current.out = w)
  <2>1. PICK j \in 1..Len(p) : p[j].do = "wrap" /\ p[j].out = w
    BY <1>3 DEF WrapsIn
  <2>2. /\ Len(p) \in Nat /\ Len(Tail(p)) = Len(p) - 1 /\ Head(p) = p[1]
        /\ \A i \in 1..Len(p) - 1 : Tail(p)[i] = p[i + 1]
    BY <1>1, HeadTailProperties, LenProperties
  <2>3. CASE j = 1
    BY <1>2, <2>1, <2>2, <2>3
  <2>4. CASE j # 1
    <3>1. j - 1 \in 1..Len(p) - 1 /\ (j - 1) + 1 = j
      BY <2>2, <2>4
    <3>2. Tail(p)[j - 1] = p[j]
      BY <2>2, <3>1
    <3> QED
      BY <2>1, <2>2, <3>1, <3>2 DEF WrapsIn
  <2> QED
    BY <2>3, <2>4
<1> QED
  BY <1>2, <1>3

\* A plain step is done.
LEMMA DoneKeepsTodo ==
  ASSUME TodoInv, todo # <<>>, Current \in Plain, Done, op' = op,
         \A w \in Raw : wraps[w] # NoRef \/ (Current.do = "wrap" /\ Current.out = w) => wraps'[w] # NoRef
  PROVE  TodoInv'
<1>1. todo' = Tail(todo)
  BY DEF Done
<1>2. CASE todo \in Seq(Plain)
  <2>1. Tail(todo) \in Seq(Plain)
    BY <1>2, HeadTailProperties
  <2> QED
    BY <1>1, <2>1 DEF TodoInv
<1>3. CASE Operations[op].gives \in Kinds /\ \E p \in Seq(Plain), w \in Raw : Promised(p, w)
  <2>1. PICK p \in Seq(Plain), w \in Raw : Promised(p, w)
    BY <1>3
  <2>2. todo = p \o <<Give(w)>> /\ (wraps[w] # NoRef \/ WrapsIn(p, w))
    BY <2>1 DEF Promised
  <2>4. Tail(p) \in Seq(Plain) /\ todo' = Tail(p) \o <<Give(w)>>
    BY <1>1, <2>2, TailOfTodo
  <2>5. wraps'[w] # NoRef \/ WrapsIn(Tail(p), w)
    BY <2>2, TailOfTodo
  <2>6. Promised(Tail(p), w)'
    BY <2>4, <2>5 DEF Promised, WrapsIn
  <2>7. Operations[op'].gives \in Kinds
    BY <1>3
  <2> QED
    BY <2>4, <2>6, <2>7 DEF TodoInv
<1> QED
  BY <1>2, <1>3 DEF TodoInv

\* The steps of a body come before the rest.
LEMMA BodyKeepsTodo ==
  ASSUME NEW b \in Seq(Plain), NEW rest, op' = op, wraps' = wraps, todo' = b \o rest,
         \/ rest \in Seq(Plain)
         \/ /\ Operations[op].gives \in Kinds
            /\ \E p \in Seq(Plain), w \in Raw :
                 rest = p \o <<Give(w)>> /\ (wraps[w] # NoRef \/ WrapsIn(p, w))
  PROVE  TodoInv'
<1>1. CASE rest \in Seq(Plain)
  <2>1. b \o rest \in Seq(Plain)
    BY <1>1, PlainConcat
  <2> QED
    BY <2>1 DEF TodoInv
<1>2. CASE /\ Operations[op].gives \in Kinds
           /\ \E p \in Seq(Plain), w \in Raw :
                rest = p \o <<Give(w)>> /\ (wraps[w] # NoRef \/ WrapsIn(p, w))
  <2>1. PICK p \in Seq(Plain), w \in Raw :
          rest = p \o <<Give(w)>> /\ (wraps[w] # NoRef \/ WrapsIn(p, w))
    BY <1>2
  <2> DEFINE g == Give(w)
             any == Plain \cup {g}
             e == <<g>>
             bp == b \o p
  <2>2. b \in Seq(any) /\ p \in Seq(any) /\ e \in Seq(any)
    <3>1. e \in Seq(any)
      OBVIOUS
    <3> QED
      BY <3>1, SeqMonotonic
  <2>3. b \o (p \o e) = bp \o e
    BY <2>2, ConcatAssociative
  <2>4. bp \in Seq(Plain) /\ (WrapsIn(p, w) => WrapsIn(bp, w))
    BY PlainConcat
  <2>5. todo' = bp \o e
    BY <2>1, <2>3
  <2> HIDE DEF any, bp
  <2>6. Promised(bp, w)'
    BY <2>1, <2>4, <2>5 DEF Promised, WrapsIn, bp
  <2> QED
    BY <1>2, <2>4, <2>6 DEF TodoInv, bp
<1> QED
  BY <1>1, <1>2

-------------------------------------------------------------------------------
(* Each action keeps the invariant *)

LEMMA PlainFields ==
  \A s \in Plain :
    /\ s.do \in {"allocate", "static", "call", "drop"} => s.out \in Vars
    /\ s.do = "wrap" => s.out \in Wrappers
    /\ s.do = "destroy" => \E w \in Scoped : s.uses = {w}
    /\ s.do \in {"loop", "maybe"} => s.body \in Seq(Plain)
<1>1. ASSUME NEW s \in Simple PROVE s.do \in {"allocate", "static", "call", "drop"} /\ s.out \in Vars
  BY DEF Simple
<1>2. ASSUME NEW s \in Bodied("maybe", Simple) PROVE s.do = "maybe" /\ s.body \in Seq(Plain)
  <2>1. s.do = "maybe" /\ s.body \in Seq(Simple)
    BY DEF Bodied
  <2> QED
    BY <2>1, SeqMonotonic, PlainParts
<1>3. ASSUME NEW s \in Bodied("loop", Inner) PROVE s.do = "loop" /\ s.body \in Seq(Plain)
  <2>1. s.do = "loop" /\ s.body \in Seq(Inner)
    BY DEF Bodied
  <2> QED
    BY <2>1, SeqMonotonic, PlainParts
<1>4. ASSUME NEW s \in Wrapping PROVE s.do = "wrap" /\ s.out \in Wrappers
  BY DEF Wrapping
<1>5. ASSUME NEW s \in Destroying PROVE s.do = "destroy" /\ \E w \in Scoped : s.uses = {w}
  BY DEF Destroying
<1>6. ASSUME NEW s \in Plain
      PROVE  s \in Simple \cup Bodied("maybe", Simple) \cup Bodied("loop", Inner) \cup Wrapping \cup Destroying
  BY DEF Plain, Inner
<1> QED
  BY <1>1, <1>2, <1>3, <1>4, <1>5, <1>6

\* A step that is not a return is plain.
LEMMA PlainNext ==
  ASSUME TodoInv, NEW do, Doing(do), do # "give"
  PROVE  Current \in Plain /\ todo # <<>> /\ Current.do = do
BY NextStep DEF Doing, Current

\* OwnedInv and CountInv are about three variables.
LEMMA OwnersUnchanged ==
  ASSUME OwnedInv, CountInv, UNCHANGED <<wraps, mine, globals>>
  PROVE  OwnedInv' /\ CountInv'
<1>1. OwnedInv'
  BY DEF OwnedInv
<1>2. CountInv'
  BY DEF CountInv, MineRefs
<1> QED
  BY <1>1, <1>2

LEMMA AssignKeepsType ==
  ASSUME TypeInv, NEW v \in Vars, NEW more \in Nat, Assign(v, more)
  PROVE  locals' \subseteq LocalVars /\ IsFiniteSet(locals') /\ leaked' \in Nat
<1>1. locals' \subseteq LocalVars
  BY DEF Assign, TypeInv, Vars
<1>2. leaked' \in Nat
  BY DEF Assign, TypeInv
<1>3. IsFiniteSet(locals')
  BY FS_AddElement DEF Assign, TypeInv
<1> QED
  BY <1>1, <1>2, <1>3

\* Steps that touch local references only.
LEMMA LocalKeepsIInv ==
  ASSUME IInv, MakeLocal \/ CallMethod \/ DeleteLocalRef
  PROVE  IInv'
<1> USE DEF IInv
<1>1. /\ Current \in Plain /\ todo # <<>> /\ Done
      /\ Current.do \in {"allocate", "static", "call", "drop"}
      /\ UNCHANGED <<op, failures, turns, args, wraps, mine, globals>>
  BY PlainNext DEF MakeLocal, CallMethod, DeleteLocalRef
<1>2. Current.out \in Vars
  BY <1>1, PlainFields
<1>3. locals' \subseteq LocalVars /\ IsFiniteSet(locals') /\ leaked' \in Nat
  <2>1. CASE MakeLocal
    BY <1>2, <2>1, AssignKeepsType DEF MakeLocal
  <2>2. CASE CallMethod
    BY <1>2, <2>2, AssignKeepsType DEF CallMethod
  <2>3. CASE DeleteLocalRef
    <3>1. locals' \subseteq LocalVars /\ leaked' \in Nat /\ locals' \subseteq locals /\ IsFiniteSet(locals)
      BY <2>3 DEF DeleteLocalRef, TypeInv
    <3> QED
      BY <3>1, FS_Subset
  <2> QED
    BY <2>1, <2>2, <2>3
<1>4. TypeInv'
  BY <1>1, <1>3 DEF TypeInv
<1>5. TodoInv'
  BY <1>1, DoneKeepsTodo
<1> QED
  BY <1>1, <1>4, <1>5, OwnersUnchanged

LEMMA LoopKeepsIInv ==
  ASSUME IInv, TakeTurn \/ MayRun \/ EndLoop
  PROVE  IInv'
<1> USE DEF IInv
<1>1. /\ Current \in Plain /\ todo # <<>> /\ Current.do \in {"loop", "maybe"}
      /\ UNCHANGED <<op, failures, args, locals, leaked, wraps, mine, globals>>
  BY PlainNext DEF TakeTurn, MayRun, EndLoop
<1>2. Current.body \in Seq(Plain)
  BY <1>1, PlainFields
<1>3. turns' \in 0..MaxTurns
  <2>1. MaxTurns \in Nat /\ turns \in 0..MaxTurns
    BY ReferencesAssumption DEF TypeInv
  <2>2. turns' = turns \/ (turns < MaxTurns /\ turns' = turns + 1)
    BY DEF TakeTurn, MayRun, EndLoop
  <2> QED
    BY <2>1, <2>2
<1>4. TypeInv'
  BY <1>1, <1>3 DEF TypeInv
<1> DEFINE Rest(rest) == \/ rest \in Seq(Plain)
                         \/ /\ Operations[op].gives \in Kinds
                            /\ \E p \in Seq(Plain), w \in Raw :
                                 rest = p \o <<Give(w)>> /\ (wraps[w] # NoRef \/ WrapsIn(p, w))
<1>5. Rest(todo)
  BY DEF TodoInv, Promised
<1>6. EndLoop \/ MayRun => Rest(Tail(todo))
  <2>1. CASE todo \in Seq(Plain)
    BY <1>1, <2>1, HeadTailProperties
  <2>2. CASE /\ Operations[op].gives \in Kinds
             /\ \E p \in Seq(Plain), w \in Raw : Promised(p, w)
    <3>1. PICK p \in Seq(Plain), w \in Raw : Promised(p, w)
      BY <2>2
    <3>2. todo = p \o <<Give(w)>> /\ (wraps[w] # NoRef \/ WrapsIn(p, w))
      BY <3>1 DEF Promised
    <3>3. /\ Tail(todo) = Tail(p) \o <<Give(w)>> /\ Tail(p) \in Seq(Plain)
          /\ WrapsIn(p, w) => WrapsIn(Tail(p), w)
      BY <1>1, <3>2, TailOfTodo
    <3> QED
      BY <2>2, <3>2, <3>3
  <2> QED
    BY <2>1, <2>2 DEF TodoInv
<1>7. TodoInv'
  <2>1. CASE TakeTurn
    <3>1. todo' = Current.body \o todo
      BY <2>1 DEF TakeTurn
    <3> QED
      BY <1>1, <1>2, <1>5, <3>1, BodyKeepsTodo
  <2>2. CASE MayRun
    <3>1. todo' = Current.body \o Tail(todo)
      BY <2>2 DEF MayRun
    <3> QED
      BY <1>1, <1>2, <1>6, <2>2, <3>1, BodyKeepsTodo
  <2>3. CASE EndLoop
    BY <1>1, <2>3, DoneKeepsTodo DEF EndLoop
  <2> QED
    BY <2>1, <2>2, <2>3
<1> QED
  BY <1>1, <1>4, <1>7, OwnersUnchanged

\* A wrapper takes a reference that nobody has.
LEMMA WrapKeepsIInv ==
  ASSUME IInv, WrapLocal
  PROVE  IInv'
<1> USE DEF IInv
<1>1. /\ Current \in Plain /\ todo # <<>> /\ Done /\ Current.do = "wrap"
      /\ UNCHANGED <<op, failures, turns, args, leaked, mine>>
      /\ locals' = locals \ Current.uses
  BY PlainNext DEF WrapLocal
<1>2. PICK r \in Refs \ globals : /\ wraps' = [wraps EXCEPT ![Current.out] = r]
                                  /\ globals' = globals \cup {r}
  BY DEF WrapLocal
<1>3. Current.out \in Wrappers
  BY <1>1, PlainFields
<1>4. /\ wraps' \in [Wrappers -> Refs \cup {NoRef}] /\ wraps'[Current.out] = r /\ r # NoRef
      /\ \A w \in Wrappers : w # Current.out => wraps'[w] = wraps[w]
  BY <1>2, <1>3, ReferencesAssumption DEF TypeInv
<1>5. TypeInv'
  <2>1. locals' \subseteq LocalVars /\ IsFiniteSet(locals')
    BY <1>1, FS_Subset DEF TypeInv
  <2> QED
    BY <1>1, <1>2, <1>4, <2>1 DEF TypeInv
<1>6. TodoInv'
  <2>1. \A w \in Raw : wraps[w] # NoRef \/ (Current.do = "wrap" /\ Current.out = w) => wraps'[w] # NoRef
    BY <1>4, Names
  <2> QED
    BY <1>1, <2>1, DoneKeepsTodo
<1>7. OwnedInv'
  <2>1. (\A m \in mine : m[2] \in globals)'
    BY <1>1, <1>2 DEF OwnedInv
  <2>2. (\A w \in Wrappers : wraps[w] # NoRef => wraps[w] \in globals /\ \A m \in mine : m[2] # wraps[w])'
    BY <1>1, <1>2, <1>4 DEF OwnedInv
  <2>3. (\A v, w \in Wrappers : wraps[v] = wraps[w] /\ wraps[v] # NoRef => v = w)'
    BY <1>2, <1>4 DEF OwnedInv
  <2>4. (\A m, n \in mine : m[2] = n[2] => m = n)'
    BY <1>1 DEF OwnedInv
  <2> QED
    BY <2>1, <2>2, <2>3, <2>4 DEF OwnedInv
<1>8. CountInv'
  BY <1>1 DEF CountInv, MineRefs
<1> QED
  BY <1>5, <1>6, <1>7, <1>8

\* A destructor deletes a reference that no other wrapper has.
LEMMA DestroyKeepsIInv ==
  ASSUME IInv, DestroyScoped
  PROVE  IInv'
<1> USE DEF IInv
<1>1. /\ Current \in Plain /\ todo # <<>> /\ Done /\ Current.do = "destroy"
      /\ UNCHANGED <<op, failures, turns, args, locals, leaked, mine>>
  BY PlainNext DEF DestroyScoped
<1>2. PICK d \in Scoped : Current.uses = {d}
  BY <1>1, PlainFields
<1>3. d \in Wrappers /\ d \notin Raw /\ Raw \subseteq Wrappers
  BY DEF Wrappers, Scoped, Raw
<1>4. globals' = globals \ {wraps[d]}
  BY <1>2 DEF DestroyScoped
<1>5. wraps' = [w \in Wrappers |-> IF w = d THEN NoRef ELSE wraps[w]]
  <2>1. wraps' = [w \in Wrappers |-> IF w \in Current.uses THEN NoRef ELSE wraps[w]]
    BY DEF DestroyScoped, Wrappers
  <2> QED
    BY <1>2, <2>1
<1>6. /\ wraps' \in [Wrappers -> Refs \cup {NoRef}] /\ wraps'[d] = NoRef
      /\ \A w \in Wrappers : w # d => wraps'[w] = wraps[w]
  BY <1>3, <1>5 DEF TypeInv
<1>7. TypeInv'
  BY <1>1, <1>4, <1>6 DEF TypeInv
<1>8. TodoInv'
  BY <1>1, <1>3, <1>6, DoneKeepsTodo
<1>9. OwnedInv'
  <2>1. (\A m \in mine : m[2] \in globals)'
    <3>1. \A m \in mine : m[2] \in globals /\ m[2] # wraps[d]
      BY <1>3, ReferencesAssumption DEF OwnedInv, TypeInv
    <3> QED
      BY <1>1, <1>4, <3>1
  <2>2. (\A w \in Wrappers : wraps[w] # NoRef => wraps[w] \in globals /\ \A m \in mine : m[2] # wraps[w])'
    <3> SUFFICES ASSUME NEW w \in Wrappers, wraps'[w] # NoRef
                 PROVE  wraps'[w] \in globals' /\ \A m \in mine' : m[2] # wraps'[w]
      OBVIOUS
    <3>1. w # d /\ wraps'[w] = wraps[w]
      BY <1>6
    <3>2. wraps[w] # wraps[d]
      BY <1>3, <3>1 DEF OwnedInv
    <3> QED
      BY <1>1, <1>4, <3>1, <3>2 DEF OwnedInv
  <2>3. (\A v, w \in Wrappers : wraps[v] = wraps[w] /\ wraps[v] # NoRef => v = w)'
    BY <1>6 DEF OwnedInv
  <2>4. (\A m, n \in mine : m[2] = n[2] => m = n)'
    BY <1>1 DEF OwnedInv
  <2> QED
    BY <2>1, <2>2, <2>3, <2>4 DEF OwnedInv
<1>10. CountInv'
  BY <1>1 DEF CountInv, MineRefs
<1> QED
  BY <1>7, <1>8, <1>9, <1>10

\* The set of the application's wrappers gets one more, with a reference of its own.
LEMMA OneMore ==
  ASSUME TypeInv, OwnedInv, CountInv, NEW m \in Kinds \X Refs, mine' = mine \cup {m},
         \A n \in mine : n[2] # m[2]
  PROVE  CountInv'
<1>1. m \notin mine
  OBVIOUS
<1>2. MineRefs' = MineRefs \cup {m[2]} /\ m[2] \notin MineRefs
  BY DEF MineRefs
<1>3. IsFiniteSet(mine') /\ Cardinality(mine') = Cardinality(mine) + 1
  BY <1>1, FS_AddElement DEF CountInv
<1>4. IsFiniteSet(MineRefs') /\ Cardinality(MineRefs') = Cardinality(MineRefs) + 1
  BY <1>2, FS_AddElement DEF CountInv
<1> QED
  BY <1>3, <1>4 DEF CountInv

\* No wrapper of the stack is left.
LEMMA NoWrapsIs ==
  /\ NoWraps \in [Wrappers -> Refs \cup {NoRef}]
  /\ \A w \in Wrappers : NoWraps[w] = NoRef
BY DEF NoWraps, Wrappers

LEMMA GiveKeepsIInv ==
  ASSUME IInv, GiveResult
  PROVE  IInv'
<1> USE DEF IInv
<1>1. /\ todo # <<>> /\ Done /\ Current.do = "give" /\ wraps' = NoWraps
      /\ UNCHANGED <<op, failures, turns, args, locals, leaked, globals>>
  BY DEF GiveResult, Doing, Current
<1>2. Current \notin Plain
  BY <1>1, PlainIsNoGive
<1>3. /\ Tail(todo) = <<>> /\ Operations[op].gives \in Kinds
      /\ \E w \in Raw : Current.uses = {w} /\ wraps[w] # NoRef
  BY <1>1, <1>2, NextStep
<1>4. PICK w \in Raw : Current.uses = {w} /\ wraps[w] # NoRef
  BY <1>3
<1> DEFINE m == <<Operations[op].gives, wraps[w]>>
<1>5. mine' = mine \cup {m}
  BY <1>4 DEF GiveResult
<1>6. w \in Wrappers /\ wraps[w] \in globals /\ wraps[w] \in Refs /\ \A n \in mine : n[2] # wraps[w]
  BY <1>4, Names DEF OwnedInv, TypeInv
<1>7. m \in Kinds \X Refs /\ m[2] = wraps[w]
  BY <1>3, <1>6
<1> HIDE DEF m
<1>8. TypeInv'
  BY <1>1, <1>5, <1>7, NoWrapsIs DEF TypeInv
<1>9. TodoInv'
  <2>1. todo' = <<>> /\ <<>> \in Seq(Plain)
    BY <1>1, <1>3 DEF Done
  <2> QED
    BY <2>1 DEF TodoInv
<1>10. OwnedInv'
  <2>1. (\A n \in mine : n[2] \in globals)'
    BY <1>1, <1>5, <1>6, <1>7 DEF OwnedInv
  <2>2. \A v \in Wrappers : wraps'[v] = NoRef
    BY <1>1, NoWrapsIs
  <2>3. (\A n, k \in mine : n[2] = k[2] => n = k)'
    BY <1>5, <1>6, <1>7 DEF OwnedInv
  <2> QED
    BY <2>1, <2>2, <2>3 DEF OwnedInv
<1>11. CountInv'
  BY <1>5, <1>6, <1>7, OneMore
<1> QED
  BY <1>8, <1>9, <1>10, <1>11

\* An exception deletes what is in scope and forgets the raw pointers.
LEMMA ThrowKeepsIInv ==
  ASSUME IInv, StepThrows
  PROVE  IInv'
<1> USE DEF IInv
<1>1. /\ todo' = <<>> /\ wraps' = NoWraps /\ locals' = {}
      /\ globals' = globals \ {wraps[w] : w \in Scoped}
      /\ UNCHANGED <<op, turns, args, mine>>
  BY DEF StepThrows, Unwind
<1>2. leaked' \in Nat /\ failures' \in 0..MaxFailures
  <2>1. PICK n \in 1..MaxFailures :
          /\ failures' = n
          /\ \E reports \in IF Doing("allocate") THEN {0} ELSE 0..ReportRefs(n) :
               leaked' = leaked + Cardinality(locals \ Current.caught) + reports
                           + (IF Doing("call") THEN 1 ELSE 0)
    BY DEF StepThrows
  <2>2. PICK reports \in IF Doing("allocate") THEN {0} ELSE 0..ReportRefs(n) :
          leaked' = leaked + Cardinality(locals \ Current.caught) + reports
                      + (IF Doing("call") THEN 1 ELSE 0)
    BY <2>1
  <2>3. n \in 0..MaxFailures /\ reports \in Nat
    BY <2>1, <2>2, ReferencesAssumption
  <2>4. Cardinality(locals \ Current.caught) \in Nat
    <3>1. IsFiniteSet(locals \ Current.caught)
      BY FS_Subset DEF TypeInv
    <3> QED
      BY <3>1, FS_CardinalityType
  <2> QED
    BY <2>1, <2>2, <2>3, <2>4 DEF TypeInv
<1>3. IsFiniteSet(locals')
  BY <1>1, FS_EmptySet
<1>4. TypeInv'
  BY <1>1, <1>2, <1>3, NoWrapsIs DEF TypeInv
<1>5. TodoInv'
  <2>1. <<>> \in Seq(Plain)
    OBVIOUS
  <2> QED
    BY <1>1, <2>1 DEF TodoInv
<1>6. OwnedInv'
  <2>1. (\A m \in mine : m[2] \in globals)'
    <3> SUFFICES ASSUME NEW m \in mine PROVE m[2] \in globals'
      BY <1>1
    <3>1. m[2] \in globals /\ m[2] \in Refs /\ m[2] # NoRef
      BY ReferencesAssumption DEF OwnedInv, TypeInv
    <3>2. \A w \in Scoped : wraps[w] # m[2]
      BY <3>1, Names DEF OwnedInv
    <3> QED
      BY <1>1, <3>1, <3>2
  <2>2. \A v \in Wrappers : wraps'[v] = NoRef
    BY <1>1, NoWrapsIs
  <2>3. (\A m, n \in mine : m[2] = n[2] => m = n)'
    BY <1>1 DEF OwnedInv
  <2> QED
    BY <2>1, <2>2, <2>3 DEF OwnedInv
<1>7. CountInv'
  BY <1>1 DEF CountInv, MineRefs
<1> QED
  BY <1>4, <1>5, <1>6, <1>7

LEMMA StartKeepsIInv ==
  ASSUME IInv, StartOperation
  PROVE  IInv'
<1> USE DEF IInv
<1>1. PICK name \in DOMAIN Operations :
        /\ op' = name
        /\ todo' = Program(name)
        /\ \E on \in IF Operations[name].on = NoVar THEN {NoRef} ELSE Objects(Operations[name].on) :
           \E options \in {NoRef} \cup Objects("options") :
             args' = [this |-> on, options |-> options]
  BY DEF StartOperation
<1>2. /\ failures' = 0 /\ turns' = 0 /\ leaked' = 0 /\ locals' = {}
      /\ UNCHANGED <<wraps, mine, globals>>
  BY DEF StartOperation
<1>3. \A kind : Objects(kind) \subseteq Refs
  BY DEF Objects, TypeInv
<1>4. args' \in [{"this", "options"} -> Refs \cup {NoRef}]
  <2>1. PICK on \in IF Operations[name].on = NoVar THEN {NoRef} ELSE Objects(Operations[name].on) :
        \E options \in {NoRef} \cup Objects("options") :
          args' = [this |-> on, options |-> options]
    BY <1>1
  <2>2. PICK options \in {NoRef} \cup Objects("options") : args' = [this |-> on, options |-> options]
    BY <2>1
  <2>3. on \in Refs \cup {NoRef} /\ options \in Refs \cup {NoRef}
    BY <1>3
  <2> QED
    BY <2>2, <2>3
<1>5. turns' \in 0..MaxTurns /\ failures' \in 0..MaxFailures
  BY <1>2, ReferencesAssumption
<1>6. IsFiniteSet(locals')
  BY <1>2, FS_EmptySet
<1>7. TypeInv'
  BY <1>1, <1>2, <1>4, <1>5, <1>6 DEF TypeInv
<1>8. TodoInv'
  <2>1. Shaped(Operations[name])
    BY OperationsShaped
  <2>2. CASE Operations[name].program \in Seq(Plain)
    BY <1>1, <2>2 DEF TodoInv, Program
  <2>3. CASE /\ Operations[name].gives \in Kinds
             /\ \E w \in Raw : Returning(Operations[name].program, w)
    <3>1. PICK w \in Raw : Returning(Operations[name].program, w)
      BY <2>3
    <3>2. PICK p \in Seq(Plain) : Operations[name].program = p \o <<Give(w)>> /\ WrapsIn(p, w)
      BY <3>1 DEF Returning
    <3>3. Promised(p, w)'
      BY <1>1, <3>2 DEF Promised, WrapsIn, Program
    <3> QED
      BY <1>1, <2>3, <3>3 DEF TodoInv
  <2> QED
    BY <2>1, <2>2, <2>3 DEF Shaped
<1> QED
  BY <1>2, <1>7, <1>8, OwnersUnchanged

\* The application deletes one of its objects.
LEMMA DeleteKeepsIInv ==
  ASSUME IInv, DeleteObject
  PROVE  IInv'
<1> USE DEF IInv
<1>1. /\ todo = <<>> /\ args' = NoArgs
      /\ UNCHANGED <<op, todo, failures, turns, locals, leaked, wraps>>
  BY DEF DeleteObject
<1>2. PICK m \in mine : mine' = mine \ {m} /\ globals' = globals \ {m[2]}
  BY DEF DeleteObject
<1>3. NoArgs \in [{"this", "options"} -> Refs \cup {NoRef}]
  BY DEF NoArgs
<1>4. TypeInv'
  BY <1>1, <1>2, <1>3 DEF TypeInv
<1>5. TodoInv'
  <2>1. todo' \in Seq(Plain)
    BY <1>1
  <2> QED
    BY <2>1 DEF TodoInv
<1>6. \A n \in mine : n # m => n[2] # m[2]
  BY DEF OwnedInv
<1>7. OwnedInv'
  <2>1. (\A n \in mine : n[2] \in globals)'
    BY <1>2, <1>6 DEF OwnedInv
  <2>2. (\A w \in Wrappers : wraps[w] # NoRef => wraps[w] \in globals /\ \A n \in mine : n[2] # wraps[w])'
    BY <1>1, <1>2 DEF OwnedInv
  <2>3. (\A v, w \in Wrappers : wraps[v] = wraps[w] /\ wraps[v] # NoRef => v = w)'
    BY <1>1 DEF OwnedInv
  <2>4. (\A n, k \in mine : n[2] = k[2] => n = k)'
    BY <1>2 DEF OwnedInv
  <2> QED
    BY <2>1, <2>2, <2>3, <2>4 DEF OwnedInv
<1>8. CountInv'
  <2>1. MineRefs' = MineRefs \ {m[2]} /\ m[2] \in MineRefs
    BY <1>2, <1>6 DEF MineRefs
  <2>2. IsFiniteSet(mine') /\ Cardinality(mine') = Cardinality(mine) - 1
    BY <1>2, FS_RemoveElement DEF CountInv
  <2>3. IsFiniteSet(MineRefs') /\ Cardinality(MineRefs') = Cardinality(MineRefs) - 1
    BY <2>1, FS_RemoveElement DEF CountInv
  <2> QED
    BY <2>2, <2>3 DEF CountInv
<1> QED
  BY <1>4, <1>5, <1>7, <1>8

-------------------------------------------------------------------------------
(* Theorems *)

LEMMA InitInv == Init => IInv
<1> SUFFICES ASSUME Init PROVE IInv
  OBVIOUS
<1> USE DEF Init
<1>1. "connect" \in DOMAIN Operations
  BY DEF Operations
<1>2. NoArgs \in [{"this", "options"} -> Refs \cup {NoRef}]
  BY DEF NoArgs
<1>3. 0 \in 0..MaxTurns /\ 0 \in 0..MaxFailures
  BY ReferencesAssumption
<1>4. TypeInv
  BY <1>1, <1>2, <1>3, NoWrapsIs, FS_EmptySet DEF TypeInv
<1>5. TodoInv
  <2>1. <<>> \in Seq(Plain)
    OBVIOUS
  <2> QED
    BY <2>1 DEF TodoInv
<1>6. OwnedInv
  BY NoWrapsIs DEF OwnedInv
<1>7. CountInv
  <2>1. MineRefs = {} /\ mine = {}
    BY DEF MineRefs
  <2> QED
    BY <2>1, FS_EmptySet DEF CountInv
<1> QED
  BY <1>4, <1>5, <1>6, <1>7 DEF IInv

LEMMA StepInv == IInv /\ [Next]_vars => IInv'
<1> SUFFICES ASSUME IInv, [Next]_vars PROVE IInv'
  OBVIOUS
<1>1. CASE StartOperation
  BY <1>1, StartKeepsIInv
<1>2. CASE DeleteObject
  BY <1>2, DeleteKeepsIInv
<1>3. CASE MakeLocal \/ CallMethod \/ DeleteLocalRef
  BY <1>3, LocalKeepsIInv
<1>4. CASE WrapLocal
  BY <1>4, WrapKeepsIInv
<1>5. CASE DestroyScoped
  BY <1>5, DestroyKeepsIInv
<1>6. CASE GiveResult
  BY <1>6, GiveKeepsIInv
<1>7. CASE TakeTurn \/ MayRun \/ EndLoop
  BY <1>7, LoopKeepsIInv
<1>8. CASE StepThrows
  BY <1>8, ThrowKeepsIInv
<1>9. CASE UNCHANGED vars
  <2> USE <1>9 DEF vars
  <2>1. TypeInv'
    BY DEF IInv, TypeInv
  <2>2. TodoInv'
    BY DEF IInv, TodoInv, Promised, WrapsIn
  <2>3. OwnedInv' /\ CountInv'
    BY OwnersUnchanged DEF IInv
  <2> QED
    BY <2>1, <2>2, <2>3 DEF IInv
<1> QED
  BY <1>1, <1>2, <1>3, <1>4, <1>5, <1>6, <1>7, <1>8, <1>9 DEF Next

\* In every reachable state the types hold, what is left of a program has its
\* shape, and every wrapper owns a reference of its own (Alluxio.h:112-145).
THEOREM InductiveInvariant == Spec => []IInv
BY InitInv, StepInv, PTL DEF Spec

\* The type invariant, for any references and any number of turns.
THEOREM TypeCorrect == Spec => []TypeOK
<1>1. IInv => TypeOK
  BY DEF IInv, TypeInv, TypeOK, Wrappers
<1> QED
  BY <1>1, InductiveInvariant, PTL

\* No global reference has two owners, and none is deleted while a wrapper still
\* has it, whichever steps throw (JNIObjBase, Alluxio.h:112-145).
THEOREM GlobalReferencesOwned == Spec => []GlobalsOwned
<1>1. ASSUME IInv PROVE GlobalsOwned
  <2> DEFINE inScope == {w \in Scoped \cup Raw : wraps[w] # NoRef}
  <2>1. inScope \subseteq Wrappers /\ \A w \in inScope : wraps[w] # NoRef
    BY DEF Wrappers
  <2> HIDE DEF inScope
  <2>2. MineRefs \cup {wraps[w] : w \in inScope} \subseteq globals
    BY <1>1, <2>1 DEF IInv, OwnedInv, MineRefs
  <2>3. Cardinality(mine) = Cardinality(MineRefs)
    BY <1>1 DEF IInv, CountInv
  <2>4. \A v, w \in inScope : wraps[v] = wraps[w] => v = w
    BY <1>1, <2>1 DEF IInv, OwnedInv
  <2>5. \A w \in inScope : wraps[w] \notin MineRefs
    BY <1>1, <2>1 DEF IInv, OwnedInv, MineRefs
  <2> QED
    BY <2>2, <2>3, <2>4, <2>5 DEF GlobalsOwned, inScope
<1> QED
  BY <1>1, InductiveInvariant, PTL
===============================================================================
