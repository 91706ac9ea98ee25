--------------------------- MODULE ApiOutlinesProofs ---------------------------
(***************************************************************************)
(* More proofs about ApiReferences, which follow an operation step by      *)
(* step: between two steps an assertion says which references are there    *)
(* and how many local ones may still be left, and a program is right when  *)
(* assertions can be put between all its steps: an outline of it.          *)
(***************************************************************************)
EXTENDS ApiReferencesProofs, Integers

-------------------------------------------------------------------------------
(* Assertions *)

\* The local references that a variable surely names, and the object the operation is
\* called on; the wrappers that hold a reference, no more and no less; and how many
\* local references fewer than its price the operation has left.
Known == LocalVars \cup {"this"}
Assertions == [has : SUBSET Known, held : SUBSET Wrappers, spare : Int]
That(h, w, n) == [has |-> h, held |-> w, spare |-> n]

Weaker(a, b) == b.has \subseteq a.has /\ b.held = a.held /\ b.spare <= a.spare

\* What an exception may leave above the price and the report, and the raw pointers that
\* it may forget; what a turn of the loop adds to the price.
Slack(o) == IF o = "newURI3" THEN 3 ELSE 1
Forgotten(o) == IF o = "openFileForAppend" THEN {"origFile", "newFile"} ELSE {}
TurnPrice(o) == IF o = "listPath" THEN 4 ELSE IF o = "openFileForAppend" THEN 2 ELSE 0

-------------------------------------------------------------------------------
(* Steps from an assertion to the next one *)

Covers(a, s) == s.uses \subseteq a.has \cup a.held \cup {"options"}

Extra(s) == IF s.do = "call" THEN 1 ELSE 0
Named(s) == IF s.out = NoVar THEN 0 ELSE 1

\* The steps that make a local reference, and may throw.
Makes(o, s, a, b) ==
  /\ s.do \in {"allocate", "static", "call"}
  /\ b.has \subseteq a.has \cup {s.out} /\ b.held = a.held
  /\ b.spare + Extra(s) + Named(s) <= a.spare
  /\ Extra(s) <= a.spare + Slack(o)
  /\ a.held \cap Raw \subseteq Forgotten(o)

Drops(s, a, b) ==
  /\ s.do = "drop"
  /\ \E v \in LocalVars \cap a.has : s.uses = {v} /\ b.has \subseteq a.has \ {v}
  /\ b.held = a.held /\ b.spare <= a.spare + 1

WrapsUp(s, a, b) ==
  /\ s.do = "wrap"
  /\ \E v \in LocalVars \cap a.has : s.uses = {v} /\ b.has \subseteq a.has \ {v}
  /\ s.out \in Wrappers \ a.held /\ b.held = a.held \cup {s.out} /\ b.spare <= a.spare + 1

Destroys(s, a, b) ==
  /\ s.do = "destroy"
  /\ \E w \in Scoped \cap a.held : s.uses = {w} /\ b.held = a.held \ {w}
  /\ b.has \subseteq a.has /\ b.spare <= a.spare

\* What is not returned is forgotten.
Gives(o, s, a, b) ==
  /\ s.do = "give"
  /\ \E w \in Raw \cap a.held : s.uses = {w} /\ a.held \ {w} \subseteq Forgotten(o) \ {"newFile"}
  /\ b.held = {} /\ b.has \subseteq a.has /\ b.spare <= a.spare

AnyStep == Plain \cup {Give(w) : w \in Raw}

\* An outline of p, with the steps in T, from a to z.
Outline(T, p, a, z) ==
  /\ p \in Seq(AnyStep)
  /\ \E f \in [1..Len(p) + 1 -> Assertions] :
       /\ f[1] = a /\ f[Len(p) + 1] = z
       /\ \A i \in 1..Len(p) : <<p[i], f[i], f[i + 1]>> \in T

\* The steps on local references; those and the choices between them; every step. The
\* body of a loop leads back to the assertion that holds before each turn.
Triples(steps) == steps \X Assertions \X Assertions
Local(o) ==
  {t \in Triples(Simple) : Covers(t[2], t[1]) /\ (Makes(o, t[1], t[2], t[3]) \/ Drops(t[1], t[2], t[3]))}
Choice(o) ==
  Local(o) \cup
  {t \in Triples(Bodied("maybe", Simple)) :
     Weaker(t[2], t[3]) /\ Outline(Local(o), t[1].body, t[2], t[3])}
Turned(o, a) == That(a.has, a.held, a.spare + TurnPrice(o))
Every(o) ==
  Choice(o) \cup
  {t \in Triples(Bodied("loop", Inner)) :
     Weaker(t[2], t[3]) /\ Outline(Choice(o), t[1].body, Turned(o, t[3]), t[3])} \cup
  {t \in Triples(AnyStep) :
     WrapsUp(t[1], t[2], t[3]) \/ Destroys(t[1], t[2], t[3]) \/ Gives(o, t[1], t[2], t[3])}

-------------------------------------------------------------------------------
(* Outlines *)

\* There is nothing to do.
LEMMA OutlineOfNothing ==
  ASSUME NEW T
  PROVE  /\ \A a \in Assertions : Outline(T, <<>>, a, a)
         /\ \A a, z : Outline(T, <<>>, a, z) => a = z
<1>1. Len(<<>>) = 0 /\ <<>> \in Seq(AnyStep)
  BY EmptySeq
<1>2. ASSUME NEW a \in Assertions PROVE Outline(T, <<>>, a, a)
  <2> DEFINE f == [i \in 1..Len(<<>>) + 1 |-> a]
  <2>1. f \in [1..Len(<<>>) + 1 -> Assertions] /\ f[1] = a /\ f[Len(<<>>) + 1] = a
    BY <1>1
  <2>2. \A i \in 1..Len(<<>>) : FALSE
    BY <1>1
  <2> HIDE DEF f
  <2> QED
    BY <1>1, <2>1, <2>2 DEF Outline
<1>3. ASSUME NEW a, NEW z, Outline(T, <<>>, a, z) PROVE a = z
  BY <1>1, <1>3 DEF Outline
<1> QED
  BY <1>2, <1>3

\* One program after the other.
LEMMA OutlineConcat ==
  ASSUME NEW T, NEW p, NEW q, NEW a, NEW b, NEW c, Outline(T, p, a, b), Outline(T, q, b, c)
  PROVE  Outline(T, p \o q, a, c)
<1> DEFINE n == Len(p)
           m == Len(q)
           pq == p \o q
<1>1. p \in Seq(AnyStep) /\ q \in Seq(AnyStep)
  BY DEF Outline
<1>2. /\ pq \in Seq(AnyStep) /\ Len(pq) = n + m /\ n \in Nat /\ m \in Nat
      /\ \A i \in 1..n + m : pq[i] = IF i <= n THEN p[i] ELSE q[i - n]
  BY <1>1, ConcatProperties, LenProperties
<1>3. PICK f \in [1..n + 1 -> Assertions] :
        f[1] = a /\ f[n + 1] = b /\ \A i \in 1..n : <<p[i], f[i], f[i + 1]>> \in T
  BY DEF Outline
<1>4. PICK g \in [1..m + 1 -> Assertions] :
        g[1] = b /\ g[m + 1] = c /\ \A i \in 1..m : <<q[i], g[i], g[i + 1]>> \in T
  BY DEF Outline
<1> DEFINE h == [i \in 1..n + m + 1 |-> IF i <= n + 1 THEN f[i] ELSE g[i - n]]
<1> HIDE DEF n, m, pq
<1>5. h \in [1..n + m + 1 -> Assertions]
  <2> SUFFICES ASSUME NEW i \in 1..n + m + 1
               PROVE  (IF i <= n + 1 THEN f[i] ELSE g[i - n]) \in Assertions
    OBVIOUS
  <2>1. CASE i <= n + 1
    BY <1>2, <2>1
  <2>2. CASE ~(i <= n + 1)
    <3>1. i - n \in 1..m + 1
      BY <1>2, <2>2
    <3> QED
      BY <2>2, <3>1
  <2> QED
    BY <2>1, <2>2
<1>6. /\ \A i \in 1..n + 1 : h[i] = f[i]
      /\ \A i \in 1..m + 1 : h[n + i] = g[i]
  <2>1. \A i \in 1..n + 1 : i \in 1..n + m + 1 /\ i <= n + 1
    BY <1>2
  <2>2. ASSUME NEW i \in 1..m + 1 PROVE h[n + i] = g[i]
    <3>1. n + i \in 1..n + m + 1 /\ (n + i) - n = i /\ (n + i <= n + 1 => i = 1)
      BY <1>2
    <3>2. h[n + i] = IF n + i <= n + 1 THEN f[n + i] ELSE g[i]
      BY <3>1
    <3> QED
      BY <1>3, <1>4, <3>1, <3>2
  <2> QED
    BY <2>1, <2>2
<1> HIDE DEF h
<1>7. h[1] = a /\ h[n + m + 1] = c
  <2>1. 1 \in 1..n + 1 /\ m + 1 \in 1..m + 1 /\ n + (m + 1) = n + m + 1
    BY <1>2
  <2> QED
    BY <1>3, <1>4, <1>6, <2>1
<1>8. ASSUME NEW i \in 1..n + m PROVE <<pq[i], h[i], h[i + 1]>> \in T
  <2>1. CASE i <= n
    <3>1. i \in 1..n /\ i \in 1..n + 1 /\ i + 1 \in 1..n + 1
      BY <1>2, <2>1
    <3>2. pq[i] = p[i] /\ h[i] = f[i] /\ h[i + 1] = f[i + 1]
      BY <1>2, <1>6, <2>1, <3>1
    <3> QED
      BY <1>3, <3>1, <3>2
  <2>2. CASE ~(i <= n)
    <3> DEFINE j == i - n
    <3>1. j \in 1..m /\ j \in 1..m + 1 /\ j + 1 \in 1..m + 1 /\ n + j = i /\ n + (j + 1) = i + 1
      BY <1>2, <2>2
    <3>2. pq[i] = q[j]
      BY <1>2, <2>2
    <3> HIDE DEF j
    <3>3. h[i] = g[j] /\ h[i + 1] = g[j + 1]
      BY <1>6, <3>1
    <3> QED
      BY <1>4, <3>1, <3>2, <3>3
  <2> QED
    BY <2>1, <2>2
<1>9. Len(pq) + 1 = n + m + 1
  BY <1>2
<1> QED
  BY <1>2, <1>5, <1>7, <1>8, <1>9 DEF Outline, pq

\* A program of one step, and one with a step before the rest.
LEMMA OutlineOfStep ==
  ASSUME NEW T, NEW s \in AnyStep, NEW a \in Assertions, NEW b \in Assertions, <<s, a, b>> \in T
  PROVE  Outline(T, <<s>>, a, b)
<1> DEFINE p == <<s>>
           f == [i \in 1..2 |-> IF i = 1 THEN a ELSE b]
<1>1. p \in Seq(AnyStep) /\ Len(p) = 1 /\ p[1] = s
  OBVIOUS
<1>2. f \in [1..2 -> Assertions] /\ f[1] = a /\ f[2] = b
  OBVIOUS
<1> HIDE DEF p, f
<1>3. \A i \in 1..1 : i = 1
  OBVIOUS
<1>4. Len(p) + 1 = 2 /\ 1 + 1 = 2
  BY <1>1
<1> QED
  BY <1>1, <1>2, <1>3, <1>4 DEF Outline, p

\* The head of a program, and what is left of it.
LEMMA OutlineOfRest ==
  ASSUME NEW T, NEW p, NEW a, NEW z, p # <<>>, Outline(T, p, a, z)
  PROVE  /\ Head(p) \in AnyStep /\ a \in Assertions
         /\ \E b \in Assertions : <<Head(p), a, b>> \in T /\ Outline(T, Tail(p), b, z)
<1> DEFINE n == Len(p)
           q == Tail(p)
<1>1. p \in Seq(AnyStep)
  BY DEF Outline
<1>2. PICK f \in [1..n + 1 -> Assertions] :
        f[1] = a /\ f[n + 1] = z /\ \A i \in 1..n : <<p[i], f[i], f[i + 1]>> \in T
  BY DEF Outline
<1>3. /\ n \in Nat /\ 1 <= n
      /\ Head(p) = p[1] /\ Head(p) \in AnyStep /\ q \in Seq(AnyStep) /\ Len(q) = n - 1
      /\ \A i \in 1..n - 1 : q[i] = p[i + 1]
  <2>1. n \in Nat /\ n # 0
    BY <1>1, EmptySeq, LenProperties
  <2> QED
    BY <1>1, <2>1, HeadTailProperties
<1> HIDE DEF n, q
<1> DEFINE g == [i \in 1..n |-> f[i + 1]]
<1>4. g \in [1..n -> Assertions] /\ \A i \in 1..n : g[i] = f[i + 1]
  BY <1>3
<1> HIDE DEF g
<1>5. 1 \in 1..n /\ 1 \in 1..n + 1 /\ n \in 1..n /\ 1 + 1 = 2 /\ 2 \in 1..n + 1
  BY <1>3
<1>6. <<Head(p), a, f[2]>> \in T /\ f[2] \in Assertions /\ a \in Assertions
  BY <1>2, <1>3, <1>5
<1>7. g[1] = f[2] /\ g[n] = z
  BY <1>2, <1>4, <1>5
<1>8. ASSUME NEW i \in 1..n - 1 PROVE <<q[i], g[i], g[i + 1]>> \in T
  <2>1. i \in 1..n /\ i + 1 \in 1..n
    BY <1>3
  <2>2. q[i] = p[i + 1] /\ g[i] = f[i + 1] /\ g[i + 1] = f[(i + 1) + 1]
    BY <1>3, <1>4, <2>1
  <2>3. <<p[i + 1], f[i + 1], f[(i + 1) + 1]>> \in T
    BY <1>2, <2>1
  <2> QED
    BY <2>2, <2>3
<1>9. Len(q) + 1 = n
  BY <1>3
<1>10. Outline(T, q, f[2], z)
  BY <1>3, <1>4, <1>7, <1>8, <1>9 DEF Outline
<1> QED
  BY <1>3, <1>6, <1>10 DEF q

\* With more steps there are more outlines.
LEMMA OutlineMonotonic ==
  ASSUME NEW T, NEW U, T \subseteq U, NEW p, NEW a, NEW z, Outline(T, p, a, z)
  PROVE  Outline(U, p, a, z)
BY DEF Outline

\* Programs of a few steps.
LEMMA OutlineOfTwo ==
  ASSUME NEW T, NEW s1 \in AnyStep, NEW s2 \in AnyStep,
         NEW a0 \in Assertions, NEW a1 \in Assertions, NEW a2 \in Assertions,
         <<s1, a0, a1>> \in T, <<s2, a1, a2>> \in T
  PROVE  Outline(T, <<s1, s2>>, a0, a2)
<1> DEFINE p == <<s1, s2>>
           f == <<a0, a1, a2>>
<1>1. p \in Seq(AnyStep) /\ Len(p) = 2 /\ p[1] = s1 /\ p[2] = s2
  OBVIOUS
<1>2. f \in [1..3 -> Assertions] /\ f[1] = a0 /\ f[2] = a1 /\ f[3] = a2
  OBVIOUS
<1> HIDE DEF p, f
<1>3. \A i \in 1..2 : (i = 1 /\ i + 1 = 2) \/ (i = 2 /\ i + 1 = 3)
  OBVIOUS
<1>4. Len(p) + 1 = 3
  BY <1>1
<1> QED
  BY <1>1, <1>2, <1>3, <1>4 DEF Outline, p

LEMMA OutlineOfThree ==
  ASSUME NEW T, NEW s1 \in AnyStep, NEW s2 \in AnyStep, NEW s3 \in AnyStep,
         NEW a0 \in Assertions, NEW a1 \in Assertions, NEW a2 \in Assertions, NEW a3 \in Assertions,
         <<s1, a0, a1>> \in T, <<s2, a1, a2>> \in T, <<s3, a2, a3>> \in T
  PROVE  Outline(T, <<s1, s2, s3>>, a0, a3)
<1> DEFINE p == <<s1, s2, s3>>
           f == <<a0, a1, a2, a3>>
<1>1. p \in Seq(AnyStep) /\ Len(p) = 3 /\ p[1] = s1 /\ p[2] = s2 /\ p[3] = s3
  OBVIOUS
<1>2. f \in [1..4 -> Assertions] /\ f[1] = a0 /\ f[2] = a1 /\ f[3] = a2 /\ f[4] = a3
  OBVIOUS
<1> HIDE DEF p, f
<1>3. \A i \in 1..3 : (i = 1 /\ i + 1 = 2) \/ (i = 2 /\ i + 1 = 3) \/ (i = 3 /\ i + 1 = 4)
  OBVIOUS
<1>4. Len(p) + 1 = 4
  BY <1>1
<1> QED
  BY <1>1, <1>2, <1>3, <1>4 DEF Outline, p

LEMMA OutlineOfFour ==
  ASSUME NEW T, NEW s1 \in AnyStep, NEW s2 \in AnyStep, NEW s3 \in AnyStep, NEW s4 \in AnyStep,
         NEW a0 \in Assertions, NEW a1 \in Assertions, NEW a2 \in Assertions, NEW a3 \in Assertions,
         NEW a4 \in Assertions,
         <<s1, a0, a1>> \in T, <<s2, a1, a2>> \in T, <<s3, a2, a3>> \in T, <<s4, a3, a4>> \in T
  PROVE  Outline(T, <<s1, s2, s3, s4>>, a0, a4)
<1> DEFINE p == <<s1, s2, s3, s4>>
           f == <<a0, a1, a2, a3, a4>>
<1>1. p \in Seq(AnyStep) /\ Len(p) = 4 /\ p[1] = s1 /\ p[2] = s2 /\ p[3] = s3 /\ p[4] = s4
  OBVIOUS
<1>2. f \in [1..5 -> Assertions] /\ f[1] = a0 /\ f[2] = a1 /\ f[3] = a2 /\ f[4] = a3 /\ f[5] = a4
  OBVIOUS
<1> HIDE DEF p, f
<1>3. \A i \in 1..4 : \/ i = 1 /\ i + 1 = 2
                      \/ i = 2 /\ i + 1 = 3
                      \/ i = 3 /\ i + 1 = 4
                      \/ i = 4 /\ i + 1 = 5
  OBVIOUS
<1>4. Len(p) + 1 = 5
  BY <1>1
<1> QED
  BY <1>1, <1>2, <1>3, <1>4 DEF Outline, p

-------------------------------------------------------------------------------
(* The rules for each kind of step *)

LEMMA ThatIs ==
  /\ \A h \in SUBSET Known, w \in SUBSET Wrappers, n \in Int : That(h, w, n) \in Assertions
  /\ \A h, w, n : /\ That(h, w, n).has = h /\ That(h, w, n).held = w /\ That(h, w, n).spare = n
BY DEF That, Assertions

LEMMA SlackIs == \A o : Slack(o) \in Nat /\ 1 <= Slack(o)
BY DEF Slack

LEMMA LevelsOfSteps ==
  ASSUME NEW o
  PROVE  /\ Local(o) \subseteq Choice(o) /\ Choice(o) \subseteq Every(o) /\ Local(o) \subseteq Every(o)
         /\ Simple \subseteq AnyStep /\ Inner \subseteq AnyStep /\ Plain \subseteq AnyStep
         /\ Wrapping \subseteq AnyStep /\ Destroying \subseteq AnyStep
         /\ Bodied("maybe", Simple) \subseteq AnyStep /\ Bodied("loop", Inner) \subseteq AnyStep
BY PlainParts DEF Choice, Every, AnyStep

\* A step that makes a local reference or none, and may throw.
LEMMA MakesRule ==
  ASSUME NEW o, NEW s \in Simple, s.do \in {"allocate", "static", "call"},
         NEW h \in SUBSET Known, NEW k \in SUBSET Known, NEW w \in SUBSET Wrappers,
         NEW n \in Int, NEW m \in Int, NEW extra, NEW named,
         s.uses \subseteq h \cup w \cup {"options"}, k \subseteq h \cup {s.out},
         extra = Extra(s), named = Named(s), m + extra + named <= n, extra <= n + Slack(o),
         w \cap Raw \subseteq Forgotten(o)
  PROVE  <<s, That(h, w, n), That(k, w, m)>> \in Local(o)
<1> DEFINE a == That(h, w, n)
           b == That(k, w, m)
<1>1. /\ a \in Assertions /\ a.has = h /\ a.held = w /\ a.spare = n
      /\ b \in Assertions /\ b.has = k /\ b.held = w /\ b.spare = m
  BY ThatIs
<1> HIDE DEF a, b
<1>2. Makes(o, s, a, b)
  BY <1>1 DEF Makes
<1>3. Covers(a, s)
  BY <1>1 DEF Covers
<1> QED
  BY <1>1, <1>2, <1>3 DEF Local, Triples, a, b

LEMMA AllocateRule ==
  ASSUME NEW o, NEW v \in LocalVars, NEW h \in SUBSET Known, NEW k \in SUBSET Known,
         NEW w \in SUBSET Wrappers, NEW n \in Int, NEW m \in Int,
         k \subseteq h \cup {v}, m + 1 <= n, 0 <= n + Slack(o), w \cap Raw \subseteq Forgotten(o)
  PROVE  Allocate(v) \in Simple /\ <<Allocate(v), That(h, w, n), That(k, w, m)>> \in Local(o)
<1> DEFINE s == Allocate(v)
<1>1. s \in Simple
  BY SimpleSteps, Names
<1>2. s.do = "allocate" /\ s.out = v /\ s.uses = {}
  BY DEF Allocate, Step
<1>3. Extra(s) = 0 /\ Named(s) = 1
  BY <1>2 DEF Extra, Named, LocalVars, NoVar
<1> HIDE DEF s
<1>4. m + 0 + 1 <= n
  OBVIOUS
<1> QED
  BY <1>1, <1>2, <1>3, <1>4, MakesRule DEF s

\* A step that makes nothing, but may throw.
LEMMA MayThrowRule ==
  ASSUME NEW o, NEW h \in SUBSET Known, NEW w \in SUBSET Wrappers, NEW n \in Int, NEW m \in Int,
         m <= n, 0 <= n + Slack(o), w \cap Raw \subseteq Forgotten(o)
  PROVE  MayThrow \in Simple /\ <<MayThrow, That(h, w, n), That(h, w, m)>> \in Local(o)
<1>1. MayThrow \in Simple
  BY SimpleSteps
<1>2. MayThrow.do = "allocate" /\ MayThrow.out = NoVar /\ MayThrow.uses = {}
  BY DEF MayThrow, Step
<1>3. Extra(MayThrow) = 0 /\ Named(MayThrow) = 0
  BY <1>2 DEF Extra, Named
<1>4. m + 0 + 0 <= n
  OBVIOUS
<1> QED
  BY <1>1, <1>2, <1>3, <1>4, MakesRule

LEMMA StaticRule ==
  ASSUME NEW o, NEW v \in LocalVars, NEW u \in SUBSET Used, NEW h \in SUBSET Known, NEW k \in SUBSET Known,
         NEW w \in SUBSET Wrappers, NEW n \in Int, NEW m \in Int,
         u \subseteq h \cup w \cup {"options"},
         k \subseteq h \cup {v}, m + 1 <= n, 0 <= n + Slack(o), w \cap Raw \subseteq Forgotten(o)
  PROVE  Static(v, u) \in Simple /\ <<Static(v, u), That(h, w, n), That(k, w, m)>> \in Local(o)
<1> DEFINE s == Static(v, u)
<1>1. s \in Simple
  BY SimpleSteps, Names
<1>2. s.do = "static" /\ s.out = v /\ s.uses = u
  BY DEF Static, Step
<1>3. Extra(s) = 0 /\ Named(s) = 1
  BY <1>2 DEF Extra, Named, LocalVars, NoVar
<1> HIDE DEF s
<1>4. m + 0 + 1 <= n
  OBVIOUS
<1> QED
  BY <1>1, <1>2, <1>3, <1>4, MakesRule DEF s

\* A static call whose result is no reference.
LEMMA StaticOnlyRule ==
  ASSUME NEW o, NEW u \in SUBSET Used, NEW h \in SUBSET Known, NEW k \in SUBSET Known,
         NEW w \in SUBSET Wrappers, NEW n \in Int,
         u \subseteq h \cup w \cup {"options"}, k \subseteq h,
         0 <= n + Slack(o), w \cap Raw \subseteq Forgotten(o)
  PROVE  Static(NoVar, u) \in Simple /\ <<Static(NoVar, u), That(h, w, n), That(k, w, n)>> \in Local(o)
<1> DEFINE s == Static(NoVar, u)
<1>1. s \in Simple
  BY SimpleSteps, Names
<1>2. s.do = "static" /\ s.out = NoVar /\ s.uses = u
  BY DEF Static, Step
<1>3. Extra(s) = 0 /\ Named(s) = 0
  BY <1>2 DEF Extra, Named
<1> HIDE DEF s
<1>4. n + 0 + 0 <= n
  OBVIOUS
<1> QED
  BY <1>1, <1>2, <1>3, <1>4, MakesRule DEF s

\* A call makes a reference to the class of the object, and one for its result. Whatever
\* its handler deletes makes no difference here.
LEMMA CallRule ==
  ASSUME NEW o, NEW v \in LocalVars, NEW u \in SUBSET Used, NEW h \in SUBSET Known, NEW k \in SUBSET Known,
         NEW w \in SUBSET Wrappers, NEW n \in Int, NEW m \in Int,
         u \subseteq h \cup w \cup {"options"},
         k \subseteq h \cup {v}, m + 2 <= n, 1 <= n + Slack(o), w \cap Raw \subseteq Forgotten(o)
  PROVE  Call(v, u) \in Simple /\ <<Call(v, u), That(h, w, n), That(k, w, m)>> \in Local(o)
<1> DEFINE s == Call(v, u)
<1>1. s \in Simple
  BY SimpleSteps, Names
<1>2. s.do = "call" /\ s.out = v /\ s.uses = u
  BY DEF Call, Step
<1>3. Extra(s) = 1 /\ Named(s) = 1
  BY <1>2 DEF Extra, Named, LocalVars, NoVar
<1> HIDE DEF s
<1>4. m + 1 + 1 <= n
  OBVIOUS
<1> QED
  BY <1>1, <1>2, <1>3, <1>4, MakesRule DEF s

LEMMA CaughtRule ==
  ASSUME NEW o, NEW u \in SUBSET Used, NEW h \in SUBSET Known, NEW k \in SUBSET Known,
         NEW w \in SUBSET Wrappers, NEW n \in Int, NEW m \in Int, NEW c \in SUBSET LocalVars,
         u \subseteq h \cup w \cup {"options"},
         k \subseteq h, m + 1 <= n, 1 <= n + Slack(o), w \cap Raw \subseteq Forgotten(o)
  PROVE  /\ [Call(NoVar, u) EXCEPT !.caught = c] \in Simple
         /\ <<[Call(NoVar, u) EXCEPT !.caught = c], That(h, w, n), That(k, w, m)>> \in Local(o)
<1> DEFINE s == [Call(NoVar, u) EXCEPT !.caught = c]
           x == Call(NoVar, u)
<1>1. x \in Simple
  BY SimpleSteps, Names
<1>2. x.do = "call" /\ x.out = NoVar /\ x.uses = u
  BY DEF Call, Step
<1>3. s \in Simple /\ s.do = "call" /\ s.out = NoVar /\ s.uses = u
  BY <1>1, <1>2 DEF Simple
<1>4. Extra(s) = 1 /\ Named(s) = 0
  BY <1>3 DEF Extra, Named
<1> HIDE DEF s, x
<1>5. m + 1 + 0 <= n
  OBVIOUS
<1>6. <<s, That(h, w, n), That(k, w, m)>> \in Local(o)
  BY <1>3, <1>4, <1>5, MakesRule
<1> QED
  BY <1>3, <1>6 DEF s

LEMMA CallOnlyRule ==
  ASSUME NEW o, NEW u \in SUBSET Used, NEW h \in SUBSET Known, NEW k \in SUBSET Known,
         NEW w \in SUBSET Wrappers, NEW n \in Int, NEW m \in Int,
         u \subseteq h \cup w \cup {"options"},
         k \subseteq h, m + 1 <= n, 1 <= n + Slack(o), w \cap Raw \subseteq Forgotten(o)
  PROVE  Call(NoVar, u) \in Simple /\ <<Call(NoVar, u), That(h, w, n), That(k, w, m)>> \in Local(o)
<1> DEFINE s == Call(NoVar, u)
<1>1. s \in Simple
  BY SimpleSteps, Names
<1>2. s.do = "call" /\ s.out = NoVar /\ s.uses = u
  BY DEF Call, Step
<1>3. Extra(s) = 1 /\ Named(s) = 0
  BY <1>2 DEF Extra, Named
<1> HIDE DEF s
<1>4. m + 1 + 0 <= n
  OBVIOUS
<1> QED
  BY <1>1, <1>2, <1>3, <1>4, MakesRule DEF s

LEMMA DropRule ==
  ASSUME NEW o, NEW v \in LocalVars, NEW h \in SUBSET Known, NEW k \in SUBSET Known,
         NEW w \in SUBSET Wrappers, NEW n \in Int, NEW m \in Int,
         v \in h, k \subseteq h \ {v}, m <= n + 1
  PROVE  Drop(v) \in Simple /\ <<Drop(v), That(h, w, n), That(k, w, m)>> \in Local(o)
<1> DEFINE s == Drop(v)
           a == That(h, w, n)
           b == That(k, w, m)
<1>1. s \in Simple /\ s.do = "drop" /\ s.uses = {v}
  <2>1. s \in Simple
    BY SimpleSteps, Names
  <2> QED
    BY <2>1 DEF Drop, Step
<1>2. /\ a \in Assertions /\ a.has = h /\ a.held = w /\ a.spare = n
      /\ b \in Assertions /\ b.has = k /\ b.held = w /\ b.spare = m
  BY ThatIs
<1> HIDE DEF s, a, b
<1>3. Drops(s, a, b)
  BY <1>1, <1>2 DEF Drops
<1>4. Covers(a, s)
  BY <1>1, <1>2 DEF Covers
<1> QED
  BY <1>1, <1>2, <1>3, <1>4 DEF Local, Triples, s, a, b

LEMMA WrapRule ==
  ASSUME NEW o, NEW v \in LocalVars, NEW x \in Wrappers, NEW h \in SUBSET Known, NEW k \in SUBSET Known,
         NEW w \in SUBSET Wrappers, NEW n \in Int, NEW m \in Int,
         v \in h, k \subseteq h \ {v}, x \notin w, m <= n + 1
  PROVE  Wrap(v, x) \in AnyStep /\ <<Wrap(v, x), That(h, w, n), That(k, w \cup {x}, m)>> \in Every(o)
<1> DEFINE s == Wrap(v, x)
           a == That(h, w, n)
           b == That(k, w \cup {x}, m)
<1>1. s \in AnyStep /\ s.do = "wrap" /\ s.out = x /\ s.uses = {v}
  <2>1. s \in AnyStep
    BY PlainSteps DEF AnyStep
  <2> QED
    BY <2>1 DEF Wrap, Step
<1>2. /\ a \in Assertions /\ a.has = h /\ a.held = w /\ a.spare = n
      /\ b \in Assertions /\ b.has = k /\ b.held = w \cup {x} /\ b.spare = m
  BY ThatIs
<1> HIDE DEF s, a, b
<1>3. WrapsUp(s, a, b)
  BY <1>1, <1>2 DEF WrapsUp
<1> QED
  BY <1>1, <1>2, <1>3 DEF Every, Triples, s, a, b

LEMMA DestroyRule ==
  ASSUME NEW o, NEW x \in Scoped, NEW h \in SUBSET Known, NEW k \in SUBSET Known,
         NEW w \in SUBSET Wrappers, NEW n \in Int, x \in w, k \subseteq h
  PROVE  Destroy(x) \in AnyStep /\ <<Destroy(x), That(h, w, n), That(k, w \ {x}, n)>> \in Every(o)
<1> DEFINE s == Destroy(x)
           a == That(h, w, n)
           b == That(k, w \ {x}, n)
<1>1. s \in AnyStep /\ s.do = "destroy" /\ s.uses = {x}
  <2>1. s \in AnyStep
    BY PlainSteps DEF AnyStep
  <2> QED
    BY <2>1 DEF Destroy, Step
<1>2. /\ a \in Assertions /\ a.has = h /\ a.held = w /\ a.spare = n
      /\ b \in Assertions /\ b.has = k /\ b.held = w \ {x} /\ b.spare = n
  BY ThatIs
<1> HIDE DEF s, a, b
<1>3. Destroys(s, a, b)
  BY <1>1, <1>2 DEF Destroys
<1> QED
  BY <1>1, <1>2, <1>3 DEF Every, Triples, s, a, b

LEMMA GiveRule ==
  ASSUME NEW o, NEW x \in Raw, NEW h \in SUBSET Known, NEW k \in SUBSET Known,
         NEW w \in SUBSET Wrappers, NEW n \in Int, x \in w, k \subseteq h,
         w \ {x} \subseteq Forgotten(o) \ {"newFile"}
  PROVE  Give(x) \in AnyStep /\ <<Give(x), That(h, w, n), That(k, {}, n)>> \in Every(o)
<1> DEFINE s == Give(x)
           a == That(h, w, n)
           b == That(k, {}, n)
<1>1. s \in AnyStep /\ s.do = "give" /\ s.uses = {x}
  BY GiveIs DEF AnyStep
<1>2. /\ a \in Assertions /\ a.has = h /\ a.held = w /\ a.spare = n
      /\ b \in Assertions /\ b.has = k /\ b.held = {} /\ b.spare = n
  BY ThatIs
<1> HIDE DEF s, a, b
<1>3. Gives(o, s, a, b)
  BY <1>1, <1>2 DEF Gives
<1> QED
  BY <1>1, <1>2, <1>3 DEF Every, Triples, s, a, b

LEMMA MaybeRule ==
  ASSUME NEW o, NEW body \in Seq(Simple), NEW h \in SUBSET Known, NEW k \in SUBSET Known,
         NEW w \in SUBSET Wrappers, NEW n \in Int, NEW m \in Int, k \subseteq h, m <= n,
         Outline(Local(o), body, That(h, w, n), That(k, w, m))
  PROVE  Maybe(body) \in Inner /\ <<Maybe(body), That(h, w, n), That(k, w, m)>> \in Choice(o)
<1> DEFINE s == Maybe(body)
           a == That(h, w, n)
           b == That(k, w, m)
<1>1. s \in Bodied("maybe", Simple) /\ s \in Inner /\ s.body = body
  <2>1. s \in Bodied("maybe", Simple)
    BY BodySteps
  <2> QED
    BY <2>1, PlainParts DEF Maybe, Step
<1>2. /\ a \in Assertions /\ a.has = h /\ a.held = w /\ a.spare = n
      /\ b \in Assertions /\ b.has = k /\ b.held = w /\ b.spare = m
  BY ThatIs
<1>3. Outline(Local(o), body, a, b)
  OBVIOUS
<1> HIDE DEF s, a, b
<1>4. Weaker(a, b)
  BY <1>2 DEF Weaker
<1> QED
  BY <1>1, <1>2, <1>3, <1>4 DEF Choice, Triples, s, a, b

LEMMA LoopRule ==
  ASSUME NEW o, NEW body \in Seq(Inner), NEW h \in SUBSET Known, NEW w \in SUBSET Wrappers, NEW n \in Int,
         Outline(Choice(o), body, That(h, w, n + TurnPrice(o)), That(h, w, n))
  PROVE  Loop(body) \in AnyStep /\ <<Loop(body), That(h, w, n), That(h, w, n)>> \in Every(o)
<1> DEFINE s == Loop(body)
           a == That(h, w, n)
<1>1. s \in Bodied("loop", Inner) /\ s \in AnyStep /\ s.body = body
  <2>1. s \in Bodied("loop", Inner)
    BY BodySteps
  <2> QED
    BY <2>1, LevelsOfSteps DEF Loop, Step
<1>2. a \in Assertions /\ a.has = h /\ a.held = w /\ a.spare = n
  BY ThatIs
<1>3. Turned(o, a) = That(h, w, n + TurnPrice(o))
  BY <1>2 DEF Turned
<1>4. Outline(Choice(o), body, Turned(o, a), a)
  BY <1>3
<1> HIDE DEF s, a
<1>5. Weaker(a, a)
  BY <1>2 DEF Weaker
<1> QED
  BY <1>1, <1>2, <1>4, <1>5 DEF Every, Triples, s, a

-------------------------------------------------------------------------------
(* The outlines of the programs *)

LEMMA KnownNames ==
  /\ {} \in SUBSET Known /\ {"this"} \in SUBSET Known
  /\ \A v \in LocalVars : {v} \in SUBSET Known /\ {v} \in SUBSET Used
  /\ \A v, x \in LocalVars : {v, x} \in SUBSET Known /\ {v, x} \in SUBSET Used
  /\ \A w \in Wrappers : {w} \in SUBSET Wrappers /\ {w} \in SUBSET Used
  /\ {} \in SUBSET Wrappers /\ {} \in SUBSET Used
BY Names DEF Known

\* The path is a string as long as the URI is made.
LEMMA NewURIOutline ==
  ASSUME NEW o, NEW x \in Wrappers, NEW w \in SUBSET Wrappers, NEW n \in Int,
         0 <= n, x \notin w, w \cap Raw \subseteq Forgotten(o)
  PROVE  Outline(Every(o), NewURI(x), That({}, w, n), That({}, w \cup {x}, n))
<1> DEFINE k1 == {"jPathStr"}
           k2 == {"jPathStr", "retObj"}
           k3 == {"retObj"}
           a0 == That({}, w, n)
           a1 == That(k1, w, n - 1)
           a2 == That(k2, w, n - 2)
           a3 == That(k3, w, n - 1)
           a4 == That({}, w \cup {x}, n)
           s1 == Allocate("jPathStr")
           s2 == Static("retObj", k1)
           s3 == Drop("jPathStr")
           s4 == Wrap("retObj", x)
<1>1. /\ n - 1 \in Int /\ n - 2 \in Int /\ (n - 1) + 1 <= n /\ (n - 2) + 1 <= n - 1 /\ n - 1 <= (n - 2) + 1
      /\ n <= (n - 1) + 1 /\ 0 <= n + Slack(o) /\ 0 <= (n - 1) + Slack(o)
  BY SlackIs
<1>2. /\ "jPathStr" \in LocalVars /\ "retObj" \in LocalVars
      /\ {} \in SUBSET Known /\ k1 \in SUBSET Known /\ k2 \in SUBSET Known /\ k3 \in SUBSET Known
      /\ k1 \in SUBSET Used /\ w \cup {x} \in SUBSET Wrappers
  BY Names, KnownNames
<1>3. /\ k1 \subseteq {} \cup {"jPathStr"} /\ k2 \subseteq k1 \cup {"retObj"} /\ k1 \subseteq k1 \cup w \cup {"options"}
      /\ "jPathStr" \in k2 /\ k3 \subseteq k2 \ {"jPathStr"} /\ "retObj" \in k3 /\ {} \subseteq k3 \ {"retObj"}
  OBVIOUS
<1>4. /\ a0 \in Assertions /\ a1 \in Assertions /\ a2 \in Assertions /\ a3 \in Assertions
      /\ a4 \in Assertions
  BY <1>1, <1>2, ThatIs
<1> HIDE DEF k1, k2, k3
<1>5. s1 \in Simple /\ <<s1, a0, a1>> \in Local(o)
  BY <1>1, <1>2, <1>3, AllocateRule
<1>6. s2 \in Simple /\ <<s2, a1, a2>> \in Local(o)
  BY <1>1, <1>2, <1>3, StaticRule
<1>7. s3 \in Simple /\ <<s3, a2, a3>> \in Local(o)
  BY <1>1, <1>2, <1>3, DropRule
<1>8. s4 \in AnyStep /\ <<s4, a3, a4>> \in Every(o)
  BY <1>1, <1>2, <1>3, WrapRule
<1>9. NewURI(x) = <<s1, s2, s3, s4>>
  BY DEF NewURI, k1
<1> HIDE DEF a0, a1, a2, a3, a4, s1, s2, s3, s4
<1>10. Outline(Every(o), <<s1, s2, s3, s4>>, a0, a4)
  BY <1>4, <1>5, <1>6, <1>7, <1>8, LevelsOfSteps, OutlineOfFour
<1> QED
  BY <1>9, <1>10 DEF a0, a4

\* A file is opened, and the URI of its path destroyed; the result of the call is wrapped.
LEMMA OpenFileOutline ==
  ASSUME NEW o, NEW x \in Wrappers, NEW w \in SUBSET Wrappers, NEW n \in Int,
         1 <= n, x \notin w, x # "uri", "uri" \notin w, w \cap Raw \subseteq Forgotten(o)
  PROVE  Outline(Every(o), OpenFile(x), That({}, w, n), That({}, w \cup {x}, n - 1))
<1> DEFINE u == {"uri", "options"}
           k == {"ret"}
           w1 == w \cup {"uri"}
           w2 == w1 \cup {x}
           w3 == w2 \ {"uri"}
           a0 == That({}, w, n)
           a1 == That({}, w1, n)
           a2 == That(k, w1, n - 2)
           a3 == That({}, w2, n - 1)
           a4 == That({}, w3, n - 1)
           s1 == Call("ret", u)
           s2 == Wrap("ret", x)
           s3 == Destroy("uri")
           p == NewURI("uri")
           q == <<s1, s2, s3>>
<1>1. /\ n - 1 \in Int /\ n - 2 \in Int /\ (n - 2) + 2 <= n /\ n - 1 <= (n - 2) + 1
      /\ 0 <= n /\ 1 <= n + Slack(o)
  BY SlackIs
<1>2. /\ "ret" \in LocalVars /\ "uri" \in Scoped /\ "uri" \in Wrappers /\ u \in SUBSET Used
      /\ {} \in SUBSET Known /\ k \in SUBSET Known
      /\ w1 \in SUBSET Wrappers /\ w2 \in SUBSET Wrappers /\ w3 \in SUBSET Wrappers
  BY Names, KnownNames
<1>3. /\ u \subseteq {} \cup w1 \cup {"options"} /\ k \subseteq {} \cup {"ret"}
      /\ "ret" \in k /\ {} \subseteq k \ {"ret"} /\ x \notin w1 /\ "uri" \in w2 /\ {} \subseteq {}
  OBVIOUS
<1>4. w1 \cap Raw \subseteq Forgotten(o)
  BY DEF Raw
<1>5. w3 = w \cup {x}
  OBVIOUS
<1>6. a0 \in Assertions /\ a1 \in Assertions /\ a2 \in Assertions /\ a3 \in Assertions /\ a4 \in Assertions
  BY <1>1, <1>2, ThatIs
<1>7. Outline(Every(o), p, a0, a1)
  BY <1>1, <1>2, NewURIOutline
<1> HIDE DEF u, k, w1
<1>8. s1 \in Simple /\ <<s1, a1, a2>> \in Local(o)
  BY <1>1, <1>2, <1>3, <1>4, CallRule
<1>9. s2 \in AnyStep /\ <<s2, a2, a3>> \in Every(o)
  BY <1>1, <1>2, <1>3, WrapRule
<1> HIDE DEF w2
<1>10. s3 \in AnyStep /\ <<s3, a3, a4>> \in Every(o)
  BY <1>1, <1>2, <1>3, DestroyRule
<1>11. OpenFile(x) = p \o q
  BY DEF OpenFile, u
<1> HIDE DEF a0, a1, a2, a3, a4, s1, s2, s3, p, w3
<1>12. Outline(Every(o), q, a1, a4)
  BY <1>6, <1>8, <1>9, <1>10, LevelsOfSteps, OutlineOfThree
<1> HIDE DEF q
<1>13. Outline(Every(o), p \o q, a0, a4)
  BY <1>7, <1>12, OutlineConcat
<1> QED
  BY <1>5, <1>11, <1>13 DEF a0, a4

\* The array is deleted when the call returns.
LEMMA ReadOutline ==
  ASSUME NEW o, NEW s \in Used, NEW h \in SUBSET Known, NEW w \in SUBSET Wrappers, NEW n \in Int,
         1 <= n, s \in h \cup w, "jBuf" \notin h, w \cap Raw \subseteq Forgotten(o)
  PROVE  /\ Read(s) \in Seq(Simple)
         /\ Outline(Local(o), Read(s), That(h, w, n), That(h, w, n - 1))
<1> DEFINE c == {"jBuf"}
           u == {s, "jBuf"}
           k == h \cup {"jBuf"}
           a0 == That(h, w, n)
           a1 == That(k, w, n - 1)
           a2 == That(k, w, n - 2)
           a3 == That(h, w, n - 1)
           s1 == Allocate("jBuf")
           s2 == [Call(NoVar, u) EXCEPT !.caught = c]
           s3 == Drop("jBuf")
<1>1. /\ n - 1 \in Int /\ n - 2 \in Int /\ (n - 1) + 1 <= n /\ (n - 2) + 1 <= n - 1 /\ n - 1 <= (n - 2) + 1
      /\ 0 <= n + Slack(o) /\ 1 <= (n - 1) + Slack(o)
  BY SlackIs
<1>2. /\ "jBuf" \in LocalVars /\ c \in SUBSET LocalVars /\ u \in SUBSET Used /\ k \in SUBSET Known
  BY Names DEF Known
<1>3. /\ u \subseteq k \cup w \cup {"options"} /\ k \subseteq h \cup {"jBuf"} /\ k \subseteq k
      /\ "jBuf" \in k /\ h \subseteq k \ {"jBuf"}
  OBVIOUS
<1>4. a0 \in Assertions /\ a1 \in Assertions /\ a2 \in Assertions /\ a3 \in Assertions
  BY <1>1, <1>2, ThatIs
<1> HIDE DEF u, k, c
<1>5. s1 \in Simple /\ <<s1, a0, a1>> \in Local(o)
  BY <1>1, <1>2, <1>3, AllocateRule
<1>6. s2 \in Simple /\ <<s2, a1, a2>> \in Local(o)
  BY <1>1, <1>2, <1>3, CaughtRule
<1>7. s3 \in Simple /\ <<s3, a2, a3>> \in Local(o)
  BY <1>1, <1>2, <1>3, DropRule
<1>8. Read(s) = <<s1, s2, s3>>
  BY DEF Read, u, c
<1> HIDE DEF a0, a1, a2, a3, s1, s2, s3
<1>9. Outline(Local(o), <<s1, s2, s3>>, a0, a3)
  BY <1>4, <1>5, <1>6, <1>7, LevelsOfSteps, OutlineOfThree
<1>10. Read(s) \in Seq(Simple)
  BY StreamShape
<1> QED
  BY <1>8, <1>9, <1>10 DEF a0, a3

LEMMA WriteOutline ==
  ASSUME NEW o, NEW s \in Used, NEW h \in SUBSET Known, NEW w \in SUBSET Wrappers, NEW n \in Int,
         1 <= n, s \in h \cup w, "jBuf" \notin h, w \cap Raw \subseteq Forgotten(o)
  PROVE  /\ Write(s) \in Seq(Simple)
         /\ Outline(Local(o), Write(s), That(h, w, n), That(h, w, n - 1))
<1> DEFINE u == {s, "jBuf"}
           k == h \cup {"jBuf"}
           a0 == That(h, w, n)
           a1 == That(k, w, n - 1)
           a2 == That(k, w, n - 2)
           a3 == That(h, w, n - 1)
           s1 == Allocate("jBuf")
           s2 == Call(NoVar, u)
           s3 == Drop("jBuf")
<1>1. /\ n - 1 \in Int /\ n - 2 \in Int /\ (n - 1) + 1 <= n /\ (n - 2) + 1 <= n - 1 /\ n - 1 <= (n - 2) + 1
      /\ 0 <= n + Slack(o) /\ 1 <= (n - 1) + Slack(o) /\ n - 1 <= n - 1 /\ 0 <= (n - 1) + Slack(o)
  BY SlackIs
<1>2. /\ "jBuf" \in LocalVars /\ {} \in SUBSET LocalVars /\ u \in SUBSET Used /\ k \in SUBSET Known
  BY Names DEF Known
<1>3. /\ u \subseteq k \cup w \cup {"options"} /\ k \subseteq h \cup {"jBuf"} /\ k \subseteq k
      /\ "jBuf" \in k /\ h \subseteq k \ {"jBuf"}
  OBVIOUS
<1>4. a0 \in Assertions /\ a1 \in Assertions /\ a2 \in Assertions /\ a3 \in Assertions
  BY <1>1, <1>2, ThatIs
<1> HIDE DEF u, k
<1>5. s1 \in Simple /\ <<s1, a0, a1>> \in Local(o)
  BY <1>1, <1>2, <1>3, AllocateRule
<1>6. MayThrow \in Simple /\ <<MayThrow, a1, a1>> \in Local(o)
  BY <1>1, <1>2, MayThrowRule
<1>7. s2 \in Simple /\ <<s2, a1, a2>> \in Local(o)
  BY <1>1, <1>2, <1>3, CallOnlyRule
<1>8. s3 \in Simple /\ <<s3, a2, a3>> \in Local(o)
  BY <1>1, <1>2, <1>3, DropRule
<1>9. Write(s) = <<s1, MayThrow, s2, s3>>
  BY DEF Write, u
<1> HIDE DEF a0, a1, a2, a3, s1, s2, s3
<1>10. Outline(Local(o), <<s1, MayThrow, s2, s3>>, a0, a3)
  BY <1>4, <1>5, <1>6, <1>7, <1>8, LevelsOfSteps, OutlineOfFour
<1>11. Write(s) \in Seq(Simple)
  BY StreamShape
<1> QED
  BY <1>9, <1>10, <1>11 DEF a0, a3

\* A program that starts with the local references h, no wrapper and n to spend ends with
\* no wrapper, and within its means.
Ends(o, p, h, n) ==
  \E z \in Assertions : z.held = {} /\ 0 <= z.spare /\ Outline(Every(o), p, That(h, {}, n), z)

LEMMA EndsRule ==
  ASSUME NEW o, NEW p, NEW h, NEW n, NEW k \in SUBSET Known, NEW m \in Int, 0 <= m,
         Outline(Every(o), p, That(h, {}, n), That(k, {}, m))
  PROVE  Ends(o, p, h, n)
<1>1. That(k, {}, m) \in Assertions /\ That(k, {}, m).held = {} /\ That(k, {}, m).spare = m
  BY KnownNames, ThatIs
<1> QED
  BY <1>1 DEF Ends

LEMMA NewURIEnds ==
  ASSUME NEW o
  PROVE  Ends(o, NewURI("result") \o <<Give("result")>>, {}, 0)
<1> DEFINE w == {"result"}
           g == Give("result")
           b == That({}, w, 0)
           c == That({}, {}, 0)
<1>1. /\ "result" \in Wrappers /\ "result" \in Raw /\ "result" \in w /\ w \ {"result"} = {}
      /\ {} \in SUBSET Wrappers /\ {} \in SUBSET Known /\ w \in SUBSET Wrappers /\ {} \cup {"result"} = w
  BY Names, KnownNames
<1>2. b \in Assertions /\ c \in Assertions
  BY <1>1, ThatIs
<1>3. Outline(Every(o), NewURI("result"), That({}, {}, 0), b)
  BY <1>1, NewURIOutline
<1> HIDE DEF w
<1>4. g \in AnyStep /\ <<g, b, c>> \in Every(o)
  BY <1>1, GiveRule
<1> HIDE DEF b, g
<1>5. Outline(Every(o), <<g>>, b, c)
  BY <1>2, <1>4, OutlineOfStep
<1> HIDE DEF c
<1>6. Outline(Every(o), NewURI("result") \o <<g>>, That({}, {}, 0), c)
  BY <1>3, <1>5, OutlineConcat
<1> QED
  BY <1>1, <1>6, EndsRule DEF c, g

LEMMA FactoryEnds ==
  ASSUME NEW o
  PROVE  Ends(o, Factory, {}, 0)
<1> DEFINE w == {"result"}
           k == {"ret"}
           s1 == Static("ret", {})
           s2 == Wrap("ret", "result")
           s3 == Give("result")
           a0 == That({}, {}, 0)
           a1 == That(k, {}, -1)
           a2 == That({}, w, 0)
           a3 == That({}, {}, 0)
<1>1. /\ "result" \in Wrappers /\ "result" \in Raw /\ "result" \in w /\ w \ {"result"} = {}
      /\ {} \in SUBSET Wrappers /\ {} \in SUBSET Known /\ w \in SUBSET Wrappers /\ {} \cup {"result"} = w
      /\ "ret" \in LocalVars /\ k \in SUBSET Known /\ {} \in SUBSET Used
      /\ "ret" \in k /\ k \subseteq {} \cup {"ret"} /\ {} \subseteq k \ {"ret"}
  BY Names, KnownNames
<1>2. -1 \in Int /\ (-1) + 1 <= 0 /\ 0 <= (-1) + 1 /\ 0 <= 0 + Slack(o)
  BY SlackIs
<1>3. a0 \in Assertions /\ a1 \in Assertions /\ a2 \in Assertions /\ a3 \in Assertions
  BY <1>1, <1>2, ThatIs
<1> HIDE DEF w, k
<1>4. s1 \in Simple /\ <<s1, a0, a1>> \in Local(o)
  BY <1>1, <1>2, StaticRule
<1>5. s2 \in AnyStep /\ <<s2, a1, a2>> \in Every(o)
  BY <1>1, <1>2, WrapRule
<1>6. s3 \in AnyStep /\ <<s3, a2, a3>> \in Every(o)
  BY <1>1, <1>2, GiveRule
<1>7. Factory = <<s1, s2, s3>>
  BY DEF Factory
<1> HIDE DEF a0, a1, a2, a3, s1, s2, s3
<1>8. Outline(Every(o), <<s1, s2, s3>>, a0, a3)
  BY <1>3, <1>4, <1>5, <1>6, LevelsOfSteps, OutlineOfThree
<1> QED
  BY <1>1, <1>7, <1>8, EndsRule DEF a0, a3

LEMMA AllocateNullEnds ==
  ASSUME NEW o
  PROVE  Ends(o, AllocateNull, {}, 0)
<1> DEFINE s == Static(NoVar, {})
           a == That({}, {}, 0)
<1>1. /\ {} \in SUBSET Known /\ {} \in SUBSET Wrappers /\ {} \in SUBSET Used
      /\ {} \subseteq {} \cup {} \cup {"options"} /\ {} \cap Raw \subseteq Forgotten(o)
  BY Names, KnownNames
<1>2. a \in Assertions /\ 0 \in Int /\ 0 <= 0 + Slack(o)
  BY <1>1, SlackIs, ThatIs
<1>3. s \in Simple /\ <<s, a, a>> \in Local(o)
  BY <1>1, <1>2, StaticOnlyRule
<1>4. AllocateNull = <<s>>
  BY DEF AllocateNull
<1> HIDE DEF a, s
<1>5. Outline(Every(o), <<s>>, a, a)
  BY <1>2, <1>3, LevelsOfSteps, OutlineOfStep
<1> QED
  BY <1>1, <1>4, <1>5, EndsRule DEF a

LEMMA SetTypeEnds ==
  ASSUME NEW o
  PROVE  Ends(o, SetType, {"this"}, 3)
<1> DEFINE h == {"this"}
           u == {"this", "enum"}
           k == {"this", "enum", "ret"}
           s1 == Static("enum", {})
           s2 == Call("ret", u)
           a0 == That(h, {}, 3)
           a1 == That(u, {}, 2)
           a2 == That(k, {}, 0)
<1>1. /\ "enum" \in LocalVars /\ "ret" \in LocalVars /\ "this" \in Used /\ "this" \in Known
  BY Names DEF Known
<1>2. /\ {} \in SUBSET Wrappers /\ {} \in SUBSET Used /\ {} \in SUBSET Known
      /\ h \in SUBSET Known /\ u \in SUBSET Known /\ k \in SUBSET Known /\ u \in SUBSET Used
      /\ u \subseteq h \cup {"enum"} /\ k \subseteq u \cup {"ret"} /\ u \subseteq u \cup {} \cup {"options"}
      /\ {} \cap Raw \subseteq Forgotten(o)
  BY <1>1, Names DEF Known
<1>3. 0 <= 3 + Slack(o) /\ 1 <= 2 + Slack(o)
  BY SlackIs
<1>4. a0 \in Assertions /\ a1 \in Assertions /\ a2 \in Assertions
  BY <1>2, ThatIs
<1> HIDE DEF h, u, k
<1>5. MayThrow \in Simple /\ <<MayThrow, a0, a0>> \in Local(o)
  BY <1>2, <1>3, MayThrowRule
<1>6. s1 \in Simple /\ <<s1, a0, a1>> \in Local(o)
  BY <1>1, <1>2, <1>3, StaticRule
<1>7. s2 \in Simple /\ <<s2, a1, a2>> \in Local(o)
  BY <1>1, <1>2, <1>3, CallRule
<1>8. SetType = <<MayThrow, s1, s2>>
  BY DEF SetType, u
<1> HIDE DEF a0, a1, a2, s1, s2
<1>9. Outline(Every(o), <<MayThrow, s1, s2>>, a0, a2)
  BY <1>4, <1>5, <1>6, <1>7, LevelsOfSteps, OutlineOfThree
<1> QED
  BY <1>2, <1>8, <1>9, EndsRule DEF a0, a2, h

\* The URI is destroyed when the call returns.
LEMMA PathCallOutline ==
  ASSUME NEW o, NEW n \in Int, 1 <= n
  PROVE  Outline(Every(o), PathCall, That({}, {}, n), That({}, {}, n - 1))
<1> DEFINE w == {"uri"}
           e == w \ {"uri"}
           a0 == That({}, {}, n)
           a1 == That({}, w, n)
           a2 == That({}, w, n - 1)
           a3 == That({}, e, n - 1)
           s1 == Call(NoVar, w)
           s2 == Destroy("uri")
           p == NewURI("uri")
           q == <<s1, s2>>
<1>1. /\ n - 1 \in Int /\ (n - 1) + 1 <= n /\ 0 <= n /\ 1 <= n + Slack(o)
  BY SlackIs
<1>2. /\ "uri" \in Scoped /\ "uri" \in Wrappers /\ "uri" \in w /\ w \in SUBSET Wrappers /\ w \in SUBSET Used
      /\ {} \in SUBSET Known /\ {} \in SUBSET Wrappers /\ e \in SUBSET Wrappers /\ e = {} /\ {} \cup {"uri"} = w
      /\ w \subseteq {} \cup w \cup {"options"} /\ {} \subseteq {}
  BY Names, KnownNames
<1>3. w \cap Raw \subseteq Forgotten(o)
  BY DEF Raw
<1>4. a0 \in Assertions /\ a1 \in Assertions /\ a2 \in Assertions /\ a3 \in Assertions
  BY <1>1, <1>2, ThatIs
<1>5. Outline(Every(o), p, a0, a1)
  BY <1>1, <1>2, NewURIOutline
<1>6. PathCall = p \o q
  BY DEF PathCall
<1> HIDE DEF w
<1>7. s1 \in Simple /\ <<s1, a1, a2>> \in Local(o)
  BY <1>1, <1>2, <1>3, CallOnlyRule
<1>8. s2 \in AnyStep /\ <<s2, a2, a3>> \in Every(o)
  BY <1>1, <1>2, DestroyRule
<1> HIDE DEF a0, a1, a2, a3, s1, s2, p, e
<1>9. Outline(Every(o), q, a1, a3)
  BY <1>4, <1>7, <1>8, LevelsOfSteps, OutlineOfTwo
<1> HIDE DEF q
<1>10. Outline(Every(o), p \o q, a0, a3)
  BY <1>5, <1>9, OutlineConcat
<1> QED
  BY <1>2, <1>6, <1>10 DEF a0, a3

LEMMA DeleteRecursiveEnds ==
  ASSUME NEW o
  PROVE  Ends(o, DeleteRecursive, {}, 4)
<1> DEFINE w == {"uri"}
           e == w \ {"uri"}
           k1 == {"defaults"}
           k2 == {"recursive"}
           u == {"uri", "recursive"}
           a0 == That({}, {}, 4)
           a1 == That({}, w, 4)
           a2 == That(k1, w, 3)
           a3 == That(k2, w, 1)
           a4 == That({}, w, 0)
           a5 == That({}, e, 0)
           s1 == Static("defaults", {})
           s2 == Call("recursive", k1)
           s3 == Call(NoVar, u)
           s4 == Destroy("uri")
           p == NewURI("uri")
           q == <<s1, s2, s3, s4>>
<1>1. 0 <= 4 + Slack(o) /\ 1 <= 3 + Slack(o) /\ 1 <= 1 + Slack(o)
  BY SlackIs
<1>2. /\ "uri" \in Scoped /\ "uri" \in Wrappers /\ "uri" \in w /\ w \in SUBSET Wrappers
      /\ {} \in SUBSET Known /\ {} \in SUBSET Wrappers /\ {} \in SUBSET Used
      /\ e \in SUBSET Wrappers /\ e = {} /\ {} \cup {"uri"} = w
      /\ "defaults" \in LocalVars /\ "recursive" \in LocalVars
      /\ k1 \in SUBSET Known /\ k2 \in SUBSET Known /\ k1 \in SUBSET Used /\ u \in SUBSET Used
  BY Names, KnownNames
<1>3. /\ k1 \subseteq {} \cup {"defaults"} /\ k1 \subseteq k1 \cup w \cup {"options"}
      /\ k2 \subseteq k1 \cup {"recursive"} /\ u \subseteq k2 \cup w \cup {"options"} /\ {} \subseteq k2
      /\ {} \subseteq {} \cup w \cup {"options"}
  OBVIOUS
<1>4. w \cap Raw \subseteq Forgotten(o)
  BY DEF Raw
<1>5. a0 \in Assertions /\ a1 \in Assertions /\ a2 \in Assertions /\ a3 \in Assertions /\ a4 \in Assertions
      /\ a5 \in Assertions
  BY <1>2, ThatIs
<1>6. Outline(Every(o), p, a0, a1)
  BY <1>2, NewURIOutline
<1> HIDE DEF w, k1, k2, u
<1>7. s1 \in Simple /\ <<s1, a1, a2>> \in Local(o)
  BY <1>1, <1>2, <1>3, <1>4, StaticRule
<1>8. s2 \in Simple /\ <<s2, a2, a3>> \in Local(o)
  BY <1>1, <1>2, <1>3, <1>4, CallRule
<1>9. s3 \in Simple /\ <<s3, a3, a4>> \in Local(o)
  BY <1>1, <1>2, <1>3, <1>4, CallOnlyRule
<1>10. s4 \in AnyStep /\ <<s4, a4, a5>> \in Every(o)
  BY <1>1, <1>2, DestroyRule
<1>11. DeleteRecursive = p \o q
  BY DEF DeleteRecursive, k1, u
<1> HIDE DEF a0, a1, a2, a3, a4, a5, s1, s2, s3, s4, p, e
<1>12. Outline(Every(o), q, a1, a5)
  BY <1>5, <1>7, <1>8, <1>9, <1>10, LevelsOfSteps, OutlineOfFour
<1> HIDE DEF q
<1>13. Outline(Every(o), p \o q, a0, a5)
  BY <1>6, <1>12, OutlineConcat
<1> QED
  BY <1>2, <1>11, <1>13, EndsRule DEF a0, a5

LEMMA OpenFileEnds ==
  ASSUME NEW o
  PROVE  Ends(o, OpenFile("result") \o <<Give("result")>>, {}, 1)
<1> DEFINE w == {"result"}
           g == Give("result")
           b == That({}, w, 0)
           c == That({}, {}, 0)
<1>1. /\ "result" \in Wrappers /\ "result" \in Raw /\ "result" \in w /\ w \ {"result"} = {}
      /\ {} \in SUBSET Wrappers /\ {} \in SUBSET Known /\ w \in SUBSET Wrappers /\ {} \cup {"result"} = w
      /\ {} \cap Raw \subseteq Forgotten(o) /\ 1 - 1 = 0
  BY Names, KnownNames
<1>2. b \in Assertions /\ c \in Assertions
  BY <1>1, ThatIs
<1>3. Outline(Every(o), OpenFile("result"), That({}, {}, 1), That({}, {} \cup {"result"}, 1 - 1))
  BY <1>1, OpenFileOutline
<1>4. Outline(Every(o), OpenFile("result"), That({}, {}, 1), b)
  BY <1>1, <1>3
<1> HIDE DEF w
<1>5. g \in AnyStep /\ <<g, b, c>> \in Every(o)
  BY <1>1, GiveRule
<1> HIDE DEF b, g
<1>6. Outline(Every(o), <<g>>, b, c)
  BY <1>2, <1>5, OutlineOfStep
<1> HIDE DEF c
<1>7. Outline(Every(o), OpenFile("result") \o <<g>>, That({}, {}, 1), c)
  BY <1>4, <1>6, OutlineConcat
<1> QED
  BY <1>1, <1>7, EndsRule DEF c, g

\* Two URIs are held at once.
LEMMA RenameFileOutline ==
  ASSUME NEW o, NEW n \in Int, 1 <= n
  PROVE  Outline(Every(o), RenameFile, That({}, {}, n), That({}, {}, n - 1))
<1> DEFINE w1 == {"origURI"}
           w2 == {"origURI", "newURI"}
           w3 == w2 \ {"newURI"}
           w4 == w3 \ {"origURI"}
           a0 == That({}, {}, n)
           a1 == That({}, w1, n)
           a2 == That({}, w2, n)
           a3 == That({}, w2, n - 1)
           a4 == That({}, w3, n - 1)
           a5 == That({}, w4, n - 1)
           s1 == Call(NoVar, w2)
           s2 == Destroy("newURI")
           s3 == Destroy("origURI")
           p1 == NewURI("origURI")
           p2 == NewURI("newURI")
           q == <<s1, s2, s3>>
<1>1. /\ n - 1 \in Int /\ (n - 1) + 1 <= n /\ 0 <= n /\ 1 <= n + Slack(o)
  BY SlackIs
<1>2. /\ "origURI" \in Scoped /\ "origURI" \in Wrappers /\ "newURI" \in Scoped /\ "newURI" \in Wrappers
      /\ w1 \in SUBSET Wrappers /\ w2 \in SUBSET Wrappers /\ w2 \in SUBSET Used
      /\ {} \in SUBSET Known /\ {} \in SUBSET Wrappers
      /\ w3 \in SUBSET Wrappers /\ w4 \in SUBSET Wrappers
  BY Names
<1>3. /\ {} \cup {"origURI"} = w1 /\ w1 \cup {"newURI"} = w2 /\ "newURI" \notin w1
      /\ "newURI" \in w2 /\ "origURI" \in w3 /\ w4 = {}
      /\ w2 \subseteq {} \cup w2 \cup {"options"} /\ {} \subseteq {}
  OBVIOUS
<1>4. w1 \cap Raw \subseteq Forgotten(o) /\ w2 \cap Raw \subseteq Forgotten(o)
  BY DEF Raw
<1>5. a0 \in Assertions /\ a1 \in Assertions /\ a2 \in Assertions /\ a3 \in Assertions /\ a4 \in Assertions
      /\ a5 \in Assertions
  BY <1>1, <1>2, ThatIs
<1>6. Outline(Every(o), p1, a0, a1)
  BY <1>1, <1>2, NewURIOutline
<1> HIDE DEF w1
<1>7. Outline(Every(o), p2, a1, That({}, w1 \cup {"newURI"}, n))
  BY <1>1, <1>2, <1>3, <1>4, NewURIOutline
<1>8. Outline(Every(o), p2, a1, a2)
  BY <1>3, <1>7
<1>9. RenameFile = p1 \o p2 \o q
  BY DEF RenameFile
<1> HIDE DEF w2
<1>10. s1 \in Simple /\ <<s1, a2, a3>> \in Local(o)
  BY <1>1, <1>2, <1>3, <1>4, CallOnlyRule
<1>11. s2 \in AnyStep /\ <<s2, a3, a4>> \in Every(o)
  BY <1>1, <1>2, <1>3, DestroyRule
<1> HIDE DEF w3
<1>12. s3 \in AnyStep /\ <<s3, a4, a5>> \in Every(o)
  BY <1>1, <1>2, <1>3, DestroyRule
<1> HIDE DEF a0, a1, a2, a3, a4, a5, s1, s2, s3, p1, p2, w4
<1>13. Outline(Every(o), q, a2, a5)
  BY <1>5, <1>10, <1>11, <1>12, LevelsOfSteps, OutlineOfThree
<1> HIDE DEF q
<1>14. Outline(Every(o), p1 \o p2, a0, a2)
  BY <1>6, <1>8, OutlineConcat
<1>15. Outline(Every(o), p1 \o p2 \o q, a0, a5)
  BY <1>13, <1>14, OutlineConcat
<1> QED
  BY <1>3, <1>9, <1>15 DEF a0, a5

LEMMA FileSizeEnds ==
  ASSUME NEW o
  PROVE  Ends(o, FileSize, {}, 3)
<1> DEFINE w == {"uri"}
           e == w \ {"uri"}
           k == {"status"}
           a0 == That({}, {}, 3)
           a1 == That({}, w, 3)
           a2 == That(k, w, 1)
           a3 == That({}, w, 0)
           a4 == That({}, e, 0)
           s1 == Call("status", w)
           s2 == Call(NoVar, k)
           s3 == Destroy("uri")
           p == NewURI("uri")
           q == <<s1, s2, s3>>
<1>1. 1 <= 3 + Slack(o) /\ 1 <= 1 + Slack(o)
  BY SlackIs
<1>2. /\ "uri" \in Scoped /\ "uri" \in Wrappers /\ "uri" \in w /\ w \in SUBSET Wrappers
      /\ {} \in SUBSET Known /\ {} \in SUBSET Wrappers
      /\ e \in SUBSET Wrappers /\ e = {} /\ {} \cup {"uri"} = w
      /\ "status" \in LocalVars /\ k \in SUBSET Known /\ k \in SUBSET Used /\ w \in SUBSET Used
  BY Names, KnownNames
<1>3. /\ w \subseteq {} \cup w \cup {"options"} /\ k \subseteq {} \cup {"status"}
      /\ k \subseteq k \cup w \cup {"options"} /\ {} \subseteq k
  OBVIOUS
<1>4. w \cap Raw \subseteq Forgotten(o)
  BY DEF Raw
<1>5. a0 \in Assertions /\ a1 \in Assertions /\ a2 \in Assertions /\ a3 \in Assertions /\ a4 \in Assertions
  BY <1>2, ThatIs
<1>6. Outline(Every(o), p, a0, a1)
  BY <1>2, NewURIOutline
<1>7. FileSize = p \o q
  BY DEF FileSize
<1> HIDE DEF w, k
<1>8. s1 \in Simple /\ <<s1, a1, a2>> \in Local(o)
  BY <1>1, <1>2, <1>3, <1>4, CallRule
<1>9. s2 \in Simple /\ <<s2, a2, a3>> \in Local(o)
  BY <1>1, <1>2, <1>3, <1>4, CallOnlyRule
<1>10. s3 \in AnyStep /\ <<s3, a3, a4>> \in Every(o)
  BY <1>2, DestroyRule
<1> HIDE DEF a0, a1, a2, a3, a4, s1, s2, s3, p, e
<1>11. Outline(Every(o), q, a1, a4)
  BY <1>5, <1>8, <1>9, <1>10, LevelsOfSteps, OutlineOfThree
<1> HIDE DEF q
<1>12. Outline(Every(o), p \o q, a0, a4)
  BY <1>6, <1>11, OutlineConcat
<1> QED
  BY <1>2, <1>7, <1>12, EndsRule DEF a0, a4

\* A turn of the loop costs the references to two results and their classes.
LEMMA ListPathEnds == Ends("listPath", ListPath, {}, 3)
<1> DEFINE o == "listPath"
           w == {"uri"}
           e == w \ {"uri"}
           k == {"list"}
           i == {"uriObj"}
           ki == {"list", "uriObj"}
           a0 == That({}, {}, 3)
           a1 == That({}, w, 3)
           a2 == That(k, w, 1)
           a3 == That(k, w, 0)
           a4 == That(k, e, 0)
           b0 == That(k, w, 4)
           b1 == That(ki, w, 2)
           s1 == Call("list", w)
           s2 == Call(NoVar, k)
           t1 == Call("uriObj", k)
           t2 == Call("uriString", i)
           body == <<t1, t2, MayThrow>>
           s3 == Loop(body)
           s4 == Destroy("uri")
           p == NewURI("uri")
           q == <<s1, s2, s3, s4>>
<1>1. /\ 1 <= 3 + Slack(o) /\ 1 <= 1 + Slack(o) /\ 1 <= 4 + Slack(o) /\ 1 <= 2 + Slack(o) /\ 0 <= 0 + Slack(o)
      /\ TurnPrice(o) = 4 /\ 0 + 4 = 4
  BY SlackIs DEF TurnPrice
<1>2. /\ "uri" \in Scoped /\ "uri" \in Wrappers /\ "uri" \in w /\ w \in SUBSET Wrappers
      /\ {} \in SUBSET Known /\ {} \in SUBSET Wrappers
      /\ e \in SUBSET Wrappers /\ e = {} /\ {} \cup {"uri"} = w
      /\ "list" \in LocalVars /\ "uriObj" \in LocalVars /\ "uriString" \in LocalVars
      /\ k \in SUBSET Known /\ k \in SUBSET Used /\ w \in SUBSET Used /\ i \in SUBSET Used
      /\ ki \in SUBSET Known
  BY Names, KnownNames
<1>3. /\ w \subseteq {} \cup w \cup {"options"} /\ k \subseteq {} \cup {"list"}
      /\ k \subseteq k \cup w \cup {"options"} /\ k \subseteq k
      /\ ki \subseteq k \cup {"uriObj"} /\ i \subseteq ki \cup w \cup {"options"} /\ k \subseteq ki \cup {"uriString"}
  OBVIOUS
<1>4. w \cap Raw \subseteq Forgotten(o)
  BY DEF Raw
<1>5. /\ a0 \in Assertions /\ a1 \in Assertions /\ a2 \in Assertions /\ a3 \in Assertions /\ a4 \in Assertions
      /\ b0 \in Assertions /\ b1 \in Assertions
  BY <1>2, ThatIs
<1>6. Outline(Every(o), p, a0, a1)
  BY <1>2, NewURIOutline
<1>7. ListPath = p \o q
  BY DEF ListPath
<1> HIDE DEF w, k, i, ki, o
<1>8. s1 \in Simple /\ <<s1, a1, a2>> \in Local(o)
  BY <1>1, <1>2, <1>3, <1>4, CallRule
<1>9. s2 \in Simple /\ <<s2, a2, a3>> \in Local(o)
  BY <1>1, <1>2, <1>3, <1>4, CallOnlyRule
<1>10. t1 \in Simple /\ <<t1, b0, b1>> \in Local(o)
  BY <1>1, <1>2, <1>3, <1>4, CallRule
<1>11. t2 \in Simple /\ <<t2, b1, a3>> \in Local(o)
  BY <1>1, <1>2, <1>3, <1>4, CallRule
<1>12. MayThrow \in Simple /\ <<MayThrow, a3, a3>> \in Local(o)
  BY <1>1, <1>2, <1>4, MayThrowRule
<1> HIDE DEF t1, t2
<1>13. body \in Seq(Inner)
  BY <1>10, <1>11, <1>12, PlainParts
<1>14. Outline(Choice(o), body, b0, a3)
  BY <1>5, <1>10, <1>11, <1>12, LevelsOfSteps, OutlineOfThree
<1> HIDE DEF body
<1>15. Outline(Choice(o), body, That(k, w, 0 + TurnPrice(o)), That(k, w, 0))
  BY <1>1, <1>14
<1>16. s3 \in AnyStep /\ <<s3, a3, a3>> \in Every(o)
  BY <1>2, <1>13, <1>15, LoopRule
<1>17. s4 \in AnyStep /\ <<s4, a3, a4>> \in Every(o)
  BY <1>2, <1>3, DestroyRule
<1> HIDE DEF a0, a1, a2, a3, a4, s1, s2, s3, s4, p, e
<1>18. Outline(Every(o), q, a1, a4)
  BY <1>5, <1>8, <1>9, <1>16, <1>17, LevelsOfSteps, OutlineOfFour
<1> HIDE DEF q
<1>19. Outline(Every(o), p \o q, a0, a4)
  BY <1>6, <1>18, OutlineConcat
<1> QED
  BY <1>2, <1>7, <1>19, EndsRule DEF a0, a4, o

\* Four configuration keys are set; the strings of each are destroyed.
LEMMA ConnectEnds ==
  ASSUME NEW o
  PROVE  Ends(o, Connect, {}, 0)
<1> DEFINE ww == {"jKeyObject"}
           wk == {"jKeyObject", "jValueString"}
           w5 == wk \ {"jValueString"}
           w6 == w5 \ {"jKeyObject"}
           k1 == {"key"}
           k2 == {"value"}
           a0 == That({}, {}, 0)
           a1 == That(k1, {}, -1)
           a2 == That({}, ww, 0)
           a3 == That(k2, ww, -1)
           a4 == That({}, wk, 0)
           a5 == That({}, w5, 0)
           a6 == That({}, w6, 0)
           s1 == Static("key", {})
           s2 == Wrap("key", "jKeyObject")
           s3 == Allocate("value")
           s4 == Wrap("value", "jValueString")
           s5 == Static(NoVar, wk)
           s6 == Destroy("jValueString")
           s7 == Destroy("jKeyObject")
           s8 == Static(NoVar, {})
           p == <<s1, s2, s3, s4>>
           q == <<s5, s6, s7>>
           s == SetStringConstant
<1>1. 0 <= 0 + Slack(o) /\ -1 \in Int /\ (-1) + 1 <= 0 /\ 0 <= (-1) + 1
  BY SlackIs
<1>2. /\ "jKeyObject" \in Scoped /\ "jKeyObject" \in Wrappers
      /\ "jValueString" \in Scoped /\ "jValueString" \in Wrappers
      /\ "key" \in LocalVars /\ "value" \in LocalVars
      /\ k1 \in SUBSET Known /\ k2 \in SUBSET Known /\ {} \in SUBSET Known
      /\ {} \in SUBSET Wrappers /\ ww \in SUBSET Wrappers /\ wk \in SUBSET Wrappers
      /\ w5 \in SUBSET Wrappers /\ w6 \in SUBSET Wrappers /\ {} \in SUBSET Used /\ wk \in SUBSET Used
  BY Names, KnownNames
<1>3. /\ k1 \subseteq {} \cup {"key"} /\ "key" \in k1 /\ {} \subseteq k1 \ {"key"}
      /\ k2 \subseteq {} \cup {"value"} /\ "value" \in k2 /\ {} \subseteq k2 \ {"value"}
      /\ {} \cup {"jKeyObject"} = ww /\ ww \cup {"jValueString"} = wk /\ "jValueString" \notin ww
      /\ "jValueString" \in wk /\ "jKeyObject" \in w5 /\ w6 = {}
      /\ wk \subseteq {} \cup wk \cup {"options"} /\ {} \subseteq {} \cup {} \cup {"options"} /\ {} \subseteq {}
      /\ {} \cap Raw \subseteq Forgotten(o)
  OBVIOUS
<1>4. ww \cap Raw \subseteq Forgotten(o) /\ wk \cap Raw \subseteq Forgotten(o)
  BY DEF Raw
<1>5. /\ a0 \in Assertions /\ a1 \in Assertions /\ a2 \in Assertions /\ a3 \in Assertions /\ a4 \in Assertions
      /\ a5 \in Assertions /\ a6 \in Assertions
  BY <1>1, <1>2, ThatIs
<1>6. SetStringConstant = p \o q
  <2>1. SetStringConstant = <<s1, s2, s3, s4, s5, s6, s7>>
    BY DEF SetStringConstant
  <2> HIDE DEF s1, s2, s3, s4, s5, s6, s7
  <2> QED
    BY <2>1
<1> HIDE DEF k1, k2, ww, wk
<1>7. s1 \in Simple /\ <<s1, a0, a1>> \in Local(o)
  BY <1>1, <1>2, <1>3, StaticRule
<1>8. s2 \in AnyStep /\ <<s2, a1, That({}, {} \cup {"jKeyObject"}, 0)>> \in Every(o)
  BY <1>1, <1>2, <1>3, WrapRule
<1>9. s2 \in AnyStep /\ <<s2, a1, a2>> \in Every(o)
  BY <1>3, <1>8
<1>10. s3 \in Simple /\ <<s3, a2, a3>> \in Local(o)
  BY <1>1, <1>2, <1>3, <1>4, AllocateRule
<1>11. s4 \in AnyStep /\ <<s4, a3, That({}, ww \cup {"jValueString"}, 0)>> \in Every(o)
  BY <1>1, <1>2, <1>3, WrapRule
<1>12. s4 \in AnyStep /\ <<s4, a3, a4>> \in Every(o)
  BY <1>3, <1>11
<1>13. s5 \in Simple /\ <<s5, a4, a4>> \in Local(o)
  BY <1>1, <1>2, <1>3, <1>4, StaticOnlyRule
<1>14. s6 \in AnyStep /\ <<s6, a4, a5>> \in Every(o)
  BY <1>2, <1>3, DestroyRule
<1> HIDE DEF w5
<1>15. s7 \in AnyStep /\ <<s7, a5, a6>> \in Every(o)
  BY <1>2, <1>3, DestroyRule
<1>16. s8 \in Simple /\ <<s8, a0, a0>> \in Local(o)
  BY <1>1, <1>2, <1>3, StaticOnlyRule
<1>17. Connect = s \o s \o s \o s \o <<s8>>
  BY DEF Connect
<1>18. a6 = a0
  BY <1>3
<1> HIDE DEF a0, a1, a2, a3, a4, a5, a6, s1, s2, s3, s4, s5, s6, s7, s8, w6
<1>19. Outline(Every(o), p, a0, a4)
  BY <1>5, <1>7, <1>9, <1>10, <1>12, LevelsOfSteps, OutlineOfFour
<1>20. Outline(Every(o), q, a4, a0)
  BY <1>5, <1>13, <1>14, <1>15, <1>18, LevelsOfSteps, OutlineOfThree
<1>21. Outline(Every(o), <<s8>>, a0, a0)
  BY <1>5, <1>16, LevelsOfSteps, OutlineOfStep
<1> HIDE DEF p, q
<1>22. Outline(Every(o), s, a0, a0)
  BY <1>6, <1>19, <1>20, OutlineConcat
<1> HIDE DEF s
<1>23. Outline(Every(o), s \o s, a0, a0)
  BY <1>22, OutlineConcat
<1>24. Outline(Every(o), s \o s \o s, a0, a0)
  BY <1>22, <1>23, OutlineConcat
<1>25. Outline(Every(o), s \o s \o s \o s, a0, a0)
  BY <1>22, <1>24, OutlineConcat
<1>26. Outline(Every(o), s \o s \o s \o s \o <<s8>>, a0, a0)
  BY <1>21, <1>25, OutlineConcat
<1> QED
  BY <1>2, <1>17, <1>26, EndsRule DEF a0

\* Three strings are held at once, and one more reference to the result.
LEMMA NewURI3Ends == Ends("newURI3", NewURI3, {}, 0)
<1> DEFINE o == "newURI3"
           w == {"result"}
           k1 == {"jscheme"}
           k2 == {"jscheme", "jauthority"}
           k3 == {"jscheme", "jauthority", "jpath"}
           k4 == {"jscheme", "jauthority", "jpath", "retObj"}
           k5 == {"jauthority", "jpath", "retObj"}
           k6 == {"jpath", "retObj"}
           k7 == {"retObj"}
           a0 == That({}, {}, 0)
           a1 == That(k1, {}, -1)
           a2 == That(k2, {}, -2)
           a3 == That(k3, {}, -3)
           a4 == That(k4, {}, -4)
           a5 == That(k5, {}, -3)
           a6 == That(k6, {}, -2)
           a7 == That(k7, {}, -1)
           a8 == That({}, w, 0)
           s1 == Allocate("jscheme")
           s2 == Allocate("jauthority")
           s3 == Allocate("jpath")
           s4 == Static("retObj", k3)
           s5 == Drop("jscheme")
           s6 == Drop("jauthority")
           s7 == Drop("jpath")
           s8 == Wrap("retObj", "result")
           s9 == Give("result")
           p == <<s1, s2, s3, s4>>
           q == <<s5, s6, s7, s8>>
           r == <<s9>>
<1>1. /\ Slack(o) = 3 /\ -1 \in Int /\ -2 \in Int /\ -3 \in Int /\ -4 \in Int
      /\ 0 <= 0 + 3 /\ 0 <= (-1) + 3 /\ 0 <= (-2) + 3 /\ 0 <= (-3) + 3
      /\ (-1) + 1 <= 0 /\ (-2) + 1 <= -1 /\ (-3) + 1 <= -2 /\ (-4) + 1 <= -3
      /\ -3 <= (-4) + 1 /\ -2 <= (-3) + 1 /\ -1 <= (-2) + 1 /\ 0 <= (-1) + 1
  BY DEF Slack
<1>2. /\ "result" \in Wrappers /\ "result" \in Raw /\ {} \in SUBSET Wrappers /\ w \in SUBSET Wrappers
      /\ "jscheme" \in LocalVars /\ "jauthority" \in LocalVars /\ "jpath" \in LocalVars /\ "retObj" \in LocalVars
      /\ {} \in SUBSET Known /\ {} \cap Raw \subseteq Forgotten(o)
  BY Names, KnownNames
<1>3. /\ k1 \in SUBSET Known /\ k2 \in SUBSET Known /\ k3 \in SUBSET Known /\ k4 \in SUBSET Known
      /\ k5 \in SUBSET Known /\ k6 \in SUBSET Known /\ k7 \in SUBSET Known /\ k3 \in SUBSET Used
  BY <1>2, Names DEF Known
<1>4. /\ k1 \subseteq {} \cup {"jscheme"} /\ k2 \subseteq k1 \cup {"jauthority"} /\ k3 \subseteq k2 \cup {"jpath"}
      /\ k4 \subseteq k3 \cup {"retObj"} /\ k3 \subseteq k3 \cup {} \cup {"options"}
      /\ "jscheme" \in k4 /\ k5 \subseteq k4 \ {"jscheme"}
      /\ "jauthority" \in k5 /\ k6 \subseteq k5 \ {"jauthority"}
      /\ "jpath" \in k6 /\ k7 \subseteq k6 \ {"jpath"}
      /\ "retObj" \in k7 /\ {} \subseteq k7 \ {"retObj"} /\ {} \subseteq {}
      /\ {} \cup {"result"} = w /\ "result" \in w /\ w \ {"result"} = {}
  OBVIOUS
<1>5. /\ a0 \in Assertions /\ a1 \in Assertions /\ a2 \in Assertions /\ a3 \in Assertions /\ a4 \in Assertions
      /\ a5 \in Assertions /\ a6 \in Assertions /\ a7 \in Assertions /\ a8 \in Assertions
  BY <1>1, <1>2, <1>3, ThatIs
<1>6. NewURI3 = p \o q \o r
  <2>1. NewURI3 = <<s1, s2, s3, s4, s5, s6, s7, s8, s9>>
    BY DEF NewURI3
  <2> HIDE DEF s1, s2, s3, s4, s5, s6, s7, s8, s9
  <2> QED
    BY <2>1
<1> HIDE DEF k1, k2, k3, k4, k5, k6, k7, w, o
<1>7. s1 \in Simple /\ <<s1, a0, a1>> \in Local(o)
  BY <1>1, <1>2, <1>3, <1>4, AllocateRule
<1>8. s2 \in Simple /\ <<s2, a1, a2>> \in Local(o)
  BY <1>1, <1>2, <1>3, <1>4, AllocateRule
<1>9. s3 \in Simple /\ <<s3, a2, a3>> \in Local(o)
  BY <1>1, <1>2, <1>3, <1>4, AllocateRule
<1>10. s4 \in Simple /\ <<s4, a3, a4>> \in Local(o)
  BY <1>1, <1>2, <1>3, <1>4, StaticRule
<1>11. s5 \in Simple /\ <<s5, a4, a5>> \in Local(o)
  BY <1>1, <1>2, <1>3, <1>4, DropRule
<1>12. s6 \in Simple /\ <<s6, a5, a6>> \in Local(o)
  BY <1>1, <1>2, <1>3, <1>4, DropRule
<1>13. s7 \in Simple /\ <<s7, a6, a7>> \in Local(o)
  BY <1>1, <1>2, <1>3, <1>4, DropRule
<1>14. s8 \in AnyStep /\ <<s8, a7, That({}, {} \cup {"result"}, 0)>> \in Every(o)
  BY <1>1, <1>2, <1>3, <1>4, WrapRule
<1>15. s8 \in AnyStep /\ <<s8, a7, a8>> \in Every(o)
  BY <1>4, <1>14
<1>16. s9 \in AnyStep /\ <<s9, a8, a0>> \in Every(o)
  BY <1>2, <1>4, GiveRule
<1> HIDE DEF a0, a1, a2, a3, a4, a5, a6, a7, a8, s1, s2, s3, s4, s5, s6, s7, s8, s9
<1>17. Outline(Every(o), p, a0, a4)
  BY <1>5, <1>7, <1>8, <1>9, <1>10, LevelsOfSteps, OutlineOfFour
<1>18. Outline(Every(o), q, a4, a8)
  BY <1>5, <1>11, <1>12, <1>13, <1>15, LevelsOfSteps, OutlineOfFour
<1>19. Outline(Every(o), r, a8, a0)
  BY <1>5, <1>16, OutlineOfStep
<1> HIDE DEF p, q, r
<1>20. Outline(Every(o), p \o q, a0, a8)
  BY <1>17, <1>18, OutlineConcat
<1>21. Outline(Every(o), p \o q \o r, a0, a0)
  BY <1>19, <1>20, OutlineConcat
<1> QED
  BY <1>2, <1>6, <1>21, EndsRule DEF a0, o

\* origFile is never deleted, and newFile is returned; a chunk costs a call or two.
LEMMA OpenFileForAppendEnds == Ends("openFileForAppend", OpenFileForAppend, {}, 5)
<1> DEFINE o == "openFileForAppend"
           w1 == {"origFile"}
           w2 == {"origFile", "newFile"}
           a0 == That({}, {}, 5)
           a1 == That({}, w1, 4)
           a2 == That({}, w2, 3)
           a3 == That({}, w2, 2)
           a4 == That({}, w2, 1)
           a5 == That({}, w2, 0)
           a6 == That({}, {}, 0)
           write == Write("newFile")
           m == Maybe(write)
           read == Read("origFile")
           turn == read \o <<m>>
           l == Loop(turn)
           c == Call(NoVar, w1)
           g == Give("newFile")
           o1 == OpenFile("origFile")
           o2 == OpenFile("newFile")
           f == <<MayThrow>>
           last == <<l>>
           q == <<c, g>>
<1>1. /\ 0 <= 5 + Slack(o) /\ 1 <= 1 + Slack(o) /\ TurnPrice(o) = 2 /\ 1 + 2 = 3
      /\ 5 - 1 = 4 /\ 4 - 1 = 3 /\ 3 - 1 = 2 /\ 2 - 1 = 1
  BY SlackIs DEF TurnPrice
<1>2. /\ "origFile" \in Wrappers /\ "newFile" \in Wrappers /\ "origFile" \in Used /\ "newFile" \in Used
      /\ "newFile" \in Raw
      /\ {} \in SUBSET Known /\ {} \in SUBSET Wrappers /\ w1 \in SUBSET Wrappers /\ w2 \in SUBSET Wrappers
      /\ w1 \in SUBSET Used
  BY Names, KnownNames
<1>3. /\ {} \cup {"origFile"} = w1 /\ w1 \cup {"newFile"} = w2 /\ "newFile" \notin w1 /\ "origFile" \notin {}
      /\ "origFile" # "uri" /\ "newFile" # "uri" /\ "uri" \notin {} /\ "uri" \notin w1
      /\ "origFile" \in {} \cup w2 /\ "newFile" \in {} \cup w2 /\ "jBuf" \notin {} /\ "newFile" \in w2
      /\ w1 \subseteq {} \cup w2 \cup {"options"} /\ {} \subseteq {}
  OBVIOUS
<1>4. /\ {} \cap Raw \subseteq Forgotten(o) /\ w1 \cap Raw \subseteq Forgotten(o) /\ w2 \cap Raw \subseteq Forgotten(o)
      /\ w2 \ {"newFile"} \subseteq Forgotten(o) \ {"newFile"}
  BY DEF Forgotten
<1>5. /\ a0 \in Assertions /\ a1 \in Assertions /\ a2 \in Assertions /\ a3 \in Assertions /\ a4 \in Assertions
      /\ a5 \in Assertions /\ a6 \in Assertions
  BY <1>2, ThatIs
<1>6. OpenFileForAppend = f \o o1 \o o2 \o turn \o last \o q
  BY DEF OpenFileForAppend
<1> HIDE DEF w1, w2, o
<1>7. MayThrow \in Simple /\ <<MayThrow, a0, a0>> \in Local(o)
  BY <1>1, <1>2, <1>4, MayThrowRule
<1>8. Outline(Every(o), o1, a0, That({}, {} \cup {"origFile"}, 5 - 1))
  BY <1>2, <1>3, <1>4, OpenFileOutline
<1>9. Outline(Every(o), o1, a0, a1)
  BY <1>1, <1>3, <1>8
<1>10. Outline(Every(o), o2, a1, That({}, w1 \cup {"newFile"}, 4 - 1))
  <2>1. "newFile" \in Wrappers /\ w1 \in SUBSET Wrappers /\ 4 \in Int /\ 1 <= 4
    BY <1>2
  <2>2. "newFile" \notin w1 /\ "newFile" # "uri" /\ "uri" \notin w1
    BY <1>3
  <2>3. w1 \cap Raw \subseteq Forgotten(o)
    BY <1>4
  <2> QED
    BY <2>1, <2>2, <2>3, OpenFileOutline
<1>11. Outline(Every(o), o2, a1, a2)
  BY <1>1, <1>3, <1>10
<1>12. read \in Seq(Simple) /\ Outline(Local(o), read, a2, That({}, w2, 3 - 1))
  BY <1>2, <1>3, <1>4, ReadOutline
<1>13. Outline(Local(o), read, a2, a3)
  BY <1>1, <1>12
<1>14. write \in Seq(Simple) /\ Outline(Local(o), write, a3, That({}, w2, 2 - 1))
  BY <1>2, <1>3, <1>4, WriteOutline
<1>15. Outline(Local(o), write, a3, a4)
  BY <1>1, <1>14
<1> HIDE DEF write, read
<1>16. m \in Inner /\ <<m, a3, a4>> \in Choice(o)
  <2>1. write \in Seq(Simple) /\ {} \in SUBSET Known /\ {} \subseteq {} /\ w2 \in SUBSET Wrappers
    BY <1>2, <1>3, <1>14
  <2>2. 2 \in Int /\ 1 \in Int /\ 1 <= 2
    OBVIOUS
  <2> QED
    BY <1>15, <2>1, <2>2, MaybeRule
<1>17. c \in Simple /\ <<c, a4, a5>> \in Local(o)
  BY <1>1, <1>2, <1>3, <1>4, CallOnlyRule
<1>18. g \in AnyStep /\ <<g, a5, a6>> \in Every(o)
  BY <1>2, <1>3, <1>4, GiveRule
<1> HIDE DEF m
<1>19. turn \in Seq(Inner)
  <2>1. read \in Seq(Inner) /\ <<m>> \in Seq(Inner)
    BY <1>12, <1>16, SeqMonotonic, PlainParts
  <2> QED
    BY <2>1, ConcatProperties
<1>20. Outline(Choice(o), turn, a2, a4)
  <2>1. Outline(Choice(o), read, a2, a3)
    BY <1>13, LevelsOfSteps, OutlineMonotonic
  <2>2. Outline(Choice(o), <<m>>, a3, a4)
    BY <1>5, <1>16, LevelsOfSteps, OutlineOfStep
  <2> HIDE DEF a2, a3, a4
  <2> QED
    BY <2>1, <2>2, OutlineConcat
<1> HIDE DEF turn
<1>21. Outline(Choice(o), turn, That({}, w2, 1 + TurnPrice(o)), That({}, w2, 1))
  BY <1>1, <1>20
<1>22. l \in AnyStep /\ <<l, a4, a4>> \in Every(o)
  BY <1>2, <1>19, <1>21, LoopRule
<1>23. Outline(Every(o), turn, a2, a4)
  BY <1>20, LevelsOfSteps, OutlineMonotonic
<1> HIDE DEF a0, a1, a2, a3, a4, a5, a6, l, c, g, o1, o2
<1>24. Outline(Every(o), f, a0, a0)
  BY <1>5, <1>7, LevelsOfSteps, OutlineOfStep
<1>25. Outline(Every(o), last, a4, a4)
  BY <1>5, <1>22, OutlineOfStep
<1>26. Outline(Every(o), q, a4, a6)
  BY <1>5, <1>17, <1>18, LevelsOfSteps, OutlineOfTwo
<1> HIDE DEF f, last, q
<1>27. Outline(Every(o), f \o o1, a0, a1)
  BY <1>9, <1>24, OutlineConcat
<1>28. Outline(Every(o), f \o o1 \o o2, a0, a2)
  BY <1>11, <1>27, OutlineConcat
<1>29. Outline(Every(o), f \o o1 \o o2 \o turn, a0, a4)
  BY <1>23, <1>28, OutlineConcat
<1>30. Outline(Every(o), f \o o1 \o o2 \o turn \o last, a0, a4)
  BY <1>25, <1>29, OutlineConcat
<1>31. Outline(Every(o), f \o o1 \o o2 \o turn \o last \o q, a0, a6)
  BY <1>26, <1>30, OutlineConcat
<1> QED
  BY <1>2, <1>6, <1>31, EndsRule DEF a0, a6, o

\* Operations on an object: its reference is in use as long as it takes.
LEMMA OneCall ==
  ASSUME NEW o, NEW h \in SUBSET {"this"}, NEW n \in Int, 1 <= n
  PROVE  /\ Call(NoVar, {"this"}) \in Simple
         /\ <<Call(NoVar, {"this"}), That({"this"}, {}, n), That(h, {}, n - 1)>> \in Local(o)
<1> DEFINE t == {"this"}
           x == Call(NoVar, t)
<1>1. n - 1 \in Int /\ (n - 1) + 1 <= n /\ 1 <= n + Slack(o)
  BY SlackIs
<1>2. /\ t \in SUBSET Known /\ h \in SUBSET Known /\ t \in SUBSET Used /\ {} \in SUBSET Wrappers
      /\ h \subseteq t /\ t \subseteq t \cup {} \cup {"options"} /\ {} \cap Raw \subseteq Forgotten(o)
  BY Names, KnownNames
<1> HIDE DEF t
<1>3. x \in Simple /\ <<x, That(t, {}, n), That(h, {}, n - 1)>> \in Local(o)
  BY <1>1, <1>2, CallOnlyRule
<1> QED
  BY <1>3 DEF t

LEMMA CompleteAppendEnds ==
  ASSUME NEW o
  PROVE  Ends(o, CompleteAppend, {"this"}, 3)
<1> DEFINE t == {"this"}
           c == Call(NoVar, t)
           f == <<MayThrow, c>>
           a0 == That(t, {}, 3)
           a1 == That({}, {}, 2)
           a2 == That({}, {}, 1)
           a3 == That({}, {}, 0)
<1>1. 0 <= 3 + Slack(o) /\ 3 - 1 = 2 /\ 2 - 1 = 1 /\ 1 - 1 = 0
  BY SlackIs
<1>2. /\ t \in SUBSET Known /\ {} \in SUBSET Known /\ {} \in SUBSET Wrappers
      /\ {} \in SUBSET t /\ {} \cap Raw \subseteq Forgotten(o)
  BY KnownNames
<1>3. a0 \in Assertions /\ a1 \in Assertions /\ a2 \in Assertions /\ a3 \in Assertions
  BY <1>2, ThatIs
<1>4. c \in Simple /\ <<c, a0, That({}, {}, 3 - 1)>> \in Local(o)
  BY <1>2, OneCall
<1>5. c \in Simple /\ <<c, a0, a1>> \in Local(o)
  BY <1>1, <1>4
<1>6. Outline(Every(o), PathCall, a1, That({}, {}, 2 - 1))
  BY PathCallOutline
<1>7. Outline(Every(o), PathCall, a1, a2)
  BY <1>1, <1>6
<1>8. Outline(Every(o), RenameFile, a2, That({}, {}, 1 - 1))
  BY RenameFileOutline
<1>9. Outline(Every(o), RenameFile, a2, a3)
  BY <1>1, <1>8
<1>10. CompleteAppend = f \o PathCall \o RenameFile
  BY DEF CompleteAppend
<1> HIDE DEF t
<1>11. MayThrow \in Simple /\ <<MayThrow, a0, a0>> \in Local(o)
  BY <1>1, <1>2, MayThrowRule
<1> HIDE DEF c, a0, a1, a2, a3
<1>12. Outline(Every(o), f, a0, a1)
  BY <1>3, <1>5, <1>11, LevelsOfSteps, OutlineOfTwo
<1> HIDE DEF f
<1>13. Outline(Every(o), f \o PathCall, a0, a2)
  BY <1>7, <1>12, OutlineConcat
<1>14. Outline(Every(o), f \o PathCall \o RenameFile, a0, a3)
  BY <1>9, <1>13, OutlineConcat
<1> QED
  BY <1>2, <1>10, <1>14, EndsRule DEF a0, a3, t

LEMMA StreamEnds ==
  ASSUME NEW o
  PROVE  /\ Ends(o, Read("this"), {"this"}, 1)
         /\ Ends(o, Write("this"), {"this"}, 1)
         /\ Ends(o, <<Call(NoVar, {"this"})>>, {"this"}, 1)
<1> DEFINE t == {"this"}
           a == That(t, {}, 1)
           b == That(t, {}, 0)
           x == Call(NoVar, t)
<1>1. /\ "this" \in Used /\ t \in SUBSET Known /\ {} \in SUBSET Wrappers
      /\ "this" \in t \cup {} /\ "jBuf" \notin t /\ {} \cap Raw \subseteq Forgotten(o) /\ 1 - 1 = 0 /\ t \in SUBSET t
  BY Names, KnownNames
<1>2. a \in Assertions /\ b \in Assertions
  BY <1>1, ThatIs
<1>3. x \in Simple /\ <<x, a, That(t, {}, 1 - 1)>> \in Local(o)
  BY <1>1, OneCall
<1>4. x \in Simple /\ <<x, a, b>> \in Local(o)
  BY <1>1, <1>3
<1> HIDE DEF t
<1>5. /\ Outline(Local(o), Read("this"), a, That(t, {}, 1 - 1))
      /\ Outline(Local(o), Write("this"), a, That(t, {}, 1 - 1))
  <2> DEFINE n == 1
             w == {}
  <2>1. n \in Int /\ 1 <= n /\ w \in SUBSET Wrappers /\ "this" \in t \cup w /\ w \cap Raw \subseteq Forgotten(o)
    BY <1>1
  <2> HIDE DEF n, w
  <2>2. /\ Outline(Local(o), Read("this"), That(t, w, n), That(t, w, n - 1))
        /\ Outline(Local(o), Write("this"), That(t, w, n), That(t, w, n - 1))
    BY <1>1, <2>1, ReadOutline, WriteOutline
  <2> QED
    BY <2>2 DEF n, w
<1>6. Outline(Local(o), Read("this"), a, b) /\ Outline(Local(o), Write("this"), a, b)
  BY <1>1, <1>5
<1> HIDE DEF a, b, x
<1>7. Outline(Every(o), Read("this"), a, b) /\ Outline(Every(o), Write("this"), a, b)
  BY <1>6, LevelsOfSteps, OutlineMonotonic
<1>8. Outline(Every(o), <<x>>, a, b)
  BY <1>2, <1>4, LevelsOfSteps, OutlineOfStep
<1> QED
  BY <1>1, <1>7, <1>8, EndsRule DEF a, b, t, x

LEMMA PathEnds ==
  ASSUME NEW o
  PROVE  Ends(o, PathCall, {}, 1) /\ Ends(o, RenameFile, {}, 1)
<1>1. 1 - 1 = 0 /\ {} \in SUBSET Known
  BY KnownNames
<1>2. /\ Outline(Every(o), PathCall, That({}, {}, 1), That({}, {}, 1 - 1))
      /\ Outline(Every(o), RenameFile, That({}, {}, 1), That({}, {}, 1 - 1))
  BY PathCallOutline, RenameFileOutline
<1> QED
  BY <1>1, <1>2, EndsRule

\* What an operation starts with: the reference of the object it is called on, and the
\* price that its work has when the loop makes no turn.
Given(o) == IF Operations[o].on = NoVar THEN {} ELSE {"this"}
StartPrice(o) ==
  CASE o \in {"newURI", "newURI3", "getOptions", "allocate", "allocateNull", "connect"} -> 0
    [] o \in {"setType", "fileSize", "completeAppend", "listPath"} -> 3
    [] o = "deleteRecursive" -> 4
    [] o = "openFileForAppend" -> 5
    [] OTHER -> 1

LEMMA OperationsEnd ==
  ASSUME NEW name \in DOMAIN Operations
  PROVE  Ends(name, Program(name), Given(name), StartPrice(name))
<1> DEFINE Fine(o) == Ends(o, Program(o), Given(o), StartPrice(o))
<1>0. name \in {"newURI", "newURI3", "getOptions", "allocate", "allocateNull", "setType", "connect", "pathCall",
                "deleteRecursive", "openFile", "createFile", "renameFile", "fileSize", "listPath",
                "openFileForAppend", "completeAppend", "read", "write", "inCall", "outCall"}
  BY DEF Operations
<1>1. Fine("newURI")
  <2>1. Program("newURI") = NewURI("result") \o <<Give("result")>>
    BY DEF Program, Operations, Operation
  <2>2. Given("newURI") = {} /\ StartPrice("newURI") = 0
    BY DEF Given, StartPrice, Operations, Operation, NoVar
  <2> QED
    BY <2>1, <2>2, NewURIEnds
<1>2. Fine("newURI3")
  <2>1. Program("newURI3") = NewURI3
    BY DEF Program, Operations, Operation
  <2>2. Given("newURI3") = {} /\ StartPrice("newURI3") = 0
    BY DEF Given, StartPrice, Operations, Operation, NoVar
  <2> QED
    BY <2>1, <2>2, NewURI3Ends
<1>3. Fine("getOptions")
  <2>1. Program("getOptions") = Factory
    BY DEF Program, Operations, Operation
  <2>2. Given("getOptions") = {} /\ StartPrice("getOptions") = 0
    BY DEF Given, StartPrice, Operations, Operation, NoVar
  <2> QED
    BY <2>1, <2>2, FactoryEnds
<1>4. Fine("allocate")
  <2>1. Program("allocate") = Factory
    BY DEF Program, Operations, Operation
  <2>2. Given("allocate") = {} /\ StartPrice("allocate") = 0
    BY DEF Given, StartPrice, Operations, Operation, NoVar
  <2> QED
    BY <2>1, <2>2, FactoryEnds
<1>5. Fine("setType")
  <2>1. Program("setType") = SetType
    BY DEF Program, Operations, Operation
  <2>2. Given("setType") = {"this"} /\ StartPrice("setType") = 3
    BY DEF Given, StartPrice, Operations, Operation, NoVar
  <2> QED
    BY <2>1, <2>2, SetTypeEnds
<1>6. Fine("connect")
  <2>1. Program("connect") = Connect
    BY DEF Program, Operations, Operation
  <2>2. Given("connect") = {} /\ StartPrice("connect") = 0
    BY DEF Given, StartPrice, Operations, Operation, NoVar
  <2> QED
    BY <2>1, <2>2, ConnectEnds
<1>7. Fine("pathCall")
  <2>1. Program("pathCall") = PathCall
    BY DEF Program, Operations, Operation
  <2>2. Given("pathCall") = {} /\ StartPrice("pathCall") = 1
    BY DEF Given, StartPrice, Operations, Operation, NoVar
  <2> QED
    BY <2>1, <2>2, PathEnds
<1>8. Fine("deleteRecursive")
  <2>1. Program("deleteRecursive") = DeleteRecursive
    BY DEF Program, Operations, Operation
  <2>2. Given("deleteRecursive") = {} /\ StartPrice("deleteRecursive") = 4
    BY DEF Given, StartPrice, Operations, Operation, NoVar
  <2> QED
    BY <2>1, <2>2, DeleteRecursiveEnds
<1>9. Fine("openFile")
  <2>1. Program("openFile") = OpenFile("result") \o <<Give("result")>>
    BY DEF Program, Operations, Operation
  <2>2. Given("openFile") = {} /\ StartPrice("openFile") = 1
    BY DEF Given, StartPrice, Operations, Operation, NoVar
  <2> QED
    BY <2>1, <2>2, OpenFileEnds
<1>10. Fine("createFile")
  <2>1. Program("createFile") = OpenFile("result") \o <<Give("result")>>
    BY DEF Program, Operations, Operation
  <2>2. Given("createFile") = {} /\ StartPrice("createFile") = 1
    BY DEF Given, StartPrice, Operations, Operation, NoVar
  <2> QED
    BY <2>1, <2>2, OpenFileEnds
<1>11. Fine("renameFile")
  <2>1. Program("renameFile") = RenameFile
    BY DEF Program, Operations, Operation
  <2>2. Given("renameFile") = {} /\ StartPrice("renameFile") = 1
    BY DEF Given, StartPrice, Operations, Operation, NoVar
  <2> QED
    BY <2>1, <2>2, PathEnds
<1>12. Fine("fileSize")
  <2>1. Program("fileSize") = FileSize
    BY DEF Program, Operations, Operation
  <2>2. Given("fileSize") = {} /\ StartPrice("fileSize") = 3
    BY DEF Given, StartPrice, Operations, Operation, NoVar
  <2> QED
    BY <2>1, <2>2, FileSizeEnds
<1>13. Fine("listPath")
  <2>1. Program("listPath") = ListPath
    BY DEF Program, Operations, Operation
  <2>2. Given("listPath") = {} /\ StartPrice("listPath") = 3
    BY DEF Given, StartPrice, Operations, Operation, NoVar
  <2> QED
    BY <2>1, <2>2, ListPathEnds
<1>14. Fine("openFileForAppend")
  <2>1. Program("openFileForAppend") = OpenFileForAppend
    BY DEF Program, Operations, Operation
  <2>2. Given("openFileForAppend") = {} /\ StartPrice("openFileForAppend") = 5
    BY DEF Given, StartPrice, Operations, Operation, NoVar
  <2> QED
    BY <2>1, <2>2, OpenFileForAppendEnds
<1>15. Fine("completeAppend")
  <2>1. Program("completeAppend") = CompleteAppend
    BY DEF Program, Operations, Operation
  <2>2. Given("completeAppend") = {"this"} /\ StartPrice("completeAppend") = 3
    BY DEF Given, StartPrice, Operations, Operation, NoVar
  <2> QED
    BY <2>1, <2>2, CompleteAppendEnds
<1>16. Fine("read")
  <2>1. Program("read") = Read("this")
    BY DEF Program, Operations, Operation
  <2>2. Given("read") = {"this"} /\ StartPrice("read") = 1
    BY DEF Given, StartPrice, Operations, Operation, NoVar
  <2> QED
    BY <2>1, <2>2, StreamEnds
<1>17. Fine("write")
  <2>1. Program("write") = Write("this")
    BY DEF Program, Operations, Operation
  <2>2. Given("write") = {"this"} /\ StartPrice("write") = 1
    BY DEF Given, StartPrice, Operations, Operation, NoVar
  <2> QED
    BY <2>1, <2>2, StreamEnds
<1>18. Fine("inCall")
  <2>1. Program("inCall") = <<Call(NoVar, {"this"})>>
    BY DEF Program, Operations, Operation
  <2>2. Given("inCall") = {"this"} /\ StartPrice("inCall") = 1
    BY DEF Given, StartPrice, Operations, Operation, NoVar
  <2> QED
    BY <2>1, <2>2, StreamEnds
<1>19. Fine("outCall")
  <2>1. Program("outCall") = <<Call(NoVar, {"this"})>>
    BY DEF Program, Operations, Operation
  <2>2. Given("outCall") = {"this"} /\ StartPrice("outCall") = 1
    BY DEF Given, StartPrice, Operations, Operation, NoVar
  <2> QED
    BY <2>1, <2>2, StreamEnds
<1>20. Fine("allocateNull")
  <2>1. Program("allocateNull") = AllocateNull
    BY DEF Program, Operations, Operation
  <2>2. Given("allocateNull") = {} /\ StartPrice("allocateNull") = 0
    BY DEF Given, StartPrice, Operations, Operation, NoVar
  <2> QED
    BY <2>1, <2>2, AllocateNullEnds
<1> HIDE DEF Fine
<1>21. Fine(name)
  BY <1>0, <1>1, <1>2, <1>3, <1>4, <1>5, <1>6, <1>7, <1>8, <1>9, <1>10,
     <1>11, <1>12, <1>13, <1>14, <1>15, <1>16, <1>17, <1>18, <1>19, <1>20
<1> QED
  BY <1>21 DEF Fine

-------------------------------------------------------------------------------
(* The invariant *)

HeldNow == {w \in Wrappers : wraps[w] # NoRef}
Spent == leaked + Cardinality(locals)

\* An assertion holds now.
Matches(a) ==
  /\ a.has \ {"this"} \subseteq locals
  /\ "this" \in a.has => args["this"] \in MineRefs
  /\ HeldNow = a.held
  /\ Spent + a.spare <= Price

\* What is left of the program has an outline from here to an end with no wrapper, within
\* the price.
Outlined(p, a) ==
  \E z \in Assertions : z.held = {} /\ 0 <= z.spare /\ Outline(Every(op), p, a, z)

OutlineInv ==
  /\ args["options"] \in MineRefs \cup {NoRef}
  /\ todo = <<>> => HeldNow = {} /\ LocalsPriced
  /\ todo # <<>> => failures = 0 /\ \E a \in Assertions : Matches(a) /\ Outlined(todo, a)

Followed == IInv /\ OutlineInv

-------------------------------------------------------------------------------
(* A step and its triple *)

LEMMA EveryIs ==
  ASSUME NEW o, NEW s, NEW a, NEW b, <<s, a, b>> \in Every(o)
  PROVE  /\ a \in Assertions /\ b \in Assertions
         /\ \/ Covers(a, s) /\ Makes(o, s, a, b)
            \/ Covers(a, s) /\ Drops(s, a, b)
            \/ s.do = "maybe" /\ s.uses = {} /\ Weaker(a, b) /\ Outline(Every(o), s.body, a, b)
            \/ s.do = "loop" /\ s.uses = {} /\ Weaker(a, b) /\ Outline(Every(o), s.body, Turned(o, b), b)
            \/ WrapsUp(s, a, b)
            \/ Destroys(s, a, b)
            \/ Gives(o, s, a, b)
<1> DEFINE t == <<s, a, b>>
<1>1. t[1] = s /\ t[2] = a /\ t[3] = b
  OBVIOUS
<1>2. CASE t \in Local(o)
  BY <1>1, <1>2 DEF Local, Triples
<1>3. CASE t \in {x \in Triples(Bodied("maybe", Simple)) :
                    Weaker(x[2], x[3]) /\ Outline(Local(o), x[1].body, x[2], x[3])}
  <2>1. /\ s \in Bodied("maybe", Simple) /\ a \in Assertions /\ b \in Assertions
        /\ Weaker(a, b) /\ Outline(Local(o), s.body, a, b)
    BY <1>1, <1>3 DEF Triples
  <2>2. s.do = "maybe" /\ s.uses = {}
    BY <2>1 DEF Bodied
  <2>3. Outline(Every(o), s.body, a, b)
    BY <2>1, LevelsOfSteps, OutlineMonotonic
  <2> QED
    BY <2>1, <2>2, <2>3
<1>4. CASE t \in {x \in Triples(Bodied("loop", Inner)) :
                    Weaker(x[2], x[3]) /\ Outline(Choice(o), x[1].body, Turned(o, x[3]), x[3])}
  <2>1. /\ s \in Bodied("loop", Inner) /\ a \in Assertions /\ b \in Assertions
        /\ Weaker(a, b) /\ Outline(Choice(o), s.body, Turned(o, b), b)
    BY <1>1, <1>4 DEF Triples
  <2>2. s.do = "loop" /\ s.uses = {}
    BY <2>1 DEF Bodied
  <2>3. Outline(Every(o), s.body, Turned(o, b), b)
    BY <2>1, LevelsOfSteps, OutlineMonotonic
  <2> QED
    BY <2>1, <2>2, <2>3
<1>5. CASE t \in {x \in Triples(AnyStep) :
                    WrapsUp(x[1], x[2], x[3]) \/ Destroys(x[1], x[2], x[3]) \/ Gives(o, x[1], x[2], x[3])}
  BY <1>1, <1>5 DEF Triples
<1> QED
  BY <1>2, <1>3, <1>4, <1>5 DEF Every, Choice

\* The next step leads from an assertion that holds to one from which the outline goes on.
LEMMA NextTriple ==
  ASSUME OutlineInv, todo # <<>>
  PROVE  \E a \in Assertions, b \in Assertions :
           /\ Matches(a) /\ <<Current, a, b>> \in Every(op) /\ Outlined(Tail(todo), b)
           /\ todo \in Seq(AnyStep)
<1>1. PICK a \in Assertions : Matches(a) /\ Outlined(todo, a)
  BY DEF OutlineInv
<1>2. PICK z \in Assertions : z.held = {} /\ 0 <= z.spare /\ Outline(Every(op), todo, a, z)
  BY <1>1 DEF Outlined
<1>3. todo \in Seq(AnyStep)
  BY <1>2 DEF Outline
<1>4. PICK b \in Assertions : <<Head(todo), a, b>> \in Every(op) /\ Outline(Every(op), Tail(todo), b, z)
  BY <1>2, OutlineOfRest
<1>5. Outlined(Tail(todo), b)
  BY <1>2, <1>4 DEF Outlined
<1> QED
  BY <1>1, <1>3, <1>4, <1>5 DEF Current

\* The steps of a body, and then the rest.
LEMMA OutlinedAfter ==
  ASSUME NEW p, NEW q, NEW a, NEW b, Outline(Every(op), p, a, b), Outlined(q, b)
  PROVE  Outlined(p \o q, a)
<1>1. PICK z \in Assertions : z.held = {} /\ 0 <= z.spare /\ Outline(Every(op), q, b, z)
  BY DEF Outlined
<1>2. Outline(Every(op), p \o q, a, z)
  BY <1>1, OutlineConcat
<1> QED
  BY <1>1, <1>2 DEF Outlined

\* The same step, from another assertion.
LEMMA OutlinedFrom ==
  ASSUME NEW a \in Assertions, NEW b \in Assertions, todo # <<>>, todo \in Seq(AnyStep),
         <<Current, a, b>> \in Every(op), Outlined(Tail(todo), b)
  PROVE  Outlined(todo, a)
<1> DEFINE p == todo
           n == Len(p)
<1>1. n \in Nat /\ 1 <= n /\ Head(p) \in AnyStep /\ Head(p) = p[1]
  <2>1. n \in Nat /\ n # 0
    BY EmptySeq, LenProperties
  <2> QED
    BY <2>1, HeadTailProperties
<1>2. p = <<p[1]>> \o Tail(p)
  <2> HIDE DEF p, n
  <2>1. p \in Seq(AnyStep) /\ p # <<>>
    BY DEF p
  <2>2. 1 \in 1..n /\ n \in 1..n /\ 1 + 1 = 2
    BY <1>1
  <2>3. SubSeq(p, 1, n) = p /\ Tail(p) = SubSeq(p, 2, n)
    BY <2>1, SubSeqFull, TailIsSubSeq DEF n
  <2>4. SubSeq(p, 1, n) = <<p[1]>> \o SubSeq(p, 1 + 1, n)
    BY <2>1, <2>2, SubSeqRecursiveFirst DEF n
  <2> QED
    BY <2>2, <2>3, <2>4
<1>3. Outline(Every(op), <<Current>>, a, b)
  BY <1>1, OutlineOfStep DEF Current
<1>4. Outlined(<<Current>> \o Tail(todo), a)
  BY <1>3, OutlinedAfter
<1> QED
  BY <1>1, <1>2, <1>4 DEF Current

-------------------------------------------------------------------------------
(* What is spent, and the price *)

\* The price of the operation o, whose loop has made t turns.
PriceOf(o, t) ==
  CASE o \in {"newURI", "newURI3", "getOptions", "allocate", "allocateNull", "connect"} -> 0
    [] o \in {"setType", "fileSize", "completeAppend"} -> 3
    [] o = "deleteRecursive" -> 4
    [] o = "listPath" -> 3 + 4 * t
    [] o = "openFileForAppend" -> 3 + 2 * (t + 1)
    [] OTHER -> 1

LEMMA PriceIs ==
  /\ Price = PriceOf(op, turns) /\ Price' = PriceOf(op', turns')
  /\ \A o, t \in Nat : PriceOf(o, t) \in Int
  /\ \A o : PriceOf(o, 0) = StartPrice(o) /\ StartPrice(o) \in Int
<1>1. Price = PriceOf(op, turns) /\ Price' = PriceOf(op', turns')
  BY DEF Price, PriceOf
<1>2. \A o, t \in Nat : PriceOf(o, t) \in Int
  BY DEF PriceOf
<1>3. \A o : PriceOf(o, 0) = StartPrice(o) /\ StartPrice(o) \in Int
  BY DEF PriceOf, StartPrice
<1> QED
  BY <1>1, <1>2, <1>3

LEMMA PriceOfTurn ==
  \A o : \A t \in Nat : PriceOf(o, t) \in Int /\ PriceOf(o, t + 1) = PriceOf(o, t) + TurnPrice(o)
<1> SUFFICES ASSUME NEW o, NEW t \in Nat
             PROVE  PriceOf(o, t) \in Int /\ PriceOf(o, t + 1) = PriceOf(o, t) + TurnPrice(o)
  OBVIOUS
<1>1. CASE o \in {"newURI", "newURI3", "getOptions", "allocate", "allocateNull", "connect"}
  BY <1>1 DEF PriceOf, TurnPrice
<1>2. CASE o \in {"setType", "fileSize", "completeAppend"}
  BY <1>2 DEF PriceOf, TurnPrice
<1>3. CASE o = "deleteRecursive"
  BY <1>3 DEF PriceOf, TurnPrice
<1>4. CASE o = "listPath"
  BY <1>4 DEF PriceOf, TurnPrice
<1>5. CASE o = "openFileForAppend"
  BY <1>5 DEF PriceOf, TurnPrice
<1>6. CASE o \notin {"newURI", "newURI3", "getOptions", "allocate", "allocateNull", "connect", "setType", "fileSize",
                     "completeAppend", "deleteRecursive", "listPath", "openFileForAppend"}
  BY <1>6 DEF PriceOf, TurnPrice
<1> QED
  BY <1>1, <1>2, <1>3, <1>4, <1>5, <1>6

LEMMA Numbers ==
  ASSUME TypeInv
  PROVE  Spent \in Nat /\ Price \in Int /\ turns \in Nat
<1>1. leaked \in Nat /\ Cardinality(locals) \in Nat /\ turns \in Nat
  BY FS_CardinalityType, ReferencesAssumption DEF TypeInv
<1>2. \A l, c \in Nat : l + c \in Nat
  OBVIOUS
<1>3. Spent \in Nat
  BY <1>1, <1>2 DEF Spent
<1>4. Price \in Int
  BY <1>1, PriceIs, PriceOfTurn
<1> QED
  BY <1>1, <1>3, <1>4

LEMMA NumbersAfter ==
  ASSUME TypeInv'
  PROVE  Spent' \in Nat /\ Price' \in Int /\ turns' \in Nat
<1>1. leaked' \in Nat /\ Cardinality(locals') \in Nat /\ turns' \in Nat
  BY FS_CardinalityType, ReferencesAssumption DEF TypeInv
<1>2. \A l, c \in Nat : l + c \in Nat
  OBVIOUS
<1>3. Spent' \in Nat
  BY <1>1, <1>2 DEF Spent
<1>4. Price' \in Int
  BY <1>1, PriceIs, PriceOfTurn
<1> QED
  BY <1>1, <1>3, <1>4

\* What is spent and what is left stay within the price.
LEMMA Affordable ==
  /\ \A s \in Nat, n \in Int, p \in Int : s + n <= p /\ 0 <= n => s <= p
  /\ \A s, t \in Nat, n \in Int, m \in Int, p \in Int :
       s + n <= p /\ s = t + 1 /\ m <= n + 1 => t + m <= p
  /\ \A s \in Nat, n \in Int, m \in Int, p \in Int : s + n <= p /\ m <= n => s + m <= p
OBVIOUS

\* A new local reference is one more, whether or not its variable named another.
LEMMA AssignSpends ==
  ASSUME TypeInv, NEW v \in Vars, NEW more \in Nat, Assign(v, more), TypeInv'
  PROVE  /\ Spent' = Spent + more + (IF v = NoVar THEN 0 ELSE 1)
         /\ v # NoVar => locals' = locals \cup {v}
         /\ v = NoVar => locals' = locals
<1>1. IsFiniteSet(locals) /\ Cardinality(locals) \in Nat /\ leaked \in Nat
  BY FS_CardinalityType DEF TypeInv
<1>2. CASE v = NoVar
  <2>1. v \notin locals
    BY <1>2 DEF TypeInv, LocalVars, NoVar
  <2>2. locals' = locals /\ leaked' = leaked + more + 0
    BY <1>2, <2>1 DEF Assign
  <2>3. \A l, c, x \in Nat : (l + x + 0) + c = (l + c) + x + 0
    OBVIOUS
  <2>4. Spent' = Spent + more + 0
    BY <1>1, <2>2, <2>3, Zenon DEF Spent
  <2> QED
    BY <1>2, <2>2, <2>4
<1>3. CASE v # NoVar /\ v \in locals
  <2>1. locals' = locals \cup {v} /\ locals \cup {v} = locals
    BY <1>3 DEF Assign
  <2>2. locals' = locals /\ leaked' = leaked + more + 1
    BY <1>3, <2>1 DEF Assign
  <2>3. \A l, c, x \in Nat : (l + x + 1) + c = (l + c) + x + 1
    OBVIOUS
  <2>4. Spent' = Spent + more + 1
    BY <1>1, <2>2, <2>3, Zenon DEF Spent
  <2> QED
    BY <1>3, <2>1, <2>4
<1>4. CASE v # NoVar /\ v \notin locals
  <2>1. locals' = locals \cup {v}
    BY <1>4 DEF Assign
  <2>2. leaked' = leaked + more + 0 /\ Cardinality(locals') = Cardinality(locals) + 1
    BY <1>1, <1>4, FS_AddElement DEF Assign
  <2>3. \A l, c, x \in Nat : (l + x + 0) + (c + 1) = (l + c) + x + 1
    OBVIOUS
  <2>4. (leaked + more + 0) + (Cardinality(locals) + 1) = (leaked + Cardinality(locals)) + more + 1
    BY <1>1, <2>3, Zenon
  <2>5. Spent' = Spent + more + 1
    BY <2>2, <2>4 DEF Spent
  <2> QED
    BY <1>4, <2>1, <2>5
<1> QED
  BY <1>2, <1>3, <1>4

\* One that is deleted is one less.
LEMMA DropSpends ==
  ASSUME TypeInv, NEW v \in locals, locals' = locals \ {v}, leaked' = leaked
  PROVE  Spent = Spent' + 1
<1>1. IsFiniteSet(locals) /\ Cardinality(locals) \in Nat /\ leaked \in Nat
  BY FS_CardinalityType DEF TypeInv
<1>2. IsFiniteSet(locals') /\ Cardinality(locals') = Cardinality(locals) - 1
  BY <1>1, FS_RemoveElement
<1>3. \A l, c \in Nat : l + c = (l + (c - 1)) + 1
  OBVIOUS
<1> QED
  BY <1>1, <1>2, <1>3, Zenon DEF Spent

-------------------------------------------------------------------------------
(* Each action keeps the invariant *)

\* The outline goes on; where the program ends, its last assertion holds.
LEMMA OutlineGoesOn ==
  ASSUME TypeInv', NEW b \in Assertions, failures' = 0, args'["options"] \in MineRefs' \cup {NoRef},
         Matches(b)', Outlined(todo, b)'
  PROVE  OutlineInv'
<1>1. PICK z \in Assertions : z.held = {} /\ 0 <= z.spare /\ Outline(Every(op'), todo', b, z)
  BY DEF Outlined
<1>2. ASSUME todo' = <<>> PROVE HeldNow' = {} /\ LocalsPriced'
  <2>1. b = z
    BY <1>1, <1>2, OutlineOfNothing
  <2>2. HeldNow' = {} /\ Spent' + b.spare <= Price'
    BY <1>1, <2>1 DEF Matches
  <2>3. Spent' \in Nat /\ Price' \in Int /\ b.spare \in Int /\ 0 <= b.spare
    BY <1>1, <2>1, NumbersAfter DEF Assertions
  <2>4. Spent' <= Price'
    BY <2>2, <2>3, Affordable, Zenon
  <2>5. LocalsPriced'
    BY <2>4 DEF LocalsPriced, Spent
  <2> QED
    BY <2>2, <2>5
<1> QED
  BY <1>2 DEF OutlineInv

\* A step that keeps the arguments and the application's objects.
LEMMA OutlineGoesOnHere ==
  ASSUME Followed, TypeInv', todo # <<>>, NEW b \in Assertions, Matches(b)', Outlined(todo', b),
         UNCHANGED <<op, failures, args>>, MineRefs \subseteq MineRefs'
  PROVE  OutlineInv'
<1>1. failures' = 0
  BY DEF Followed, OutlineInv
<1>2. args'["options"] \in MineRefs' \cup {NoRef}
  BY DEF Followed, OutlineInv
<1>3. Outlined(todo, b)'
  BY DEF Outlined
<1> QED
  BY <1>1, <1>2, <1>3, OutlineGoesOn

LEMMA HeldUnchanged == wraps' = wraps => HeldNow' = HeldNow
BY DEF HeldNow

\* The price of the operation, when it makes no turn.
LEMMA PriceUnchanged == UNCHANGED <<op, turns>> => Price' = Price
BY DEF Price

\* A step that makes a local reference, or none.
LEMMA MakeKeepsOutline ==
  ASSUME Followed, MakeLocal \/ CallMethod, TypeInv'
  PROVE  OutlineInv'
<1> USE DEF Followed, IInv
<1>1. /\ Current \in Plain /\ todo # <<>> /\ Done /\ Current.do \in {"allocate", "static", "call"}
      /\ UNCHANGED <<op, failures, turns, args, wraps, mine, globals>>
  BY PlainNext DEF MakeLocal, CallMethod
<1>2. PICK a \in Assertions, b \in Assertions :
        /\ Matches(a) /\ <<Current, a, b>> \in Every(op) /\ Outlined(Tail(todo), b)
  BY <1>1, NextTriple
<1>3. Makes(op, Current, a, b)
  BY <1>1, <1>2, EveryIs DEF Drops, WrapsUp, Destroys, Gives
<1> DEFINE v == Current.out
           d == Extra(Current)
           e == Named(Current)
<1>4. v \in Vars
  BY <1>1, PlainFields
<1>5. d \in Nat /\ e \in Nat /\ Assign(v, d)
  BY <1>1 DEF Extra, Named, MakeLocal, CallMethod, Doing, Current
<1>6. Spent' = Spent + d + e /\ (v # NoVar => locals' = locals \cup {v}) /\ (v = NoVar => locals' = locals)
  BY <1>4, <1>5, AssignSpends DEF Named
<1>7. b.has \subseteq a.has \cup {v} /\ b.held = a.held /\ b.spare + d + e <= a.spare
  BY <1>3 DEF Makes
<1>8. v # "this" /\ NoVar \notin Known
  BY <1>4 DEF Vars, Known, LocalVars, NoVar
<1> HIDE DEF v, d, e
<1>9. a.has \subseteq Known /\ b.has \subseteq Known /\ a.spare \in Int /\ b.spare \in Int
  BY DEF Assertions
<1>10. Matches(b)'
  <2>1. b.has \ {"this"} \subseteq locals'
    <3>1. CASE v = NoVar
      BY <1>2, <1>6, <1>7, <1>8, <1>9, <3>1 DEF Matches
    <3>2. CASE v # NoVar
      BY <1>2, <1>6, <1>7, <3>2 DEF Matches
    <3> QED
      BY <3>1, <3>2
  <2>2. "this" \in b.has => args'["this"] \in MineRefs'
    BY <1>1, <1>2, <1>7, <1>8 DEF Matches, MineRefs
  <2>3. HeldNow' = b.held
    BY <1>1, <1>2, <1>7, HeldUnchanged DEF Matches
  <2>4. Spent' + b.spare <= Price'
    <3>1. Spent \in Nat /\ d \in Nat /\ e \in Nat
      BY <1>5, Numbers
    <3>2. a.spare \in Int /\ b.spare \in Int /\ Price \in Int
      BY <1>9, Numbers
    <3>3. Spent + a.spare <= Price /\ b.spare + d + e <= a.spare
      BY <1>2, <1>7 DEF Matches
    <3>4. (Spent + d + e) + b.spare <= Price
      BY <3>1, <3>2, <3>3
    <3>5. Price' = Price
      BY <1>1, PriceUnchanged
    <3> QED
      BY <1>6, <3>4, <3>5
  <2> QED
    BY <2>1, <2>2, <2>3, <2>4 DEF Matches
<1>11. MineRefs' = MineRefs
  BY <1>1 DEF MineRefs
<1> QED
  BY <1>1, <1>2, <1>10, <1>11, OutlineGoesOnHere DEF Done

\* Local references of the thread: one is deleted, or becomes a wrapper's.
LEMMA TakesVariable ==
  ASSUME Followed, TypeInv', NEW a \in Assertions, NEW b \in Assertions, Matches(a),
         NEW v \in LocalVars \cap a.has, b.has \subseteq a.has \ {v}, b.spare <= a.spare + 1,
         locals' = locals \ {v}, HeldNow' = b.held, UNCHANGED <<op, turns, args, leaked, mine>>
  PROVE  Matches(b)'
<1> USE DEF Followed, IInv
<1>1. v \in locals /\ a.spare \in Int /\ b.spare \in Int
  BY DEF Matches, LocalVars, Assertions
<1>2. b.has \ {"this"} \subseteq locals'
  BY DEF Matches
<1>3. "this" \in b.has => args'["this"] \in MineRefs'
  BY DEF Matches, MineRefs
<1>4. Spent' + b.spare <= Price'
  <2>1. Spent \in Nat /\ Spent' \in Nat /\ Price \in Int /\ Price' = Price
    BY Numbers, NumbersAfter, PriceUnchanged
  <2>2. Spent + a.spare <= Price
    BY DEF Matches
  <2>3. Spent = Spent' + 1
    BY <1>1, DropSpends
  <2>4. Spent' + b.spare <= Price
    BY <1>1, <2>1, <2>2, <2>3, Affordable, Zenon
  <2> QED
    BY <2>1, <2>4
<1> QED
  BY <1>2, <1>3, <1>4 DEF Matches

LEMMA DropKeepsOutline ==
  ASSUME Followed, DeleteLocalRef, TypeInv'
  PROVE  OutlineInv'
<1> USE DEF Followed, IInv
<1>1. /\ Current \in Plain /\ todo # <<>> /\ Done /\ Current.do = "drop"
      /\ UNCHANGED <<op, failures, turns, args, leaked, wraps, mine, globals>>
      /\ locals' = locals \ Current.uses
  BY PlainNext DEF DeleteLocalRef
<1>2. PICK a \in Assertions, b \in Assertions :
        /\ Matches(a) /\ <<Current, a, b>> \in Every(op) /\ Outlined(Tail(todo), b)
  BY <1>1, NextTriple
<1>3. Drops(Current, a, b)
  BY <1>1, <1>2, EveryIs DEF Makes, WrapsUp, Destroys, Gives
<1>4. PICK v \in LocalVars \cap a.has : Current.uses = {v} /\ b.has \subseteq a.has \ {v}
  BY <1>3 DEF Drops
<1>5. b.held = a.held /\ b.spare <= a.spare + 1
  BY <1>3 DEF Drops
<1>6. HeldNow' = b.held
  BY <1>1, <1>2, <1>5, HeldUnchanged DEF Matches
<1>7. Matches(b)'
  BY <1>1, <1>2, <1>4, <1>5, <1>6, TakesVariable
<1>8. MineRefs' = MineRefs
  BY <1>1 DEF MineRefs
<1> QED
  BY <1>1, <1>2, <1>7, <1>8, OutlineGoesOnHere DEF Done

LEMMA WrapKeepsOutline ==
  ASSUME Followed, WrapLocal, TypeInv'
  PROVE  OutlineInv'
<1> USE DEF Followed, IInv
<1>1. /\ Current \in Plain /\ todo # <<>> /\ Done /\ Current.do = "wrap"
      /\ UNCHANGED <<op, failures, turns, args, leaked, mine>>
      /\ locals' = locals \ Current.uses
  BY PlainNext DEF WrapLocal
<1>2. PICK a \in Assertions, b \in Assertions :
        /\ Matches(a) /\ <<Current, a, b>> \in Every(op) /\ Outlined(Tail(todo), b)
  BY <1>1, NextTriple
<1>3. WrapsUp(Current, a, b)
  BY <1>1, <1>2, EveryIs DEF Makes, Drops, Destroys, Gives
<1>4. PICK v \in LocalVars \cap a.has : Current.uses = {v} /\ b.has \subseteq a.has \ {v}
  BY <1>3 DEF WrapsUp
<1>5. Current.out \in Wrappers \ a.held /\ b.held = a.held \cup {Current.out} /\ b.spare <= a.spare + 1
  BY <1>3 DEF WrapsUp
<1>6. PICK r \in Refs \ globals : wraps' = [wraps EXCEPT ![Current.out] = r]
  BY DEF WrapLocal
<1>7. HeldNow' = b.held
  <2>1. r # NoRef /\ wraps'[Current.out] = r /\ \A w \in Wrappers : w # Current.out => wraps'[w] = wraps[w]
    BY <1>5, <1>6, ReferencesAssumption DEF TypeInv
  <2>2. HeldNow = a.held
    BY <1>2 DEF Matches
  <2> QED
    BY <1>5, <2>1, <2>2 DEF HeldNow
<1>8. Matches(b)'
  BY <1>1, <1>2, <1>4, <1>5, <1>7, TakesVariable
<1>9. MineRefs' = MineRefs
  BY <1>1 DEF MineRefs
<1> QED
  BY <1>1, <1>2, <1>8, <1>9, OutlineGoesOnHere DEF Done

\* Steps after which no more is spent, and no fewer objects are the application's.
LEMMA SpendsNothing ==
  ASSUME Followed, TypeInv', NEW a \in Assertions, NEW b \in Assertions, Matches(a),
         b.has \subseteq a.has, b.spare <= a.spare, HeldNow' = b.held,
         UNCHANGED <<op, turns, args, locals, leaked>>, MineRefs \subseteq MineRefs'
  PROVE  Matches(b)'
<1> USE DEF Followed, IInv
<1>1. b.has \ {"this"} \subseteq locals'
  BY DEF Matches
<1>2. "this" \in b.has => args'["this"] \in MineRefs'
  BY DEF Matches
<1>3. Spent' + b.spare <= Price'
  <2>1. Spent' = Spent /\ Price' = Price
    BY PriceUnchanged DEF Spent
  <2>2. Spent + a.spare <= Price
    BY DEF Matches
  <2>3. Spent \in Nat /\ Price \in Int /\ a.spare \in Int /\ b.spare \in Int
    BY Numbers DEF Assertions
  <2>4. Spent + b.spare <= Price
    BY <2>2, <2>3, Affordable, Zenon
  <2> QED
    BY <2>1, <2>4
<1> QED
  BY <1>1, <1>2, <1>3 DEF Matches

LEMMA DestroyKeepsOutline ==
  ASSUME Followed, DestroyScoped, TypeInv'
  PROVE  OutlineInv'
<1> USE DEF Followed, IInv
<1>1. /\ Current \in Plain /\ todo # <<>> /\ Done /\ Current.do = "destroy"
      /\ UNCHANGED <<op, failures, turns, args, locals, leaked, mine>>
  BY PlainNext DEF DestroyScoped
<1>2. PICK a \in Assertions, b \in Assertions :
        /\ Matches(a) /\ <<Current, a, b>> \in Every(op) /\ Outlined(Tail(todo), b)
  BY <1>1, NextTriple
<1>3. Destroys(Current, a, b)
  BY <1>1, <1>2, EveryIs DEF Makes, Drops, WrapsUp, Gives
<1>4. PICK d \in Scoped \cap a.held : Current.uses = {d} /\ b.held = a.held \ {d}
  BY <1>3 DEF Destroys
<1>5. b.has \subseteq a.has /\ b.spare <= a.spare
  BY <1>3 DEF Destroys
<1>6. wraps' = [w \in Wrappers |-> IF w = d THEN NoRef ELSE wraps[w]]
  <2>1. wraps' = [w \in Wrappers |-> IF w \in Current.uses THEN NoRef ELSE wraps[w]]
    BY DEF DestroyScoped, Wrappers
  <2> QED
    BY <1>4, <2>1
<1>7. HeldNow' = b.held
  <2>1. HeldNow = a.held
    BY <1>2 DEF Matches
  <2> QED
    BY <1>4, <1>6, <2>1 DEF HeldNow
<1>8. MineRefs' = MineRefs
  BY <1>1 DEF MineRefs
<1>9. Matches(b)'
  BY <1>1, <1>2, <1>5, <1>7, <1>8, SpendsNothing
<1> QED
  BY <1>1, <1>2, <1>8, <1>9, OutlineGoesOnHere DEF Done

LEMMA GiveKeepsOutline ==
  ASSUME Followed, GiveResult, TypeInv'
  PROVE  OutlineInv'
<1> USE DEF Followed, IInv
<1>1. /\ todo # <<>> /\ Done /\ Current.do = "give" /\ wraps' = NoWraps
      /\ UNCHANGED <<op, failures, turns, args, locals, leaked, globals>>
  BY DEF GiveResult, Doing, Current
<1>2. PICK a \in Assertions, b \in Assertions :
        /\ Matches(a) /\ <<Current, a, b>> \in Every(op) /\ Outlined(Tail(todo), b)
  BY <1>1, NextTriple
<1>3. Gives(op, Current, a, b)
  BY <1>1, <1>2, EveryIs DEF Makes, Drops, WrapsUp, Destroys
<1>4. b.held = {} /\ b.has \subseteq a.has /\ b.spare <= a.spare
  BY <1>3 DEF Gives
<1>5. HeldNow' = b.held
  BY <1>1, <1>4, NoWrapsIs DEF HeldNow
<1>6. MineRefs \subseteq MineRefs'
  <2>1. mine \subseteq mine'
    BY DEF GiveResult
  <2> QED
    BY <2>1 DEF MineRefs
<1>7. Matches(b)'
  BY <1>1, <1>2, <1>4, <1>5, <1>6, SpendsNothing
<1> QED
  BY <1>1, <1>2, <1>6, <1>7, OutlineGoesOnHere DEF Done

\* The body of a loop leads back to the assertion before a turn; that of a choice, and the
\* end of either, to the one after it.
LEMMA LoopKeepsOutline ==
  ASSUME Followed, TakeTurn \/ MayRun \/ EndLoop, TypeInv'
  PROVE  OutlineInv'
<1> USE DEF Followed, IInv
<1>1. /\ todo # <<>> /\ Current.do \in {"loop", "maybe"}
      /\ UNCHANGED <<op, failures, args, locals, leaked, wraps, mine, globals>>
  BY DEF TakeTurn, MayRun, EndLoop, Doing, Current
<1>2. PICK a \in Assertions, b \in Assertions :
        /\ Matches(a) /\ <<Current, a, b>> \in Every(op) /\ Outlined(Tail(todo), b) /\ todo \in Seq(AnyStep)
  BY <1>1, NextTriple
<1>3. /\ Weaker(a, b)
      /\ Current.do = "maybe" => Outline(Every(op), Current.body, a, b)
      /\ Current.do = "loop" => Outline(Every(op), Current.body, Turned(op, b), b)
  BY <1>1, <1>2, EveryIs DEF Makes, Drops, WrapsUp, Destroys, Gives
<1>4. b.has \subseteq a.has /\ b.held = a.held /\ b.spare <= a.spare
  BY <1>3 DEF Weaker
<1>5. HeldNow' = HeldNow /\ HeldNow = a.held
  BY <1>1, <1>2, HeldUnchanged DEF Matches
<1>6. MineRefs' = MineRefs
  BY <1>1 DEF MineRefs
<1>7. CASE EndLoop
  <2>1. turns' = turns /\ todo' = Tail(todo)
    BY <1>7 DEF EndLoop, Done
  <2>2. Matches(b)'
    BY <1>1, <1>2, <1>4, <1>5, <1>6, <2>1, SpendsNothing
  <2> QED
    BY <1>1, <1>2, <1>6, <2>1, <2>2, OutlineGoesOnHere
<1>8. CASE MayRun
  <2>1. turns' = turns /\ todo' = Current.body \o Tail(todo) /\ Current.do = "maybe"
    BY <1>8 DEF MayRun, Doing, Current
  <2>2. Matches(a)'
    <3>1. a.spare <= a.spare
      BY DEF Assertions
    <3> QED
      BY <1>1, <1>2, <1>5, <1>6, <2>1, <3>1, SpendsNothing
  <2>3. Outlined(Current.body \o Tail(todo), a)
    BY <1>2, <1>3, <2>1, OutlinedAfter
  <2> QED
    BY <1>1, <1>6, <2>1, <2>2, <2>3, OutlineGoesOnHere
<1>9. CASE TakeTurn
  <2>1. turns' = turns + 1 /\ todo' = Current.body \o todo /\ Current.do = "loop"
    BY <1>9 DEF TakeTurn, Doing, Current
  <2>2. /\ TurnPrice(op) \in Nat /\ b.has \in SUBSET Known /\ b.held \in SUBSET Wrappers /\ b.spare \in Int
        /\ a.spare \in Int
    BY DEF TurnPrice, Assertions
  <2>3. b.spare + TurnPrice(op) \in Int
    BY <2>2
  <2>4. PICK c \in Assertions :
          /\ c = Turned(op, b)
          /\ c.has = b.has /\ c.held = b.held /\ c.spare = b.spare + TurnPrice(op)
    BY <2>2, <2>3, ThatIs DEF Turned
  <2>5. Outlined(todo, b)
    <3>1. <<Current, b, b>> \in Every(op)
      <4> DEFINE t == <<Current, b, b>>
      <4>1. <<Current, a, b>> \in Choice(op) => FALSE
        <5>1. \A x \in Choice(op) : x[1].do # "loop"
          BY DEF Choice, Local, Triples, Simple, Bodied
        <5> QED
          BY <2>1, <5>1
      <4>2. Current \in Bodied("loop", Inner) /\ Outline(Choice(op), Current.body, Turned(op, b), b)
        BY <1>2, <2>1, <4>1 DEF Every, Triples, WrapsUp, Destroys, Gives
      <4>3. Weaker(b, b)
        BY <2>2 DEF Weaker
      <4>4. t[1] = Current /\ t[2] = b /\ t[3] = b /\ t \in Triples(Bodied("loop", Inner))
        BY <4>2 DEF Triples
      <4> HIDE DEF t
      <4> QED
        BY <4>2, <4>3, <4>4 DEF Every, t
    <3> QED
      BY <1>1, <1>2, <3>1, OutlinedFrom
  <2>6. Outlined(Current.body \o todo, c)
    BY <1>3, <2>1, <2>4, <2>5, OutlinedAfter
  <2>7. Matches(c)'
    <3>1. c.has \ {"this"} \subseteq locals'
      BY <1>1, <1>2, <1>4, <2>4 DEF Matches
    <3>2. "this" \in c.has => args'["this"] \in MineRefs'
      BY <1>1, <1>2, <1>4, <1>6, <2>4 DEF Matches
    <3>3. HeldNow' = c.held
      BY <1>4, <1>5, <2>4
    <3>4. Spent' + c.spare <= Price'
      <4>1. Price' = Price + TurnPrice(op)
        <5>1. turns \in Nat
          BY Numbers
        <5>2. PriceOf(op, turns + 1) = PriceOf(op, turns) + TurnPrice(op)
          BY <5>1, PriceOfTurn
        <5>3. Price = PriceOf(op, turns) /\ Price' = PriceOf(op, turns + 1)
          BY <1>1, <2>1, PriceIs
        <5> QED
          BY <5>2, <5>3
      <4>2. Spent' = Spent
        BY <1>1 DEF Spent
      <4>3. Spent + a.spare <= Price
        BY <1>2 DEF Matches
      <4>4. Spent \in Nat /\ Price \in Int
        BY Numbers
      <4>5. Spent + (b.spare + TurnPrice(op)) <= Price + TurnPrice(op)
        BY <1>4, <2>2, <4>3, <4>4
      <4> QED
        BY <2>4, <4>1, <4>2, <4>5
    <3> QED
      BY <3>1, <3>2, <3>3, <3>4 DEF Matches
  <2> QED
    BY <1>1, <1>6, <2>1, <2>4, <2>6, <2>7, OutlineGoesOnHere
<1> QED
  BY <1>7, <1>8, <1>9

\* What an exception leaves: no wrapper, and no more than a report and what was held.
LEMMA ThrowKeepsOutline ==
  ASSUME Followed, StepThrows, TypeInv'
  PROVE  OutlineInv'
<1> USE DEF Followed, IInv
<1>1. /\ todo # <<>> /\ Current.do \in {"allocate", "static", "call"}
      /\ todo' = <<>> /\ wraps' = NoWraps /\ locals' = {}
      /\ UNCHANGED <<op, turns, args, mine>>
  BY DEF StepThrows, Unwind, Doing, Current
<1>2. PICK a \in Assertions, b \in Assertions : Matches(a) /\ <<Current, a, b>> \in Every(op)
  BY <1>1, NextTriple
<1>3. Extra(Current) <= a.spare + Slack(op)
  BY <1>1, <1>2, EveryIs DEF Makes, Drops, WrapsUp, Destroys, Gives
<1>4. PICK n \in 1..MaxFailures :
        /\ failures' = n
        /\ \E reports \in IF Doing("allocate") THEN {0} ELSE 0..ReportRefs(n) :
             leaked' = leaked + Cardinality(locals \ Current.caught) + reports
                         + (IF Doing("call") THEN 1 ELSE 0)
  BY DEF StepThrows
<1> DEFINE most == ReportRefs(n)
<1>5. PICK reports \in IF Doing("allocate") THEN {0} ELSE 0..most :
        leaked' = leaked + Cardinality(locals \ Current.caught) + reports
                    + (IF Doing("call") THEN 1 ELSE 0)
  BY <1>4
<1>6. most \in Nat /\ reports \in Nat /\ reports <= most /\ failures' > 0 /\ most = ReportRefs(failures')
  <2>1. n \in Nat /\ n > 0
    BY ReferencesAssumption
  <2>2. most \in Nat
    BY <2>1 DEF ReportRefs
  <2> HIDE DEF most
  <2>3. reports \in Nat /\ reports <= most
    BY <1>5, <2>2
  <2> QED
    BY <1>4, <2>1, <2>2, <2>3 DEF most
<1> DEFINE held == Cardinality(locals \ Current.caught)
           x == Extra(Current)
           all == leaked + held + reports + x
<1>7. leaked' = all
  BY <1>1, <1>5 DEF Extra, Doing, Current
<1>8. /\ held \in Nat /\ Cardinality(locals) \in Nat /\ held <= Cardinality(locals)
      /\ leaked \in Nat /\ x \in Nat
  <2>1. IsFiniteSet(locals) /\ leaked \in Nat
    BY DEF TypeInv
  <2>2. IsFiniteSet(locals \ Current.caught) /\ held <= Cardinality(locals)
    BY <2>1, FS_Subset
  <2>3. held \in Nat /\ Cardinality(locals) \in Nat
    BY <2>1, <2>2, FS_CardinalityType
  <2>4. x \in Nat
    BY DEF Extra
  <2> QED
    BY <2>1, <2>2, <2>3, <2>4
<1> HIDE DEF held, x, most
<1>9. all <= Price + most + Slack(op)
  <2>1. Slack(op) \in Nat /\ Price \in Int /\ a.spare \in Int
    BY SlackIs, Numbers DEF Assertions
  <2>2. leaked + Cardinality(locals) + a.spare <= Price
    BY <1>2 DEF Matches, Spent
  <2> QED
    BY <1>3, <1>6, <1>8, <2>1, <2>2 DEF x
<1>10. all + 0 = all
  <2>1. all \in Nat
    BY <1>6, <1>8
  <2> QED
    BY <2>1
<1>11. LocalsPriced'
  <2>1. Cardinality(locals') = 0
    BY <1>1, FS_EmptySet
  <2>2. Price' = Price /\ Slack(op) = IF op' = "newURI3" THEN 3 ELSE 1
    BY <1>1, PriceUnchanged DEF Slack
  <2> HIDE DEF all
  <2>3. leaked' + Cardinality(locals') <= Price' + ReportRefs(failures') + (IF op' = "newURI3" THEN 3 ELSE 1)
    BY <1>6, <1>7, <1>9, <1>10, <2>1, <2>2
  <2> QED
    BY <1>1, <1>6, <2>3 DEF LocalsPriced
<1>12. HeldNow' = {}
  BY <1>1, NoWrapsIs DEF HeldNow
<1>13. args'["options"] \in MineRefs' \cup {NoRef}
  BY <1>1 DEF OutlineInv, MineRefs
<1> QED
  BY <1>1, <1>11, <1>12, <1>13 DEF OutlineInv

LEMMA StartKeepsOutline ==
  ASSUME Followed, StartOperation, TypeInv'
  PROVE  OutlineInv'
<1> USE DEF Followed, IInv
<1>1. PICK name \in DOMAIN Operations :
        /\ op' = name
        /\ todo' = Program(name)
        /\ \E on \in IF Operations[name].on = NoVar THEN {NoRef} ELSE Objects(Operations[name].on) :
           \E options \in {NoRef} \cup Objects("options") :
             args' = [this |-> on, options |-> options]
  BY DEF StartOperation
<1>2. /\ todo = <<>> /\ failures' = 0 /\ turns' = 0 /\ leaked' = 0 /\ locals' = {}
      /\ UNCHANGED <<wraps, mine, globals>>
  BY DEF StartOperation
<1>3. /\ args'["options"] \in MineRefs' \cup {NoRef}
      /\ Operations[name].on # NoVar => args'["this"] \in MineRefs'
  <2>1. PICK on \in IF Operations[name].on = NoVar THEN {NoRef} ELSE Objects(Operations[name].on) :
        \E options \in {NoRef} \cup Objects("options") :
          args' = [this |-> on, options |-> options]
    BY <1>1
  <2>2. PICK options \in {NoRef} \cup Objects("options") : args' = [this |-> on, options |-> options]
    BY <2>1
  <2>3. args'["this"] = on /\ args'["options"] = options
    BY <2>2
  <2>4. \A kind : Objects(kind) \subseteq MineRefs
    BY DEF Objects, MineRefs
  <2>5. MineRefs' = MineRefs
    BY <1>2 DEF MineRefs
  <2> QED
    BY <2>1, <2>2, <2>3, <2>4, <2>5
<1> DEFINE h == Given(name)
           n == StartPrice(name)
           a == That(h, {}, n)
<1>4. h \in SUBSET Known /\ h \ {"this"} = {} /\ ("this" \in h => Operations[name].on # NoVar)
  BY KnownNames DEF Given
<1>5. a \in Assertions /\ a.has = h /\ a.held = {} /\ a.spare = n /\ n \in Int
  BY <1>4, KnownNames, ThatIs, PriceIs
<1>6. Ends(name, Program(name), h, n)
  BY OperationsEnd
<1> HIDE DEF h, n, a
<1>7. Outlined(todo, a)'
  BY <1>1, <1>6 DEF Ends, Outlined, a
<1>8. Matches(a)'
  <2>1. HeldNow' = {}
    BY <1>2, HeldUnchanged DEF OutlineInv
  <2>2. Spent' + a.spare <= Price'
    <3>1. Cardinality(locals') = 0
      BY <1>2, FS_EmptySet
    <3>2. Spent' = 0
      BY <1>2, <3>1 DEF Spent
    <3>3. Price' = n
      BY <1>1, <1>2, PriceIs DEF n
    <3>4. 0 + n <= n
      BY <1>5
    <3> QED
      BY <1>5, <3>2, <3>3, <3>4
  <2>3. a.has \ {"this"} \subseteq locals'
    BY <1>4, <1>5
  <2>4. "this" \in a.has => args'["this"] \in MineRefs'
    BY <1>3, <1>4, <1>5
  <2> QED
    BY <1>5, <2>1, <2>2, <2>3, <2>4 DEF Matches
<1> QED
  BY <1>2, <1>3, <1>5, <1>7, <1>8, OutlineGoesOn

LEMMA DeleteKeepsOutline ==
  ASSUME Followed, DeleteObject
  PROVE  OutlineInv'
<1>1. /\ todo = <<>> /\ todo' = <<>> /\ args' = NoArgs
      /\ UNCHANGED <<op, failures, turns, locals, leaked, wraps>>
  BY DEF DeleteObject
<1>2. args'["options"] = NoRef
  BY <1>1 DEF NoArgs
<1>3. HeldNow' = {}
  BY <1>1, HeldUnchanged DEF Followed, OutlineInv
<1>4. LocalsPriced'
  BY <1>1 DEF Followed, OutlineInv, LocalsPriced, Price
<1> QED
  BY <1>1, <1>2, <1>3, <1>4 DEF OutlineInv

LEMMA InitOutline == Init => OutlineInv
<1> SUFFICES ASSUME Init PROVE OutlineInv
  OBVIOUS
<1> USE DEF Init
<1>1. args["options"] = NoRef
  BY DEF NoArgs
<1>2. HeldNow = {}
  BY NoWrapsIs DEF HeldNow
<1>3. LocalsPriced
  <2>1. Cardinality(locals) = 0 /\ leaked = 0 /\ failures = 0 /\ Price = 0
    BY FS_EmptySet DEF Price
  <2> QED
    BY <2>1 DEF LocalsPriced
<1> QED
  BY <1>1, <1>2, <1>3 DEF OutlineInv

LEMMA StepOutline == Followed /\ [Next]_vars => Followed'
<1> SUFFICES ASSUME Followed, [Next]_vars PROVE Followed'
  OBVIOUS
<1>1. IInv' /\ TypeInv'
  <2>1. IInv'
    BY StepInv DEF Followed
  <2> QED
    BY <2>1 DEF IInv
<1>2. CASE StartOperation
  BY <1>1, <1>2, StartKeepsOutline DEF Followed
<1>3. CASE DeleteObject
  BY <1>1, <1>3, DeleteKeepsOutline DEF Followed
<1>4. CASE MakeLocal \/ CallMethod
  BY <1>1, <1>4, MakeKeepsOutline DEF Followed
<1>5. CASE DeleteLocalRef
  BY <1>1, <1>5, DropKeepsOutline DEF Followed
<1>6. CASE WrapLocal
  BY <1>1, <1>6, WrapKeepsOutline DEF Followed
<1>7. CASE DestroyScoped
  BY <1>1, <1>7, DestroyKeepsOutline DEF Followed
<1>8. CASE GiveResult
  BY <1>1, <1>8, GiveKeepsOutline DEF Followed
<1>9. CASE TakeTurn \/ MayRun \/ EndLoop
  BY <1>1, <1>9, LoopKeepsOutline DEF Followed
<1>10. CASE StepThrows
  BY <1>1, <1>10, ThrowKeepsOutline DEF Followed
<1>11. CASE UNCHANGED vars
  <2> USE <1>11 DEF vars
  <2>1. HeldNow' = HeldNow /\ MineRefs' = MineRefs /\ Spent' = Spent /\ Price' = Price
    BY DEF HeldNow, MineRefs, Spent, Price
  <2>2. LocalsPriced' = LocalsPriced
    BY DEF LocalsPriced, Price
  <2>3. OutlineInv'
    BY <2>1, <2>2 DEF OutlineInv, Followed, Matches, Outlined
  <2> QED
    BY <1>1, <2>3 DEF Followed
<1> QED
  BY <1>2, <1>3, <1>4, <1>5, <1>6, <1>7, <1>8, <1>9, <1>10, <1>11 DEF Next

-------------------------------------------------------------------------------
(* Theorems *)

\* In every reachable state what is left of the operation that runs has an outline from an
\* assertion that holds: the references its steps will use are there, each wrapper that is
\* made is destroyed or returned, and its price is enough (Alluxio.cc:185-735).
THEOREM OutlineInvariant == Spec => []Followed
<1>1. Init => Followed
  BY InitInv, InitOutline DEF Followed
<1> QED
  BY <1>1, StepOutline, PTL DEF Spec

\* What a step uses is what the assertion before it has.
LEMMA UsedIsThere ==
  ASSUME NEW o, NEW s, NEW a, NEW b, <<s, a, b>> \in Every(o)
  PROVE  s.uses \subseteq a.has \cup a.held \cup {"options"}
BY EveryIs DEF Covers, WrapsUp, Destroys, Gives

\* No operation uses a local reference that it has deleted, a wrapper that is destroyed, or
\* an object that the application did not pass (the uses of a path's string, an array, a
\* result or a URI in Alluxio.cc).
THEOREM UsesAreLive == Spec => []UsesLive
<1>1. ASSUME Followed PROVE UsesLive
  <2> USE <1>1 DEF Followed, IInv
  <2> SUFFICES ASSUME todo # <<>>, NEW x \in Current.uses
               PROVE  IF x \in LocalVars THEN x \in locals
                      ELSE IF x \in Scoped \cup Raw THEN wraps[x] \in globals
                      ELSE IF x = "options" THEN args[x] \in globals \cup {NoRef}
                      ELSE args[x] \in globals
    BY DEF UsesLive
  <2>1. PICK a \in Assertions, b \in Assertions : Matches(a) /\ <<Current, a, b>> \in Every(op)
    BY NextTriple
  <2>2. x \in a.has \cup a.held \cup {"options"}
    BY <2>1, UsedIsThere
  <2>3. a.has \subseteq LocalVars \cup {"this"} /\ a.held \subseteq Wrappers
    BY DEF Assertions, Known
  <2>4. MineRefs \subseteq globals
    BY DEF OwnedInv, MineRefs
  <2>5. {"this", "options"} \cap (LocalVars \cup Wrappers) = {} /\ LocalVars \cap Wrappers = {}
    BY DEF LocalVars, Wrappers, Scoped, Raw
  <2>6. CASE x \in a.has /\ x # "this"
    <3>1. x \in locals /\ x \in LocalVars
      BY <2>1, <2>3, <2>6 DEF Matches
    <3> QED
      BY <3>1
  <2>7. CASE x \in a.has /\ x = "this"
    <3>1. args[x] \in globals /\ x \notin LocalVars /\ x \notin Scoped \cup Raw /\ x # "options"
      BY <2>1, <2>4, <2>5, <2>7 DEF Matches, Wrappers
    <3> QED
      BY <3>1
  <2>8. CASE x \in a.held
    <3>1. x \in Wrappers /\ wraps[x] # NoRef
      BY <2>1, <2>3, <2>8 DEF Matches, HeldNow
    <3>2. wraps[x] \in globals /\ x \notin LocalVars /\ x \in Scoped \cup Raw
      BY <2>5, <3>1 DEF OwnedInv, Wrappers
    <3> QED
      BY <3>2
  <2>9. CASE x = "options"
    <3>1. args[x] \in globals \cup {NoRef} /\ x \notin LocalVars /\ x \notin Scoped \cup Raw
      BY <2>4, <2>5, <2>9 DEF OutlineInv, Wrappers
    <3> QED
      BY <2>9, <3>1
  <2> QED
    BY <2>2, <2>6, <2>7, <2>8, <2>9
<1> QED
  BY <1>1, OutlineInvariant, PTL

\* When an operation has returned or thrown it has left no more local references than its
\* price, for any number of entries or chunks ("Is there a huge memory leak going on
\* here?", Alluxio.cc:659), and when it has thrown what it held and the reports of every
\* exception it met, of the reports' own failures too (JNIHelper.cc:716-752).
THEOREM LocalReferencesPriced == Spec => []LocalsPriced
<1>1. ASSUME Followed PROVE LocalsPriced
  <2>1. CASE todo = <<>>
    BY <1>1, <2>1 DEF Followed, OutlineInv
  <2>2. CASE todo # <<>>
    BY <2>2 DEF LocalsPriced
  <2> QED
    BY <2>1, <2>2
<1> QED
  BY <1>1, OutlineInvariant, PTL

-------------------------------------------------------------------------------
(* Lost references *)

\* Element by element.
LEMMA LostIs ==
  /\ \A x : x \in Lost <=> /\ x \in globals
                           /\ \A m \in mine : m[2] # x
                           /\ \A w \in Wrappers : wraps[w] # x
  /\ \A x : x \in Lost' <=> /\ x \in globals'
                            /\ \A m \in mine' : m[2] # x
                            /\ \A w \in Wrappers : wraps'[w] # x
<1>1. \A x : x \in Lost <=> x \in globals /\ (\A m \in mine : m[2] # x) /\ (\A w \in Wrappers : wraps[w] # x)
  BY DEF Lost, MineRefs, Wrappers
<1>2. \A x : x \in Lost' <=> x \in globals' /\ (\A m \in mine' : m[2] # x) /\ (\A w \in Wrappers : wraps'[w] # x)
  BY DEF Lost, MineRefs, Wrappers
<1> QED
  BY <1>1, <1>2

\* At most the references of the wrappers in some set of one or two.
LEMMA FewLost ==
  /\ \A x, s : s \subseteq {x} => Cardinality(s) \in Nat /\ Cardinality(s) <= 1
  /\ \A x, y, s : s \subseteq {x, y} => Cardinality(s) \in Nat /\ Cardinality(s) <= 2
<1>1. ASSUME NEW x, NEW s, s \subseteq {x} PROVE Cardinality(s) \in Nat /\ Cardinality(s) <= 1
  <2>1. IsFiniteSet({x}) /\ Cardinality({x}) = 1
    BY FS_Singleton
  <2> QED
    BY <1>1, <2>1, FS_Subset, FS_CardinalityType
<1>2. ASSUME NEW x, NEW y, NEW s, s \subseteq {x, y} PROVE Cardinality(s) \in Nat /\ Cardinality(s) <= 2
  <2>1. IsFiniteSet({x}) /\ Cardinality({x}) = 1
    BY FS_Singleton
  <2>2. {x, y} = {x} \cup {y}
    OBVIOUS
  <2>3. IsFiniteSet({x, y}) /\ Cardinality({x, y}) \in Nat /\ Cardinality({x, y}) <= 2
    <3>1. CASE x = y
      <4>1. {x, y} = {x}
        BY <3>1
      <4> QED
        BY <2>1, <4>1
    <3>2. CASE x # y
      <4>1. IsFiniteSet({x} \cup {y}) /\ Cardinality({x} \cup {y}) = Cardinality({x}) + 1
        BY <2>1, <3>2, FS_AddElement
      <4> QED
        BY <2>1, <2>2, <4>1
    <3> QED
      BY <3>1, <3>2
  <2> QED
    BY <1>2, <2>3, FS_Subset, FS_CardinalityType
<1> QED
  BY <1>1, <1>2

\* Steps that keep the wrappers and the references, or change them together.
LEMMA NothingLost ==
  ASSUME Followed,
         \/ StartOperation \/ DeleteObject \/ MakeLocal \/ CallMethod \/ DeleteLocalRef
         \/ WrapLocal \/ DestroyScoped \/ TakeTurn \/ MayRun \/ EndLoop
  PROVE  Lost' = Lost
<1> USE DEF Followed, IInv
<1>1. CASE UNCHANGED <<wraps, mine, globals>>
  BY <1>1 DEF Lost, MineRefs
<1>2. CASE DeleteObject
  <2>1. PICK m \in mine : mine' = mine \ {m} /\ globals' = globals \ {m[2]}
    BY <1>2 DEF DeleteObject
  <2>2. wraps' = wraps
    BY <1>2 DEF DeleteObject
  <2>3. \A x : x \in Lost <=> x \in Lost'
    BY <2>1, <2>2, LostIs
  <2> QED
    BY <2>3
<1>3. CASE WrapLocal
  <2>1. Current.do = "wrap" /\ todo # <<>> /\ mine' = mine
    BY <1>3 DEF WrapLocal, Doing, Current
  <2>2. PICK a \in Assertions, b \in Assertions : Matches(a) /\ <<Current, a, b>> \in Every(op)
    BY <2>1, NextTriple
  <2>3. WrapsUp(Current, a, b)
    BY <2>1, <2>2, EveryIs DEF Makes, Drops, Destroys, Gives
  <2>4. Current.out \in Wrappers /\ wraps[Current.out] = NoRef
    BY <2>2, <2>3 DEF WrapsUp, Matches, HeldNow
  <2>5. PICK r \in Refs \ globals : /\ wraps' = [wraps EXCEPT ![Current.out] = r]
                                    /\ globals' = globals \cup {r}
    BY <1>3 DEF WrapLocal
  <2>6. wraps'[Current.out] = r /\ \A w \in Wrappers : w # Current.out => wraps'[w] = wraps[w]
    BY <2>4, <2>5 DEF TypeInv
  <2>7. NoRef \notin globals
    BY ReferencesAssumption DEF TypeInv
  <2>8. \A x : x \in Lost <=> x \in Lost'
    BY <2>1, <2>4, <2>5, <2>6, <2>7, LostIs
  <2> QED
    BY <2>8
<1>4. CASE DestroyScoped
  <2>1. Current.do = "destroy" /\ todo # <<>> /\ mine' = mine
    BY <1>4 DEF DestroyScoped, Doing, Current
  <2>2. PICK a \in Assertions, b \in Assertions : Matches(a) /\ <<Current, a, b>> \in Every(op)
    BY <2>1, NextTriple
  <2>3. Destroys(Current, a, b)
    BY <2>1, <2>2, EveryIs DEF Makes, Drops, WrapsUp, Gives
  <2>4. PICK d \in Scoped : Current.uses = {d}
    BY <2>3 DEF Destroys
  <2>5. d \in Wrappers /\ globals' = globals \ {wraps[d]}
    BY <1>4, <2>4, Names DEF DestroyScoped
  <2>6. wraps' = [w \in Wrappers |-> IF w = d THEN NoRef ELSE wraps[w]]
    <3>1. wraps' = [w \in Wrappers |-> IF w \in Current.uses THEN NoRef ELSE wraps[w]]
      BY <1>4 DEF DestroyScoped, Wrappers
    <3> QED
      BY <2>4, <3>1
  <2>7. wraps'[d] = NoRef /\ \A w \in Wrappers : w # d => wraps'[w] = wraps[w]
    BY <2>5, <2>6
  <2>8. NoRef \notin globals
    BY ReferencesAssumption DEF TypeInv
  <2>9. \A x : x \in Lost <=> x \in Lost'
    BY <2>1, <2>5, <2>7, <2>8, LostIs
  <2> QED
    BY <2>9
<1>5. StartOperation \/ MakeLocal \/ CallMethod \/ DeleteLocalRef \/ TakeTurn \/ MayRun \/ EndLoop
        => UNCHANGED <<wraps, mine, globals>>
  BY DEF StartOperation, MakeLocal, CallMethod, DeleteLocalRef, TakeTurn, MayRun, EndLoop
<1> QED
  BY <1>1, <1>2, <1>3, <1>4, <1>5

\* What a step may lose is what the operation forgets.
MayLose(few) ==
  /\ Lost \subseteq Lost'
  /\ op = "openFileForAppend" => Cardinality(Lost' \ Lost) <= few
  /\ op # "openFileForAppend" => Lost' = Lost

LEMMA GiveLoses ==
  ASSUME Followed, GiveResult
  PROVE  failures' = 0 /\ MayLose(1)
<1> USE DEF Followed, IInv
<1>1. /\ todo # <<>> /\ Current.do = "give" /\ wraps' = NoWraps
      /\ UNCHANGED <<op, failures, globals>>
  BY DEF GiveResult, Doing, Current
<1>2. PICK a \in Assertions, b \in Assertions : Matches(a) /\ <<Current, a, b>> \in Every(op)
  BY <1>1, NextTriple
<1>3. Gives(op, Current, a, b)
  BY <1>1, <1>2, EveryIs DEF Makes, Drops, WrapsUp, Destroys
<1>4. PICK w \in Raw : Current.uses = {w} /\ a.held \ {w} \subseteq Forgotten(op) \ {"newFile"}
  BY <1>3 DEF Gives
<1>5. w \in Wrappers /\ a.held = HeldNow
  BY <1>2, Names DEF Matches
<1>6. PICK m : mine' = mine \cup {m} /\ m[2] = wraps[w]
  <2> DEFINE m == <<Operations[op].gives, wraps[w]>>
  <2>1. mine' = mine \cup {m} /\ m[2] = wraps[w]
    BY <1>4 DEF GiveResult
  <2> HIDE DEF m
  <2> QED
    BY <2>1
<1>7. NoRef \notin globals /\ \A v \in Wrappers : wraps'[v] = NoRef
  BY <1>1, NoWrapsIs, ReferencesAssumption DEF TypeInv
<1>8. Lost \subseteq Lost'
  <2>1. \A x : x \in Lost => x \in Lost'
    BY <1>1, <1>5, <1>6, <1>7, LostIs
  <2> QED
    BY <2>1
<1>9. ASSUME NEW x \in Lost' \ Lost
      PROVE  \E v \in Forgotten(op) \ {"newFile"} : wraps[v] = x
  <2>1. x \in globals /\ (\A n \in mine' : n[2] # x) /\ x # NoRef
    BY <1>1, <1>7, LostIs
  <2>2. PICK v \in Wrappers : wraps[v] = x
    BY <1>6, <2>1, LostIs
  <2>3. v \in a.held /\ v # w
    BY <1>5, <1>6, <2>1, <2>2 DEF HeldNow
  <2> QED
    BY <1>4, <2>2, <2>3
<1>10. CASE op = "openFileForAppend"
  <2>1. Forgotten(op) \ {"newFile"} = {"origFile"}
    BY <1>10 DEF Forgotten
  <2>2. Lost' \ Lost \subseteq {wraps["origFile"]}
    BY <1>9, <2>1
  <2>3. Cardinality(Lost' \ Lost) <= 1
    BY <2>2, FewLost, Zenon
  <2> QED
    BY <1>1, <1>8, <1>10, <2>3 DEF MayLose, OutlineInv
<1>11. CASE op # "openFileForAppend"
  <2>1. Forgotten(op) = {}
    BY <1>11 DEF Forgotten
  <2>2. Lost' = Lost
    BY <1>8, <1>9, <2>1
  <2> QED
    BY <1>1, <1>8, <1>11, <2>2 DEF MayLose, OutlineInv
<1> QED
  BY <1>10, <1>11

LEMMA ThrowLoses ==
  ASSUME Followed, StepThrows
  PROVE  failures' > 0 /\ MayLose(2)
<1> USE DEF Followed, IInv
<1>1. /\ todo # <<>> /\ Current.do \in {"allocate", "static", "call"}
      /\ wraps' = NoWraps /\ globals' = globals \ {wraps[w] : w \in Scoped} /\ mine' = mine
  BY DEF StepThrows, Unwind, Doing, Current
<1>2. PICK a \in Assertions, b \in Assertions : Matches(a) /\ <<Current, a, b>> \in Every(op)
  BY <1>1, NextTriple
<1>3. Makes(op, Current, a, b)
  BY <1>1, <1>2, EveryIs DEF Drops, WrapsUp, Destroys, Gives
<1>4. HeldNow \cap Raw \subseteq Forgotten(op)
  BY <1>2, <1>3 DEF Makes, Matches
<1>5. NoRef \notin globals /\ \A v \in Wrappers : wraps'[v] = NoRef
  BY <1>1, NoWrapsIs, ReferencesAssumption DEF TypeInv
<1>6. Lost \subseteq Lost'
  <2>1. \A x : x \in Lost => x \in Lost'
    BY <1>1, <1>5, LostIs, Names
  <2> QED
    BY <2>1
<1>7. ASSUME NEW x \in Lost' \ Lost
      PROVE  \E v \in Forgotten(op) : wraps[v] = x
  <2>1. x \in globals' /\ (\A n \in mine : n[2] # x)
    BY <1>1, LostIs
  <2>2. x \in globals /\ x # NoRef /\ \A w \in Scoped : wraps[w] # x
    BY <1>1, <1>5, <2>1
  <2>3. PICK v \in Wrappers : wraps[v] = x
    BY <2>1, <2>2, LostIs
  <2>4. v \in HeldNow \cap Raw
    BY <2>2, <2>3 DEF HeldNow, Wrappers
  <2> QED
    BY <1>4, <2>3, <2>4
<1>8. failures' > 0
  <2>1. PICK n \in 1..MaxFailures : failures' = n
    BY DEF StepThrows
  <2> QED
    BY <2>1, ReferencesAssumption
<1>9. CASE op = "openFileForAppend"
  <2>1. Forgotten(op) = {"origFile", "newFile"}
    BY <1>9 DEF Forgotten
  <2>2. Lost' \ Lost \subseteq {wraps["origFile"], wraps["newFile"]}
    BY <1>7, <2>1
  <2>3. Cardinality(Lost' \ Lost) <= 2
    BY <2>2, FewLost, Zenon
  <2> QED
    BY <1>1, <1>6, <1>8, <1>9, <2>3 DEF MayLose
<1>10. CASE op # "openFileForAppend"
  <2>1. Forgotten(op) = {}
    BY <1>10 DEF Forgotten
  <2>2. Lost' = Lost
    BY <1>6, <1>7, <2>1
  <2> QED
    BY <1>1, <1>6, <1>8, <1>10, <2>2 DEF MayLose
<1> QED
  BY <1>8, <1>9, <1>10

\* Every global reference that an operation makes is deleted or the application's when it
\* has ended, but for those of openFileForAppend: origFile always, newFile too when the
\* copy throws (Alluxio.cc:594-612).
THEOREM OnlyAppendLosesReferences == Spec => OnlyAppendLoses
<1> DEFINE Allowed == /\ Lost \subseteq Lost'
                      /\ Lost' # Lost => /\ op = "openFileForAppend"
                                         /\ Cardinality(Lost' \ Lost) <= IF failures' > 0 THEN 2 ELSE 1
                      /\ todo # <<>> /\ todo' = <<>> => wraps' = NoWraps
<1>1. ASSUME Followed, Followed', [Next]_vars PROVE Allowed \/ UNCHANGED vars
  <2>1. todo # <<>> /\ todo' = <<>> => wraps' = NoWraps
    <3> SUFFICES ASSUME todo' = <<>> PROVE wraps' = NoWraps
      OBVIOUS
    <3>1. HeldNow' = {} /\ wraps' \in [Wrappers -> Refs \cup {NoRef}]
      BY <1>1 DEF Followed, OutlineInv, IInv, TypeInv
    <3>2. \A w \in Wrappers : wraps'[w] = NoRef
      BY <3>1 DEF HeldNow
    <3>3. NoWraps \in [Wrappers -> Refs \cup {NoRef}] /\ \A w \in Wrappers : NoWraps[w] = NoRef
      BY NoWrapsIs
    <3> QED
      BY <3>1, <3>2, <3>3
  <2>2. CASE \/ StartOperation \/ DeleteObject \/ MakeLocal \/ CallMethod \/ DeleteLocalRef
             \/ WrapLocal \/ DestroyScoped \/ TakeTurn \/ MayRun \/ EndLoop
    <3>1. Lost' = Lost
      BY <1>1, <2>2, NothingLost
    <3> QED
      BY <2>1, <3>1
  <2>3. CASE GiveResult
    <3>1. failures' = 0 /\ MayLose(1)
      BY <1>1, <2>3, GiveLoses
    <3> QED
      BY <2>1, <3>1 DEF MayLose
  <2>4. CASE StepThrows
    <3>1. failures' > 0 /\ MayLose(2)
      BY <1>1, <2>4, ThrowLoses
    <3> QED
      BY <2>1, <3>1 DEF MayLose
  <2> QED
    BY <1>1, <2>2, <2>3, <2>4 DEF Next
<1> HIDE DEF Allowed
<1>2. Followed /\ Followed' /\ [Next]_vars => [Allowed]_vars
  BY <1>1
<1>3. Spec => [][Allowed]_vars
  BY <1>2, OutlineInvariant, PTL DEF Spec
<1> QED
  BY <1>3 DEF OnlyAppendLoses, Allowed
===============================================================================
