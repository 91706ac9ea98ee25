----------------------------- MODULE ApiReferences -----------------------------
(***************************************************************************)
(* The JNI references of the API's operations, in one attached thread.     *)
(*                                                                         *)
(* An operation is a program of small steps, each of which may throw. A    *)
(* local reference lives until it is deleted by hand or the thread         *)
(* detaches; a global one belongs to a JNIObjBase or JNIStringBase, whose  *)
(* destructor deletes it. Wrappers are in scope as unique_ptr or stack     *)
(* objects, are raw pointers, or belong to the application.                *)
(*                                                                         *)
(* The local reference m_baseFileSystem is the context's (JniAttach) and   *)
(* the throwable of an exception is the exception's (JniCalls).            *)
(***************************************************************************)
EXTENDS Naturals, Sequences, FiniteSets

CONSTANTS
  Refs,       \* global references the JVM can make
  NoRef,      \* a NULL or empty pointer
  MaxTurns,   \* bound: turns of the loops of listPath and openFileForAppend
  MaxFailures \* bound: exceptions that a step which throws has met

ASSUME ReferencesAssumption ==
  /\ NoRef \notin Refs
  /\ MaxTurns \in Nat
  /\ MaxFailures \in Nat \ {0}

VARIABLES
  op,       \* the name of the operation that runs, or ran last
  todo,     \* the steps it has still to make, <<>> when the application runs
  failures, \* exceptions the step that threw has met: its own, and those of the reports
  turns,    \* turns its loop has made
  args,     \* the application's objects it was given, as references
  locals,   \* its C++ variables that name a live local reference
  leaked,   \* local references it made that no variable names any more
  wraps,    \* wraps[w]: m_obj of the wrapper in the variable w
  mine,     \* the application's wrappers: pairs of a kind and m_obj
  globals   \* live global references

vars == <<op, todo, failures, turns, args, locals, leaked, wraps, mine, globals>>

-------------------------------------------------------------------------------
(* Steps *)

NoVar == "none"
Step(do, out, uses) == [do |-> do, out |-> out, uses |-> uses, caught |-> {}, body |-> <<>>]

Allocate(v) == Step("allocate", v, {})       \* newStringUTF, newByteArray: no report of a failure
MayThrow == Step("allocate", NoVar, {})      \* operator new, an unknown filter
Static(v, uses) == Step("static", v, uses)   \* callStaticMethod, newObject, getEnumObject
Call(v, uses) == Step("call", v, uses)       \* callMethod: GetObjectClass makes a local reference too
Drop(v) == Step("drop", NoVar, {v})          \* DeleteLocalRef
Wrap(v, w) == Step("wrap", w, {v})           \* JNIObjBase(env, v)
Destroy(w) == Step("destroy", NoVar, {w})    \* the end of a unique_ptr or a stack object
Give(w) == Step("give", NoVar, {w})          \* return w
Loop(body) == [Step("loop", NoVar, {}) EXCEPT !.body = body]
Maybe(body) == [Step("maybe", NoVar, {}) EXCEPT !.body = body]

\* Wrappers that a destructor releases when the stack is unwound, and those that
\* are raw pointers.
Scoped == {"uri", "origURI", "newURI", "jKeyObject", "jValueString"}
Raw == {"result", "origFile", "newFile"}
LocalVars == {"jPathStr", "jscheme", "jauthority", "jpath", "retObj", "ret", "enum", "key", "value",
              "defaults", "recursive", "list", "uriObj", "uriString", "status", "jBuf"}

-------------------------------------------------------------------------------
(* Programs *)

\* Mutants: the string is deleted before it is used; it is not deleted.
NewURI_EarlyDelete(w) ==
  <<Allocate("jPathStr"), Drop("jPathStr"), Static("retObj", {"jPathStr"}), Wrap("retObj", w)>>
NewURI_NoDelete(w) ==
  <<Allocate("jPathStr"), Static("retObj", {"jPathStr"}), Wrap("retObj", w)>>

NewURI(w) ==
  <<Allocate("jPathStr"), Static("retObj", {"jPathStr"}), Drop("jPathStr"), Wrap("retObj", w)>>

NewURI3 ==
  <<Allocate("jscheme"), Allocate("jauthority"), Allocate("jpath"),
    Static("retObj", {"jscheme", "jauthority", "jpath"}),
    Drop("jscheme"), Drop("jauthority"), Drop("jpath"), Wrap("retObj", "result"), Give("result")>>

\* A call whose result is wrapped and returned: the option factories and ByteBuffer::allocate,
\* which returns NULL itself when Java answers null.
Factory == <<Static("ret", {}), Wrap("ret", "result"), Give("result")>>
AllocateNull == <<Static(NoVar, {})>>

\* setWriteType and setReadType, with enumObjWriteType and enumObjReadType.
SetType == <<MayThrow, Static("enum", {}), Call("ret", {"this", "enum"})>>

SetStringConstant ==
  <<Static("key", {}), Wrap("key", "jKeyObject"), Allocate("value"), Wrap("value", "jValueString"),
    Static(NoVar, {"jKeyObject", "jValueString"}), Destroy("jValueString"), Destroy("jKeyObject")>>

Connect ==
  SetStringConstant \o SetStringConstant \o SetStringConstant \o SetStringConstant
    \o <<Static(NoVar, {})>>

\* exists, createDirectory and deletePath differ in the method only.
PathCall == NewURI("uri") \o <<Call(NoVar, {"uri"}), Destroy("uri")>>

DeleteRecursive ==
  NewURI("uri") \o
    <<Static("defaults", {}), Call("recursive", {"defaults"}), Call(NoVar, {"uri", "recursive"}),
      Destroy("uri")>>

\* openFile and createFile.
OpenFile(w) ==
  NewURI("uri") \o <<Call("ret", {"uri", "options"}), Wrap("ret", w), Destroy("uri")>>

RenameFile ==
  NewURI("origURI") \o NewURI("newURI")
    \o <<Call(NoVar, {"origURI", "newURI"}), Destroy("newURI"), Destroy("origURI")>>

FileSize ==
  NewURI("uri") \o <<Call("status", {"uri"}), Call(NoVar, {"status"}), Destroy("uri")>>

ListPath ==
  NewURI("uri") \o
    <<Call("list", {"uri"}), Call(NoVar, {"list"}),
      Loop(<<Call("uriObj", {"list"}), Call("uriString", {"uriObj"}), MayThrow>>),
      Destroy("uri")>>

\* InStream::read into a buffer. Its handler deletes the array (Streams says what
\* it deletes when there is none).
Read(s) ==
  <<Allocate("jBuf"), [Call(NoVar, {s, "jBuf"}) EXCEPT !.caught = {"jBuf"}], Drop("jBuf")>>

\* OutStream::write of a buffer has no handler.
Write(s) == <<Allocate("jBuf"), MayThrow, Call(NoVar, {s, "jBuf"}), Drop("jBuf")>>

OpenFileForAppend ==
  LET turn == Read("origFile") \o <<Maybe(Write("newFile"))>> IN
    <<MayThrow>> \o OpenFile("origFile") \o OpenFile("newFile") \o turn \o <<Loop(turn)>>
      \o <<Call(NoVar, {"origFile"}), Give("newFile")>>

CompleteAppend == <<MayThrow, Call(NoVar, {"this"})>> \o PathCall \o RenameFile

\* For each operation its program, the kind of the object it is called on, and of the one it returns.
Operation(program, on, gives) == [program |-> program, on |-> on, gives |-> gives]
Operations ==
  [ newURI |-> Operation(NewURI("result") \o <<Give("result")>>, NoVar, "uri"),
    newURI3 |-> Operation(NewURI3, NoVar, "uri"),
    getOptions |-> Operation(Factory, NoVar, "options"),
    allocate |-> Operation(Factory, NoVar, "buffer"),
    allocateNull |-> Operation(AllocateNull, NoVar, NoVar),
    setType |-> Operation(SetType, "options", NoVar),
    connect |-> Operation(Connect, NoVar, NoVar),
    pathCall |-> Operation(PathCall, NoVar, NoVar),
    deleteRecursive |-> Operation(DeleteRecursive, NoVar, NoVar),
    openFile |-> Operation(OpenFile("result") \o <<Give("result")>>, NoVar, "in"),
    createFile |-> Operation(OpenFile("result") \o <<Give("result")>>, NoVar, "out"),
    renameFile |-> Operation(RenameFile, NoVar, NoVar),
    fileSize |-> Operation(FileSize, NoVar, NoVar),
    listPath |-> Operation(ListPath, NoVar, NoVar),
    openFileForAppend |-> Operation(OpenFileForAppend, NoVar, "out"),
    completeAppend |-> Operation(CompleteAppend, "out", NoVar),
    read |-> Operation(Read("this"), "in", NoVar),
    write |-> Operation(Write("this"), "out", NoVar),
    inCall |-> Operation(<<Call(NoVar, {"this"})>>, "in", NoVar),     \* read(), seek, skip, close
    outCall |-> Operation(<<Call(NoVar, {"this"})>>, "out", NoVar) ]  \* write(int), flush, cancel, close

-------------------------------------------------------------------------------
(* The application *)

Kinds == {"uri", "options", "buffer", "in", "out"}
Objects(kind) == {m[2] : m \in {x \in mine : x[1] = kind}}
MineRefs == {m[2] : m \in mine}
Lost == globals \ (MineRefs \cup {wraps[w] : w \in Scoped \cup Raw})
Program(name) == Operations[name].program
NoArgs == [this |-> NoRef, options |-> NoRef]
NoWraps == [w \in Scoped \cup Raw |-> NoRef]

Init ==
  /\ op = "connect"
  /\ todo = <<>>
  /\ failures = 0
  /\ turns = 0
  /\ args = NoArgs
  /\ locals = {}
  /\ leaked = 0
  /\ wraps = NoWraps
  /\ mine = {}
  /\ globals = {}

\* What the previous operation left stays with the thread: it is not counted again.
\* An operation has up to three wrappers at a time (bound: Refs).
StartOperation ==
  /\ todo = <<>>
  /\ Cardinality(Refs \ globals) >= 3
  /\ \E name \in DOMAIN Operations :
       /\ op' = name
       /\ todo' = Program(name)
       /\ \E on \in IF Operations[name].on = NoVar THEN {NoRef} ELSE Objects(Operations[name].on) :
          \E options \in {NoRef} \cup Objects("options") :
            args' = [this |-> on, options |-> options]
  /\ failures' = 0
  /\ turns' = 0
  /\ leaked' = 0
  /\ locals' = {}
  /\ UNCHANGED <<wraps, mine, globals>>

\* delete of an object the application was given, which runs ~JNIObjBase.
DeleteObject ==
  /\ todo = <<>>
  /\ \E m \in mine : mine' = mine \ {m} /\ globals' = globals \ {m[2]}
  /\ args' = NoArgs
  /\ UNCHANGED <<op, todo, failures, turns, locals, leaked, wraps>>

-------------------------------------------------------------------------------
(* Steps of an operation *)

Doing(do) == todo # <<>> /\ Head(todo).do = do
Current == Head(todo)
Done == todo' = Tail(todo)

\* A variable that named another local reference leaks it.
Assign(v, more) ==
  /\ locals' = IF v = NoVar THEN locals ELSE locals \cup {v}
  /\ leaked' = leaked + more + (IF v \in locals THEN 1 ELSE 0)

MakeLocal ==
  /\ Doing("allocate") \/ Doing("static")
  /\ Done
  /\ Assign(Current.out, 0)
  /\ UNCHANGED <<op, failures, turns, args, wraps, mine, globals>>

CallMethod ==
  /\ Doing("call")
  /\ Done
  /\ Assign(Current.out, 1)
  /\ UNCHANGED <<op, failures, turns, args, wraps, mine, globals>>

DeleteLocalRef ==
  /\ Doing("drop")
  /\ Done
  /\ locals' = locals \ Current.uses
  /\ UNCHANGED <<op, failures, turns, args, leaked, wraps, mine, globals>>

WrapLocal ==
  /\ Doing("wrap")
  /\ Done
  /\ \E r \in Refs \ globals :
       /\ wraps' = [wraps EXCEPT ![Current.out] = r]
       /\ globals' = globals \cup {r}
  /\ locals' = locals \ Current.uses
  /\ UNCHANGED <<op, failures, turns, args, leaked, mine>>

DestroyScoped ==
  /\ Doing("destroy")
  /\ Done
  /\ globals' = globals \ {wraps[w] : w \in Current.uses}
  /\ wraps' = [w \in Scoped \cup Raw |-> IF w \in Current.uses THEN NoRef ELSE wraps[w]]
  /\ UNCHANGED <<op, failures, turns, args, locals, leaked, mine>>

\* Mutants: the pointer is cleared before it is returned; the object is deleted
\* in the function that returns it.
GiveResult_Cleared ==
  /\ Doing("give")
  /\ Done
  /\ wraps' = NoWraps
  /\ \E w \in Current.uses : mine' = mine \cup {<<Operations[op].gives, wraps'[w]>>}
  /\ UNCHANGED <<op, failures, turns, args, locals, leaked, globals>>

GiveResult_Deleted ==
  /\ Doing("give")
  /\ Done
  /\ \E w \in Current.uses :
       /\ mine' = mine \cup {<<Operations[op].gives, wraps[w]>>}
       /\ globals' = globals \ {wraps[w]}
  /\ wraps' = NoWraps
  /\ UNCHANGED <<op, failures, turns, args, locals, leaked>>

\* The function returns the object; a raw pointer that is left goes out of scope.
GiveResult ==
  /\ Doing("give")
  /\ Done
  /\ \E w \in Current.uses : mine' = mine \cup {<<Operations[op].gives, wraps[w]>>}
  /\ wraps' = NoWraps
  /\ UNCHANGED <<op, failures, turns, args, locals, leaked, globals>>

\* A loop goes round again, or ends; the last chunk of a file may be empty.
TakeTurn ==
  /\ Doing("loop")
  /\ turns < MaxTurns
  /\ turns' = turns + 1
  /\ todo' = Current.body \o todo
  /\ UNCHANGED <<op, failures, args, locals, leaked, wraps, mine, globals>>

MayRun ==
  /\ Doing("maybe")
  /\ todo' = Current.body \o Tail(todo)
  /\ UNCHANGED <<op, failures, turns, args, locals, leaked, wraps, mine, globals>>

EndLoop ==
  /\ Doing("loop") \/ Doing("maybe")
  /\ Done
  /\ UNCHANGED <<op, failures, turns, args, locals, leaked, wraps, mine, globals>>

\* The most local references that reports of n exceptions leave, one of which a report
\* met when the one before it failed (CallLocals!LocalsOfFailure).
ReportRefs(n) == 5 * n + 1

\* Mutant: no destructor runs when the stack is unwound.
Unwind_NoDestructors ==
  /\ wraps' = NoWraps
  /\ locals' = {}
  /\ UNCHANGED globals

\* Destructors run for what is in scope; raw pointers are forgotten, and so are
\* local references.
Unwind ==
  /\ globals' = globals \ {wraps[w] : w \in Scoped}
  /\ wraps' = NoWraps
  /\ locals' = {}

StepThrows ==
  /\ Doing("allocate") \/ Doing("static") \/ Doing("call")
  /\ todo' = <<>>
  /\ \E n \in 1..MaxFailures :
       /\ failures' = n
       /\ \E reports \in IF Doing("allocate") THEN {0} ELSE 0..ReportRefs(n) :
            leaked' = leaked + Cardinality(locals \ Current.caught) + reports
                        + (IF Doing("call") THEN 1 ELSE 0)
  /\ Unwind
  /\ UNCHANGED <<op, turns, args, mine>>

Next ==
  \/ StartOperation \/ DeleteObject
  \/ MakeLocal \/ CallMethod \/ DeleteLocalRef \/ WrapLocal \/ DestroyScoped \/ GiveResult
  \/ TakeTurn \/ MayRun \/ EndLoop \/ StepThrows

Spec == Init /\ [][Next]_vars

-------------------------------------------------------------------------------
TypeOK ==
  /\ op \in DOMAIN Operations
  /\ failures \in 0..MaxFailures
  /\ turns \in 0..MaxTurns
  /\ args \in [{"this", "options"} -> Refs \cup {NoRef}]
  /\ locals \subseteq LocalVars
  /\ leaked \in Nat
  /\ wraps \in [Scoped \cup Raw -> Refs \cup {NoRef}]
  /\ mine \subseteq Kinds \X Refs
  /\ globals \subseteq Refs

\* Every wrapper, in scope or the application's, has a live global reference of
\* its own, whatever has thrown: none is deleted twice or used by two owners. (An
\* application that copies a JNIObjBase breaks this by itself; no code of the library does.)
GlobalsOwned ==
  LET inScope == {w \in Scoped \cup Raw : wraps[w] # NoRef} IN
    /\ MineRefs \cup {wraps[w] : w \in inScope} \subseteq globals
    /\ Cardinality(mine) = Cardinality(MineRefs)
    /\ \A v, w \in inScope : wraps[v] = wraps[w] => v = w
    /\ \A w \in inScope : wraps[w] \notin MineRefs

\* A step uses a reference only while it is live: strings, arrays and results are
\* not deleted too early, nor URIs destroyed before the call they are passed to.
UsesLive ==
  todo # <<>> =>
    \A x \in Current.uses :
      IF x \in LocalVars THEN x \in locals
      ELSE IF x \in Scoped \cup Raw THEN wraps[x] \in globals
      ELSE IF x = "options" THEN args[x] \in globals \cup {NoRef}
      ELSE args[x] \in globals

\* When the application runs, nothing of an operation is left in scope; no global
\* reference is lost but by openFileForAppend: origFile always, newFile when it throws.
OnlyAppendLoses ==
  [][ /\ Lost \subseteq Lost'
      /\ Lost' # Lost => /\ op = "openFileForAppend"
                         /\ Cardinality(Lost' \ Lost) <= IF failures' > 0 THEN 2 ELSE 1
      /\ todo # <<>> /\ todo' = <<>> => wraps' = NoWraps ]_vars

\* What an operation leaves of local references when it returns ("Is there a huge
\* memory leak going on here?", Alluxio.cc:659): nothing, a fixed number, or a
\* number for each entry or chunk; and, when it throws, the reports and the strings
\* or the array it held.
Price ==
  CASE op \in {"newURI", "newURI3", "getOptions", "allocate", "allocateNull", "connect"} -> 0
    [] op \in {"setType", "fileSize", "completeAppend"} -> 3
    [] op = "deleteRecursive" -> 4
    [] op = "listPath" -> 3 + 4 * turns
    [] op = "openFileForAppend" -> 3 + 2 * (turns + 1)
    [] OTHER -> 1

LocalsPriced ==
  todo = <<>> =>
    leaked + Cardinality(locals) <=
      IF failures > 0 THEN Price + ReportRefs(failures) + (IF op = "newURI3" THEN 3 ELSE 1) ELSE Price
===============================================================================
