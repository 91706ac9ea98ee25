------------------------------- MODULE JniCalls --------------------------------
(***************************************************************************)
(* How one thread calls Java: Env::callMethodV, newObject, getEnumObject   *)
(* and findClassAndCache, the ClassCache of the thread's JNIEnv, and the   *)
(* translation of Java exceptions into C++ ones, which itself calls Java   *)
(* (the constructor of NativeException fetches the stack trace).           *)
(*                                                                         *)
(* The C++ stack is explicit, top first. A frame says which function runs, *)
(* where it is, the class name it was given, and the Java throwable it has *)
(* wrapped while it builds a NativeException. An exception unwinds the     *)
(* stack one frame at a time through the catch clauses of the code.        *)
(***************************************************************************)
EXTENDS Naturals, Sequences, FiniteSets

CONSTANTS
  Buffers,     \* char buffers the application passes as class names
  Names,       \* class names such a buffer can hold
  NoClass,     \* no entry in the cache
  MaxFaults,   \* bound: Java exceptions raised in an execution
  Reuse        \* TRUE: the application writes another name into a buffer

\* The string literals of getThrowableStackTrace.
Writer == "java/io/StringWriter"
Printer == "java/io/PrintWriter"
Pointers == Buffers \cup {Writer, Printer}

ASSUME CallsAssumption ==
  /\ MaxFaults \in Nat
  /\ Reuse \in BOOLEAN
  /\ NoClass \notin Names \cup {Writer, Printer}
  /\ {Writer, Printer} \cap Buffers = {}

VARIABLES
  stack,     \* the frames of the library's functions, top first
  exc,       \* the C++ exception in flight, or NoException
  pending,   \* a Java exception is pending in the JNIEnv
  faults,    \* Java exceptions, and failed allocations, still to come
  locked,    \* ClassCache::m_lock
  cache,     \* ClassCache::m_cls_map, keyed by pointer
  text,      \* the class name each pointer points to
  refs,      \* pointers whose class has a live global reference made by the cache
  live       \* JavaThrowable objects not deleted

cacheVars == <<locked, cache, refs>>
vars == <<stack, exc, pending, faults, cacheVars, text, live>>

-------------------------------------------------------------------------------
NoDetail == 0
Details == 1..MaxFaults
NoException == [kind |-> "none", detail |-> NoDetail]

Native(d) == [kind |-> "native", detail |-> d]
BadAlloc == [kind |-> "std", detail |-> NoDetail]

Frame(fn, at, p) == [fn |-> fn, at |-> at, ptr |-> p, detail |-> NoDetail]
Top == Head(stack)
Running == stack # <<>> /\ exc = NoException
At(fn, at) == Running /\ Top.fn = fn /\ Top.at = at

Goto(at) == stack' = <<[Top EXCEPT !.at = at]>> \o Tail(stack)
Call(at, frame) == stack' = <<frame, [Top EXCEPT !.at = at]>> \o Tail(stack)
Return == stack' = Tail(stack)

Init ==
  /\ stack = <<>>
  /\ exc = NoException
  /\ pending = FALSE
  /\ faults = MaxFaults
  /\ locked = FALSE
  /\ cache = [p \in Pointers |-> NoClass]
  /\ text \in [Pointers -> Names \cup {Writer, Printer}]
  /\ \A p \in Pointers : IF p \in Buffers THEN text[p] \in Names ELSE text[p] = p
  /\ refs = {}
  /\ live = {}

\* A JNI function or a Java method raises an exception.
Fault == faults > 0 /\ faults' = faults - 1

-------------------------------------------------------------------------------
(* The application *)

StartCall ==
  /\ stack = <<>> /\ exc = NoException
  /\ \E p \in Buffers :
       stack' \in { <<Frame("callMethod", "find", p)>>,      \* callStaticMethod
                    <<Frame("callMethod", "method", p)>>,    \* callMethod
                    <<Frame("newObject", "find", p)>>,
                    <<Frame("getEnumObject", "find", p)>>,
                    <<Frame("get", "lock", p)>> }            \* findClassAndCache
  /\ UNCHANGED <<exc, pending, faults, cacheVars, text, live>>

\* The final handler of an exception frees its detail: NativeException::discard.
HandleException ==
  /\ stack = <<>> /\ exc # NoException
  /\ exc' = NoException
  /\ live' = live \ {exc.detail}
  /\ UNCHANGED <<stack, pending, faults, cacheVars, text>>

ReuseBuffer ==
  /\ Reuse /\ stack = <<>>
  /\ \E p \in Buffers : \E n \in Names : text' = [text EXCEPT ![p] = n]
  /\ UNCHANGED <<stack, exc, pending, faults, cacheVars, live>>

-------------------------------------------------------------------------------
(* callMethodV, newObjectV and getEnumObject have the same four points *)

Callers == {"callMethod", "newObject", "getEnumObject"}

FindForCall ==
  /\ \E fn \in Callers : At(fn, "find")
  /\ Call("method", Frame("get", "lock", Top.ptr))
  /\ UNCHANGED <<exc, pending, faults, cacheVars, text, live>>

\* GetMethodID, GetStaticMethodID or GetStaticFieldID. Its answer is not
\* checked: a NULL id goes into the call that follows, which is undefined.
FindMember ==
  /\ \E fn \in Callers : At(fn, "method")
  /\ \/ Goto("java") /\ UNCHANGED <<pending, faults>>
     \/ Fault /\ pending' = TRUE /\ Goto("undefined")
  /\ UNCHANGED <<exc, cacheVars, text, live>>

\* Call<Type>MethodV, NewObjectV or GetStaticObjectField.
CallJava ==
  /\ \E fn \in Callers : At(fn, "java")
  /\ Goto("check")
  /\ \/ UNCHANGED <<pending, faults>>
     \/ ~pending /\ Fault /\ pending' = TRUE
  /\ UNCHANGED <<exc, cacheVars, text, live>>

NoPending ==
  /\ \E fn \in Callers : At(fn, "check")
  /\ ~pending
  /\ Return
  /\ UNCHANGED <<exc, pending, faults, cacheVars, text, live>>

\* checkExceptionAndClear finds an exception: it is cleared and wrapped, and the
\* constructor of NativeException asks for its stack trace.
BuildNative ==
  LET d == CHOOSE n \in Details \ live : TRUE IN
    /\ stack' = <<Frame("trace", "writer", Writer),
                  [Top EXCEPT !.at = "throw", !.detail = d]>> \o Tail(stack)
    /\ live' = live \cup {d}
    /\ pending' = FALSE

CheckAndClear ==
  /\ \E fn \in Callers : At(fn, "check")
  /\ pending
  /\ BuildNative
  /\ UNCHANGED <<exc, faults, cacheVars, text>>

\* The stack trace is there, or not: the NativeException is thrown.
ThrowNative ==
  /\ Running /\ Top.at = "throw"
  /\ exc' = Native(Top.detail)
  /\ stack' = <<[Top EXCEPT !.detail = NoDetail]>> \o Tail(stack)
  /\ UNCHANGED <<pending, faults, cacheVars, text, live>>

-------------------------------------------------------------------------------
(* ClassCache::get *)

\* A default pthread mutex: a thread that holds it blocks on it for ever.
LockAndLookUp ==
  /\ At("get", "lock")
  /\ ~locked
  /\ \/ cache[Top.ptr] # NoClass /\ Return /\ UNCHANGED locked
     \/ cache[Top.ptr] = NoClass /\ Goto("find") /\ locked' = TRUE
  /\ UNCHANGED <<exc, pending, faults, cache, refs, text, live>>

\* Mutant: findClass reports its exception as checkExceptionAndClear does.
FindClass_WithTrace ==
  /\ At("get", "find")
  /\ \/ ~pending /\ Goto("ref") /\ UNCHANGED <<pending, faults, live>>
     \/ (IF pending THEN UNCHANGED faults ELSE Fault) /\ BuildNative
  /\ UNCHANGED <<exc, cacheVars, text>>

\* Env::findClass. The constructor of ClassNotFoundException asks for no stack trace.
FindClass ==
  /\ At("get", "find")
  /\ \/ /\ ~pending
        /\ Goto("ref")
        /\ UNCHANGED <<exc, pending, faults, live>>
     \/ /\ IF pending THEN UNCHANGED faults ELSE Fault
        /\ LET d == CHOOSE n \in Details \ live : TRUE IN
             exc' = Native(d) /\ live' = live \cup {d}
        /\ pending' = FALSE
        /\ UNCHANGED stack
  /\ UNCHANGED <<cacheVars, text>>

\* Env::newGlobalRef. When it fails, the message of the exception needs the
\* name of the object's class.
NewGlobalRef ==
  /\ At("get", "ref")
  /\ \/ Goto("insert") /\ refs' = refs \cup {Top.ptr} /\ UNCHANGED faults
     \/ Fault /\ Call("refFailed", Frame("getClassName", "name", Top.ptr)) /\ UNCHANGED refs
  /\ UNCHANGED <<exc, pending, locked, cache, text, live>>

ThrowNewGlobalRef ==
  /\ At("get", "refFailed")
  /\ exc' = Native(NoDetail)
  /\ UNCHANGED <<stack, pending, faults, cacheVars, text, live>>

\* Mutant: the key is stored in place of the class.
Insert_Key ==
  /\ At("get", "insert")
  /\ cache' = [cache EXCEPT ![Top.ptr] = Top.ptr]
  /\ locked' = FALSE
  /\ Return
  /\ UNCHANGED <<exc, faults, pending, refs, text, live>>

\* std::map::insert may throw std::bad_alloc.
Insert ==
  /\ At("get", "insert")
  /\ \/ /\ cache' = [cache EXCEPT ![Top.ptr] = text[Top.ptr]]
        /\ locked' = FALSE
        /\ Return
        /\ UNCHANGED <<exc, faults>>
     \/ Fault /\ exc' = BadAlloc /\ UNCHANGED <<stack, cache, locked>>
  /\ UNCHANGED <<pending, refs, text, live>>

\* Env::getClassName: five JNI calls, each followed by checkExceptionAndClear.
GetClassName ==
  /\ At("getClassName", "name")
  /\ \/ Return /\ UNCHANGED <<pending, faults, live>>
     \/ Fault /\ BuildNative
  /\ UNCHANGED <<exc, cacheVars, text>>

-------------------------------------------------------------------------------
(* JNIHelper::getThrowableStackTrace *)

TraceWriters ==
  /\ \/ At("trace", "writer") /\ Call("printer", Frame("newObject", "find", Writer))
     \/ At("trace", "printer") /\ Call("class", Frame("newObject", "find", Printer))
     \/ At("trace", "call") /\ Call("text", Frame("callMethod", "method", Writer))
  /\ UNCHANGED <<exc, pending, faults, cacheVars, text, live>>

\* FindClass and GetMethodID: a NULL answer ends the function, and the
\* exception that explains it stays pending.
TraceLookUp ==
  /\ At("trace", "class") \/ At("trace", "method")
  /\ \/ Goto(IF Top.at = "class" THEN "method" ELSE "print") /\ UNCHANGED <<pending, faults>>
     \/ Fault /\ pending' = TRUE /\ Return
  /\ UNCHANGED <<exc, cacheVars, text, live>>

\* Throwable.printStackTrace(PrintWriter): an exception is left to the next check.
TracePrint ==
  /\ At("trace", "print")
  /\ Goto("call")
  /\ \/ UNCHANGED <<pending, faults>>
     \/ Fault /\ pending' = TRUE
  /\ UNCHANGED <<exc, cacheVars, text, live>>

\* jstringToString clears the exception it may meet; what it answers is not used.
TraceText ==
  /\ At("trace", "text")
  /\ Return
  /\ Fault \/ UNCHANGED faults
  /\ UNCHANGED <<exc, pending, cacheVars, text, live>>

-------------------------------------------------------------------------------
(* Unwinding *)

Unwinding(fn) == stack # <<>> /\ exc # NoException /\ Top.fn = fn

\* callMethod catches to call va_end, and throws again.
UnwindCallMethod ==
  /\ Unwinding("callMethod")
  /\ Return
  /\ UNCHANGED <<exc, pending, faults, cacheVars, text, live>>

\* newObjectV and getEnumObject throw an exception of their own that takes over
\* the detail; newObject looks its class up outside of newObjectV, which has no
\* message for it then.
Rethrow ==
  /\ \/ Unwinding("newObject") /\ Top.at = "throw"
     \/ Unwinding("getEnumObject")
  /\ Return
  /\ UNCHANGED <<exc, pending, faults, cacheVars, text, live>>

UnwindNewObject ==
  /\ Unwinding("newObject") /\ Top.at # "throw"
  /\ Return
  /\ UNCHANGED <<exc, pending, faults, cacheVars, text, live>>

\* Mutants: the catch clause does not unlock; it does not delete the reference.
UnwindGet_KeepsLock ==
  /\ Unwinding("get")
  /\ refs' = IF Top.at = "insert" THEN refs \ {Top.ptr} ELSE refs
  /\ Return
  /\ UNCHANGED <<exc, pending, faults, locked, cache, text, live>>

UnwindGet_KeepsRef ==
  /\ Unwinding("get")
  /\ locked' = FALSE
  /\ Return
  /\ UNCHANGED <<exc, pending, faults, cache, refs, text, live>>

\* "unlock before re-throw"
UnwindGet ==
  /\ Unwinding("get")
  /\ locked' = FALSE
  /\ refs' = IF Top.at = "insert" THEN refs \ {Top.ptr} ELSE refs
  /\ Return
  /\ UNCHANGED <<exc, pending, faults, cache, text, live>>

\* Mutant: the exception is suppressed without discard().
Discard_Forgets ==
  /\ Unwinding("getClassName") \/ Unwinding("trace")
  /\ exc.kind = "native"
  /\ exc' = NoException
  /\ Return
  /\ UNCHANGED <<pending, faults, cacheVars, text, live>>

\* getClassName and getThrowableStackTrace catch a NativeException, discard it and answer false.
Discard ==
  /\ Unwinding("getClassName") \/ Unwinding("trace")
  /\ exc.kind = "native"
  /\ live' = live \ {exc.detail}
  /\ exc' = NoException
  /\ Return
  /\ UNCHANGED <<pending, faults, cacheVars, text>>

\* NativeException::toString stops any other exception, and has a message for it.
SuppressInToString ==
  /\ Unwinding("trace")
  /\ exc.kind = "std"
  /\ exc' = NoException
  /\ Return
  /\ UNCHANGED <<pending, faults, cacheVars, text, live>>

-------------------------------------------------------------------------------
LibraryStep ==
  \/ FindForCall \/ FindMember \/ CallJava \/ NoPending \/ CheckAndClear \/ ThrowNative
  \/ LockAndLookUp \/ FindClass \/ NewGlobalRef \/ ThrowNewGlobalRef \/ Insert \/ GetClassName
  \/ TraceWriters \/ TraceLookUp \/ TracePrint \/ TraceText
  \/ UnwindCallMethod \/ Rethrow \/ UnwindNewObject \/ UnwindGet \/ Discard \/ SuppressInToString

Next == StartCall \/ HandleException \/ ReuseBuffer \/ LibraryStep

Spec == Init /\ [][Next]_vars

\* A sequential program whose JNI calls return goes on.
FairSpec == Spec /\ WF_vars(LibraryStep)

-------------------------------------------------------------------------------
Functions == Callers \cup {"get", "getClassName", "trace"}
Points == {"find", "method", "java", "check", "throw", "undefined", "lock", "ref", "refFailed",
           "insert", "name", "writer", "printer", "class", "print", "call", "text"}

TypeOK ==
  /\ \A k \in DOMAIN stack :
       stack[k] \in [fn : Functions, at : Points, ptr : Pointers, detail : Details \cup {NoDetail}]
  /\ exc \in [kind : {"none", "native", "std"}, detail : Details \cup {NoDetail}]
  /\ {pending, locked} \subseteq BOOLEAN
  /\ faults \in 0..MaxFaults
  /\ cache \in [Pointers -> Names \cup {Writer, Printer, NoClass}]
  /\ text \in [Pointers -> Names \cup {Writer, Printer}]
  /\ refs \subseteq Pointers
  /\ live \subseteq Details

\* "It is up to the final exception handler to free up the exception detail":
\* through wrapping, suppression and nested failures, every throwable that is
\* kept belongs to exactly one exception, thrown or being built.
Owners == [k \in DOMAIN stack |-> stack[k].detail]
DetailsOwned ==
  /\ live = ({exc.detail} \cup {Owners[k] : k \in DOMAIN stack}) \ {NoDetail}
  /\ \A j, k \in DOMAIN stack : Owners[j] = Owners[k] /\ Owners[j] # NoDetail => j = k
  /\ \A k \in DOMAIN stack : Owners[k] = exc.detail => Owners[k] = NoDetail

\* The lock of the cache is held exactly while a miss is being served, whatever
\* is thrown out of it, and by one call of get only.
Serving == {k \in DOMAIN stack : stack[k].fn = "get" /\ stack[k].at # "lock"}
LockFollowsStack == Cardinality(Serving) = IF locked THEN 1 ELSE 0

\* The cache refers to live global references, and no global reference is
\* forgotten by a failed insertion.
RefsCached ==
  /\ \A p \in Pointers : cache[p] # NoClass => p \in refs
  /\ \A p \in refs : \/ cache[p] # NoClass
                     \/ \E k \in DOMAIN stack : stack[k].ptr = p /\ stack[k].at = "insert"

\* Reporting a failure may fail and be reported in turn: the recursion goes
\* deeper only with every exception Java raises.
DepthBounded == Len(stack) <= 2 + 2 * (MaxFaults - faults)

\* Every call returns or throws, unless it waits for the lock that a call of get
\* below it on the same stack holds, or has called Java with a NULL method.
SelfBlocked == At("get", "lock") /\ Serving # {}
Undefined == Running /\ Top.at = "undefined"
CallsEnd == stack # <<>> ~> stack = <<>> \/ SelfBlocked \/ Undefined

\* ClassCache::get: "unlock before re-throw" (JNIHelper.cc:148).
LockReleased == locked ~> ~locked

\* checkExceptionAndClear: "clear the exception in Java before throwing it into
\* C++" (JNIHelper.cc:385).
ClearedBeforeThrow == stack = <<>> /\ exc.kind = "native" => ~pending

\* findClassAndCache is "similar to findClass except that the result would be
\* cached" (JNIHelper.h:252): what it answers is the class of the name it was given.
CachedAnswerCurrent ==
  At("get", "lock") /\ ~locked /\ cache[Top.ptr] # NoClass => cache[Top.ptr] = text[Top.ptr]
===============================================================================
