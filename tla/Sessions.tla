------------------------------- MODULE Sessions --------------------------------
(***************************************************************************)
(* Threads that attach, connect to Alluxio, build client contexts, detach, *)
(* and the end of the process. What they share is the configuration kept   *)
(* by the Java classes Configuration and ClientContext, which connect sets *)
(* key by key without a lock, and the class caches, one for each JNIEnv,   *)
(* which outlive the attachment they were filled under.                    *)
(*                                                                         *)
(* Attachment is AttachSpec, which JniAttach implements. What a call does  *)
(* with an exception is in JniCalls; here its report is a further sequence *)
(* of look-ups, the last one of a call that fails.                         *)
(***************************************************************************)
EXTENDS Integers

CONSTANTS
  Threads, Envs, NoEnv,   \* see AttachSpec
  Main,       \* the thread that runs main
  LastKey,    \* connect sets the keys 1..LastKey (four in the code)
  LastReport, \* a report makes the calls 1..LastReport (two in the code)
  NoValue,    \* what the configuration holds before the first connect
  NoThread,   \* nobody holds a lock
  MaxFaults  \* bound: Java exceptions and failed allocations in an execution

ASSUME SessionsAssumption ==
  /\ Main \in Threads
  /\ NoEnv \notin Envs
  /\ LastKey \in Nat \ {0}
  /\ LastReport \in 1..2
  /\ NoValue \notin Threads
  /\ NoThread \notin Threads
  /\ MaxFaults \in Nat

VARIABLES
  vm, envOf, held,   \* see AttachSpec; a context is a handle
  pc,          \* where each thread is in the library, "idle" outside
  step,        \* step[t]: which call of Java it makes
  env,         \* env[t]: the JNIEnv in the Env it works with
  cache,       \* cache[e]: names of the classes in the ClassCache of e
  holder,      \* holder[e]: the thread that holds ClassCache::m_lock of e, or NoThread
  refs,        \* refs[e][c]: global references to class c made for the cache of e, and live
  conf,        \* Configuration: the thread whose connect set each key
  solo,        \* history: the thread in a connect that no other connect has overlapped
  faults       \* Java exceptions, and failed allocations, still to come

Attachment == INSTANCE AttachSpec

attachVars == <<vm, envOf, held>>
cacheVars == <<cache, holder, refs>>
confVars == <<conf, solo>>
vars == <<attachVars, pc, step, env, cacheVars, confVars, faults>>

-------------------------------------------------------------------------------
(* The calls of Java a thread makes, in order, each after a look-up *)

Context == [kind |-> "context", at |-> 1]
Connect(at) == [kind |-> "connect", at |-> at]
Report(at) == [kind |-> "report", at |-> at]
NoStep == [kind |-> "none", at |-> 0]

\* setAlluxioStringConstant reads the key from Constants, then calls
\* Configuration.set; the last call is ClientContext.init.
LastStep == 2 * LastKey + 1
Steps ==
  {NoStep, Context} \cup {Connect(at) : at \in 1..LastStep} \cup {Report(at) : at \in 1..LastReport}
Writers == <<"StringWriter", "PrintWriter">>
ClassOf(s) ==
  CASE s.kind = "context" -> "BaseFileSystem"
    [] s.kind = "connect" /\ s.at = LastStep -> "ClientContext"
    [] s.kind = "connect" /\ s.at % 2 = 1 /\ s.at # LastStep -> "Constants"
    [] s.kind = "connect" /\ s.at % 2 = 0 -> "Configuration"
    [] s.kind = "report" -> Writers[s.at]
Classes == {"Constants", "Configuration", "ClientContext", "BaseFileSystem",
            "StringWriter", "PrintWriter"}

InLibrary == {"env", "get", "find", "insert", "java"}
Connecting(t) == step[t].kind = "connect"
AllOf(v) == [k \in 1..LastKey |-> v]

Init ==
  /\ Attachment!Init
  /\ pc = [t \in Threads |-> "idle"]
  /\ step = [t \in Threads |-> NoStep]
  /\ env = [t \in Threads |-> NoEnv]
  /\ cache = [e \in Envs |-> {}]
  /\ holder = [e \in Envs |-> NoThread]
  /\ refs = [e \in Envs |-> [c \in Classes |-> 0]]
  /\ conf = AllOf(NoValue)
  /\ solo = {}
  /\ faults = MaxFaults

Running(t) == pc[Main] \notin {"exit", "exited", "crashed"} /\ pc[t] = "idle"
Goto(t, label) == pc' = [pc EXCEPT ![t] = label]

\* The function returns or throws.
End(t) ==
  /\ Goto(t, "idle")
  /\ step' = [step EXCEPT ![t] = NoStep]
  /\ env' = [env EXCEPT ![t] = NoEnv]

-------------------------------------------------------------------------------
(* AlluxioClientContext: connect, constructor, destructor *)

StartConnect(t) ==
  /\ Running(t)
  /\ Goto(t, "env")
  /\ step' = [step EXCEPT ![t] = Connect(1)]
  /\ solo' = IF \E u \in Threads : Connecting(u) THEN {} ELSE {t}
  /\ UNCHANGED <<attachVars, env, cacheVars, conf, faults>>

StartContext(t) ==
  /\ Running(t) /\ held[t] = {}
  /\ Goto(t, "env")
  /\ step' = [step EXCEPT ![t] = Context]
  /\ UNCHANGED <<attachVars, env, cacheVars, confVars, faults>>

\* The context's own reference goes; its destructor's detachment, or the one the
\* application asks of Env::DetachCurrentThread, is the next action.
DestroyContext(t) ==
  /\ Running(t) /\ held[t] # {}
  /\ Attachment!Release(t)
  /\ UNCHANGED <<pc, step, env, cacheVars, confVars, faults>>

Detach(t) ==
  /\ Running(t) /\ envOf[t] # NoEnv
  /\ Attachment!Detach(t)
  /\ UNCHANGED <<pc, step, env, cacheVars, confVars, faults>>

\* The Env of the function, or of the context, attaches the thread if need be.
GetEnv(t) ==
  /\ pc[t] = "env"
  /\ \/ envOf[t] # NoEnv /\ UNCHANGED attachVars
     \/ envOf[t] = NoEnv /\ (Attachment!CreateVm(t) \/ Attachment!Attach(t))
  /\ env' = [env EXCEPT ![t] = envOf'[t]]
  /\ Goto(t, "get")
  /\ UNCHANGED <<step, cacheVars, confVars, faults>>

-------------------------------------------------------------------------------
(* ClassCaches::getCache and ClassCache::get for the class of a call *)

\* getCache finds or makes the cache of a JNIEnv under m_cache_lock. No cache is
\* ever taken out of the map.
CacheOf(e) == e

\* A JNI function or a Java method raises an exception, or an allocation fails. All that
\* is left of the call is the throw; a report that fails so is discarded, and then the
\* call throws what was being reported.
Fail(t) ==
  /\ faults > 0 /\ faults' = faults - 1
  /\ End(t)
  /\ solo' = solo \ {t}

\* After the nth exception the report comes before the throw.
FailWithReport(t, n) ==
  /\ faults >= n /\ faults' = faults - n
  /\ Goto(t, "get")
  /\ step' = [step EXCEPT ![t] = Report(1)]
  /\ solo' = solo \ {t}
  /\ UNCHANGED env

\* A default pthread mutex: a thread that holds it blocks on it for ever.
LockAndLookUp(t) ==
  LET e == CacheOf(env[t]) IN
    /\ pc[t] = "get"
    /\ holder[e] = NoThread
    /\ \/ ClassOf(step[t]) \in cache[e] /\ Goto(t, "java") /\ UNCHANGED holder
       \/ /\ ClassOf(step[t]) \notin cache[e]
          /\ Goto(t, "find")
          /\ holder' = [holder EXCEPT ![e] = t]
    /\ UNCHANGED <<attachVars, step, env, cache, refs, confVars, faults>>

\* findClass finds the class, and newGlobalRef makes a reference to it.
FindClass(t) ==
  LET e == CacheOf(env[t]) IN
    /\ pc[t] = "find"
    /\ Goto(t, "insert")
    /\ refs' = [refs EXCEPT ![e][ClassOf(step[t])] = @ + 1]
    /\ UNCHANGED <<attachVars, step, env, cache, holder, confVars, faults>>

\* Mutant: the class that was found is not kept.
Insert_Forgets(t) ==
  LET e == CacheOf(env[t]) IN
    /\ pc[t] = "insert"
    /\ Goto(t, "java")
    /\ holder' = [holder EXCEPT ![e] = NoThread]
    /\ UNCHANGED <<attachVars, step, env, cache, refs, confVars, faults>>

Insert(t) ==
  LET e == CacheOf(env[t]) IN
    /\ pc[t] = "insert"
    /\ Goto(t, "java")
    /\ cache' = [cache EXCEPT ![e] = @ \cup {ClassOf(step[t])}]
    /\ holder' = [holder EXCEPT ![e] = NoThread]
    /\ UNCHANGED <<attachVars, step, env, refs, confVars, faults>>

\* Mutant: the lock is not given back.
LookUpFails_KeepsLock(t) ==
  /\ pc[t] = "find"
  /\ Fail(t)
  /\ UNCHANGED <<attachVars, cacheVars, conf>>

\* There is no such class, or no reference to it: unlock, and throw. These exceptions
\* ask for no stack trace.
LookUpFails(t) ==
  /\ pc[t] = "find"
  /\ Fail(t)
  /\ holder' = [holder EXCEPT ![CacheOf(env[t])] = NoThread]
  /\ UNCHANGED <<attachVars, cache, refs, conf>>

\* There is no reference, and getClassName, which newGlobalRef calls for the message
\* with m_lock still held, meets an exception too. That one is reported.
ReportUnderLock(t) ==
  /\ pc[t] = "find"
  /\ FailWithReport(t, 2)
  /\ UNCHANGED <<attachVars, cacheVars, conf>>

\* std::map::insert throws std::bad_alloc: the reference is deleted, unlock, and throw.
InsertFails(t) ==
  LET e == CacheOf(env[t]) IN
    /\ pc[t] = "insert"
    /\ Fail(t)
    /\ refs' = [refs EXCEPT ![e][ClassOf(step[t])] = @ - 1]
    /\ holder' = [holder EXCEPT ![e] = NoThread]
    /\ UNCHANGED <<attachVars, cache, conf>>

-------------------------------------------------------------------------------
(* The Java side of a call *)

\* Mutant: the last key is not set.
SetsKey_ButLast(s) == s.kind = "connect" /\ s.at % 2 = 0 /\ s.at # 2 * LastKey

SetsKey(s) == s.kind = "connect" /\ s.at % 2 = 0
GoesOn(s) ==
  \/ s.kind = "connect" /\ s.at # LastStep
  \/ s.kind = "report" /\ s.at # LastReport

\* When a report is made, so is the exception it is for, and the call throws it.
Java(t) ==
  LET s == step[t] IN
    /\ pc[t] = "java"
    /\ conf' = IF SetsKey(s) THEN [conf EXCEPT ![s.at \div 2] = t] ELSE conf
    /\ IF GoesOn(s)
         THEN /\ Goto(t, "get")
              /\ step' = [step EXCEPT ![t].at = @ + 1]
              /\ UNCHANGED <<env, solo>>
         ELSE End(t) /\ solo' = solo \ {t}
    /\ IF s.kind = "context" THEN Attachment!Acquire(t) ELSE UNCHANGED attachVars
    /\ UNCHANGED <<cacheVars, faults>>

\* checkExceptionAndClear reports the exception. In a report it reports it again,
\* and the report that failed is given up with it.
JavaThrows(t) ==
  /\ pc[t] = "java"
  /\ FailWithReport(t, 1)
  /\ UNCHANGED <<attachVars, cacheVars, conf>>

-------------------------------------------------------------------------------
(* The end of the process *)

\* main returns, or exit is called; the application has stopped using the library.
Exit ==
  /\ \A t \in Threads : pc[t] = "idle"
  /\ Goto(Main, "exit")
  /\ UNCHANGED <<attachVars, step, env, cacheVars, confVars, faults>>

\* ~ClassCaches runs in the exiting thread: each ~ClassCache deletes its references
\* through the JNIEnv it was made for. If that is not the JNIEnv of this thread, but
\* another thread's or nobody's, what happens is undefined: they go, or the process dies.
DestroyCache(e) ==
  /\ pc[Main] = "exit"
  /\ cache[e] # {}
  /\ \/ /\ refs' = [refs EXCEPT ![e] = [c \in Classes |-> IF c \in cache[e] THEN @[c] - 1 ELSE @[c]]]
        /\ cache' = [cache EXCEPT ![e] = {}]
        /\ UNCHANGED pc
     \/ e # envOf[Main] /\ Goto(Main, "crashed") /\ UNCHANGED <<cache, refs>>
  /\ UNCHANGED <<attachVars, step, env, holder, confVars, faults>>

Exited ==
  /\ pc[Main] = "exit"
  /\ \A e \in Envs : cache[e] = {}
  /\ Goto(Main, "exited")
  /\ UNCHANGED <<attachVars, step, env, cacheVars, confVars, faults>>

-------------------------------------------------------------------------------
LibraryStep(t) ==
  \/ GetEnv(t) \/ LockAndLookUp(t) \/ FindClass(t) \/ Insert(t)
  \/ LookUpFails(t) \/ ReportUnderLock(t) \/ InsertFails(t)
  \/ Java(t) \/ JavaThrows(t)

Next ==
  \/ \E t \in Threads : \/ StartConnect(t) \/ StartContext(t) \/ DestroyContext(t) \/ Detach(t)
                        \/ LibraryStep(t)
  \/ Exit \/ Exited \/ \E e \in Envs : DestroyCache(e)

Spec == Init /\ [][Next]_vars

\* A thread in a call goes on: JNI calls return, and a lock that is free is not
\* contended (NeverContended), so that no turn is asked of a mutex.
FairSpec == Spec /\ \A t \in Threads : WF_vars(LibraryStep(t))

-------------------------------------------------------------------------------
TypeOK ==
  /\ envOf \in [Threads -> Envs \cup {NoEnv}]
  /\ held \in [Threads -> SUBSET Envs]
  /\ pc \in [Threads -> {"idle", "exit", "exited", "crashed"} \cup InLibrary]
  /\ step \in [Threads -> Steps]
  /\ env \in [Threads -> Envs \cup {NoEnv}]
  /\ cache \in [Envs -> SUBSET Classes]
  /\ holder \in [Envs -> Threads \cup {NoThread}]
  /\ refs \in [Envs -> [Classes -> 0..1]]
  /\ conf \in [1..LastKey -> Threads \cup {NoValue}]
  /\ solo \subseteq Threads
  /\ faults \in 0..MaxFaults

\* The report of a failure under m_lock waits for the m_lock its own thread holds.
SelfBlocked(t) == pc[t] = "get" /\ step[t] = Report(1) /\ holder[CacheOf(env[t])] = t

\* Because a cache belongs to a JNIEnv and a JNIEnv to one thread at a time, no
\* thread ever finds the lock of its cache held by another: not even one that was
\* given the JNIEnv, and so the cache, of a thread that detached. If it finds the
\* lock held at all, it is blocked on itself by the report of its own failure.
NeverContended ==
  \A t \in Threads : pc[t] = "get" => holder[CacheOf(env[t])] = NoThread \/ SelfBlocked(t)

\* However threads come and go, and whatever fails, a class has one live reference
\* for each cache that knows it, or is about to.
Inserting(e, c) == \E t \in Threads : pc[t] = "insert" /\ env[t] = e /\ ClassOf(step[t]) = c
RefsCounted ==
  \A e \in Envs, c \in Classes :
    refs[e][c] = IF c \in cache[e] \/ Inserting(e, c) THEN 1 ELSE 0

\* ClientContext.init never reads the values of two connects mixed, though connect
\* sets them one by one and may throw in between, unless two connects overlapped:
\* init comes last, after every key was set anew.
WholeConfiguration ==
  \A t \in solo : step[t].at = LastStep => conf = AllOf(t)

\* A thread in the library works with its own JNIEnv, and so with a cache no other
\* thread uses, though the JNIEnv may have been that of a thread that detached.
OwnEnv ==
  \A t \in Threads : pc[t] \in InLibrary \ {"env"} => env[t] # NoEnv /\ env[t] = envOf[t]

\* connect and the constructor return or throw in every thread, whatever the others
\* do, also in another thread that has blocked itself, unless it blocks itself.
CallsEnd ==
  \A t \in Threads : []<>(pc[t] \notin InLibrary \/ SelfBlocked(t))
===============================================================================
