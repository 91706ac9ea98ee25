------------------------------ MODULE JniAttach --------------------------------
(***************************************************************************)
(* How the threads of a C++ process share one Java VM: the critical        *)
(* section of JNIHelper::getEnv, the construction and the destruction of   *)
(* AlluxioClientContext, and the objects (JNIObjBase, JNIStringBase) that  *)
(* keep the JNIEnv they were built with.                                   *)
(*                                                                         *)
(* A JNIEnv belongs to one thread; the JVM may hand the one of a detached  *)
(* thread to the next thread that attaches.                                *)
(***************************************************************************)
EXTENDS Naturals, FiniteSets

CONSTANTS
  Threads,     \* threads of the host process
  Envs,        \* JNIEnv pointers the JVM can hand out
  Contexts,    \* AlluxioClientContext objects the application can build
  NoThread, NoEnv, NoContext   \* no owner, NULL, a bare Env is being built

ASSUME SentinelAssumption ==
  /\ NoThread \notin Threads
  /\ NoEnv \notin Envs
  /\ NoContext \notin Contexts

VARIABLES
  vm,          \* TRUE once the process has a Java VM
  envOf,       \* the JVM's own table: the JNIEnv of each attached thread
  lock,        \* holder of JNIHelper::m_env_lock
  pc,          \* where each thread is, "idle" outside the library
  building,    \* the context a thread is constructing
  env,         \* the JNIEnv getEnv returned to a thread
  owner,       \* owner[c]: the thread that built the live context c
  ctxEnv,      \* AlluxioClientContext::m_env
  mustDetach,  \* AlluxioClientContext::m_mustDetachInDtor
  localRefs,   \* contexts whose m_baseFileSystem is a local reference the JVM still knows
  objects,     \* objects[t]: JNIEnvs (m_env) in the live JNIObjBase objects of t
  attachedBy   \* history: contexts whose constructor found its thread not attached

jvmVars == <<vm, envOf>>
ctxVars == <<owner, ctxEnv, mustDetach, localRefs>>
vars == <<vm, envOf, lock, pc, building, env, ctxVars, objects, attachedBy>>

-------------------------------------------------------------------------------
\* JNIHelper::getEnv holds the lock at these points.
Section == {"query", "create", "attach", "unlock", "throw"}
\* A thread works with the JNIEnv it has just obtained at these points.
Using == {"check", "get", "use"}
Labels == {"idle", "lock", "crashed"} \cup Section \cup Using

FreeEnvs == Envs \ {envOf[t] : t \in Threads}
ContextsOf(t) == {c \in Contexts : owner[c] = t}
UnderConstruction == {building[t] : t \in Threads}
Goto(t, label) == pc' = [pc EXCEPT ![t] = label]

\* The host program may have created the VM, and attached threads, by itself.
Init ==
  /\ vm \in BOOLEAN
  /\ envOf \in [Threads -> Envs \cup {NoEnv}]
  /\ \A t \in Threads : envOf[t] # NoEnv => vm
  /\ \A t, u \in Threads : t # u /\ envOf[t] = envOf[u] => envOf[t] = NoEnv
  /\ lock = NoThread
  /\ pc = [t \in Threads |-> "idle"]
  /\ building = [t \in Threads |-> NoContext]
  /\ env = [t \in Threads |-> NoEnv]
  /\ owner = [c \in Contexts |-> NoThread]
  /\ ctxEnv = [c \in Contexts |-> NoEnv]
  /\ mustDetach = [c \in Contexts |-> FALSE]
  /\ localRefs = {}
  /\ objects = [t \in Threads |-> {}]
  /\ attachedBy = {}

-------------------------------------------------------------------------------
(* JNIHelper::getEnv, called by the constructor of every default Env *)

\* `Env env;' in an API function: newURI, the option factories, ByteBuffer::allocate.
NewEnv(t) ==
  /\ pc[t] = "idle"
  /\ Goto(t, "lock")
  /\ UNCHANGED <<jvmVars, lock, building, env, ctxVars, objects, attachedBy>>

\* The constructor of AlluxioClientContext first builds its member m_env.
NewContext(t, c) ==
  /\ pc[t] = "idle"
  /\ owner[c] = NoThread
  /\ c \notin UnderConstruction
  /\ building' = [building EXCEPT ![t] = c]
  /\ attachedBy' = IF envOf[t] = NoEnv THEN attachedBy \cup {c} ELSE attachedBy \ {c}
  /\ Goto(t, "lock")
  /\ UNCHANGED <<jvmVars, lock, env, ctxVars, objects>>

\* Mutant: getEnv without its critical section.
Lock_NotTaken(t) ==
  /\ pc[t] = "lock"
  /\ Goto(t, "query")
  /\ UNCHANGED <<jvmVars, lock, building, env, ctxVars, objects, attachedBy>>

Lock(t) ==
  /\ pc[t] = "lock"
  /\ lock = NoThread
  /\ lock' = t
  /\ Goto(t, "query")
  /\ UNCHANGED <<jvmVars, building, env, ctxVars, objects, attachedBy>>

\* JNI_GetCreatedJavaVMs, and the decision taken on its answer.
QueryVms(t) ==
  /\ pc[t] = "query"
  /\ Goto(t, IF vm THEN "attach" ELSE "create")
  /\ UNCHANGED <<jvmVars, lock, building, env, ctxVars, objects, attachedBy>>

\* JNI_CreateJavaVM attaches its caller; a process can hold one VM only.
CreateVm(t) ==
  /\ pc[t] = "create"
  /\ ~vm
  /\ vm' = TRUE
  /\ \E e \in FreeEnvs :
       /\ envOf' = [envOf EXCEPT ![t] = e]
       /\ env' = [env EXCEPT ![t] = e]
  /\ Goto(t, "unlock")
  /\ UNCHANGED <<lock, building, ctxVars, objects, attachedBy>>

\* Mutant: the JNIEnv is only filled in for a thread that was not attached.
AttachThread_NewOnly(t) ==
  /\ pc[t] = "attach"
  /\ IF envOf[t] # NoEnv THEN UNCHANGED <<envOf, env>>
     ELSE \E e \in FreeEnvs : /\ envOf' = [envOf EXCEPT ![t] = e]
                              /\ env' = [env EXCEPT ![t] = e]
  /\ Goto(t, "unlock")
  /\ UNCHANGED <<vm, lock, building, ctxVars, objects, attachedBy>>

\* JavaVM::AttachCurrentThread gives an attached thread the JNIEnv it has.
AttachThread(t) ==
  /\ pc[t] = "attach"
  /\ \E e \in IF envOf[t] = NoEnv THEN FreeEnvs ELSE {envOf[t]} :
       /\ envOf' = [envOf EXCEPT ![t] = e]
       /\ env' = [env EXCEPT ![t] = e]
  /\ Goto(t, "unlock")
  /\ UNCHANGED <<vm, lock, building, ctxVars, objects, attachedBy>>

\* Mutant: a failing call throws without the unlock.
JniCallFails_KeepsLock(t) ==
  /\ pc[t] \in {"query", "create", "attach"}
  /\ pc[t] = "attach" => envOf[t] = NoEnv
  /\ building' = [building EXCEPT ![t] = NoContext]
  /\ Goto(t, "idle")
  /\ UNCHANGED <<jvmVars, lock, env, ctxVars, objects, attachedBy>>

\* A JNI call of getEnv fails, or CLASSPATH is not set when the VM must be created.
JniCallFails(t) ==
  /\ pc[t] \in {"query", "create", "attach"}
  /\ pc[t] = "attach" => envOf[t] = NoEnv
  /\ Goto(t, "throw")
  /\ UNCHANGED <<jvmVars, lock, building, env, ctxVars, objects, attachedBy>>

Unlock(t) ==
  /\ pc[t] = "unlock"
  /\ lock' = NoThread
  /\ Goto(t, IF building[t] = NoContext THEN "use" ELSE "check")
  /\ UNCHANGED <<jvmVars, building, env, ctxVars, objects, attachedBy>>

\* The std::runtime_error leaves the Env, and the context that holds it, unbuilt.
UnlockAndThrow(t) ==
  /\ pc[t] = "throw"
  /\ lock' = NoThread
  /\ building' = [building EXCEPT ![t] = NoContext]
  /\ Goto(t, "idle")
  /\ UNCHANGED <<jvmVars, env, ctxVars, objects, attachedBy>>

-------------------------------------------------------------------------------
(* AlluxioClientContext::attach, and the life of a context *)

\* JavaVM::GetEnv answers NULL into m_env for a detached thread, and the
\* AttachCurrentThread that would follow starts by dereferencing m_env.
CheckAttached(t) ==
  /\ pc[t] = "check"
  /\ Goto(t, IF envOf[t] = NoEnv THEN "crashed" ELSE "get")
  /\ env' = [env EXCEPT ![t] = envOf[t]]
  /\ mustDetach' = [mustDetach EXCEPT ![building[t]] = (envOf[t] = NoEnv)]
  /\ UNCHANGED <<jvmVars, lock, building, owner, ctxEnv, localRefs, objects, attachedBy>>

\* BaseFileSystem.get() answers a local reference: the constructor returns.
GetBaseFileSystem(t) ==
  /\ pc[t] = "get"
  /\ LET c == building[t] IN
       /\ owner' = [owner EXCEPT ![c] = t]
       /\ ctxEnv' = [ctxEnv EXCEPT ![c] = env[t]]
       /\ localRefs' = localRefs \cup {c}
  /\ building' = [building EXCEPT ![t] = NoContext]
  /\ env' = [env EXCEPT ![t] = NoEnv]
  /\ Goto(t, "idle")
  /\ UNCHANGED <<jvmVars, lock, mustDetach, objects, attachedBy>>

\* It throws: the destructor of a half-built context does not run.
GetBaseFileSystemFails(t) ==
  /\ pc[t] = "get"
  /\ building' = [building EXCEPT ![t] = NoContext]
  /\ env' = [env EXCEPT ![t] = NoEnv]
  /\ Goto(t, "idle")
  /\ UNCHANGED <<jvmVars, lock, ctxVars, objects, attachedBy>>

\* Mutant: every context detaches its thread.
DestroyContext_AlwaysDetach(t, c) ==
  /\ pc[t] = "idle"
  /\ owner[c] = t
  /\ owner' = [owner EXCEPT ![c] = NoThread]
  /\ ctxEnv' = [ctxEnv EXCEPT ![c] = NoEnv]
  /\ mustDetach' = [mustDetach EXCEPT ![c] = FALSE]
  /\ localRefs' = localRefs \ ContextsOf(t)
  /\ envOf' = [envOf EXCEPT ![t] = NoEnv]
  /\ UNCHANGED <<vm, lock, pc, building, env, objects, attachedBy>>

\* ~AlluxioClientContext, by the thread that built the context.
DestroyContext(t, c) ==
  /\ pc[t] = "idle"
  /\ owner[c] = t
  /\ owner' = [owner EXCEPT ![c] = NoThread]
  /\ ctxEnv' = [ctxEnv EXCEPT ![c] = NoEnv]
  /\ mustDetach' = [mustDetach EXCEPT ![c] = FALSE]
  /\ localRefs' = localRefs \ (IF mustDetach[c] THEN ContextsOf(t) ELSE {c})
  /\ envOf' = IF mustDetach[c] THEN [envOf EXCEPT ![t] = NoEnv] ELSE envOf
  /\ UNCHANGED <<vm, lock, pc, building, env, objects, attachedBy>>

-------------------------------------------------------------------------------
(* Objects that wrap a global reference, and the explicit detachment *)

\* Mutant: the Env is reset before the object copies it.
WrapObject_AfterReset(t) ==
  /\ pc[t] = "use"
  /\ env' = [env EXCEPT ![t] = NoEnv]
  /\ objects' = [objects EXCEPT ![t] = @ \cup {env'[t]}]
  /\ Goto(t, "idle")
  /\ UNCHANGED <<jvmVars, lock, building, ctxVars, attachedBy>>

\* The function that declared the Env wraps its result and returns, or throws.
WrapObject(t) ==
  /\ pc[t] = "use"
  /\ objects' \in {objects, [objects EXCEPT ![t] = @ \cup {env[t]}]}
  /\ env' = [env EXCEPT ![t] = NoEnv]
  /\ Goto(t, "idle")
  /\ UNCHANGED <<jvmVars, lock, building, ctxVars, attachedBy>>

\* An operation of the file system wraps its result with the context's Env.
WrapFromContext(t, c) ==
  /\ pc[t] = "idle"
  /\ owner[c] = t
  /\ objects' = [objects EXCEPT ![t] = @ \cup {ctxEnv[c]}]
  /\ UNCHANGED <<jvmVars, lock, pc, building, env, ctxVars, attachedBy>>

\* ~JNIObjBase of the last object of the thread that keeps the JNIEnv e.
DeleteObjects(t, e) ==
  /\ pc[t] = "idle"
  /\ e \in objects[t]
  /\ objects' = [objects EXCEPT ![t] = @ \ {e}]
  /\ UNCHANGED <<jvmVars, lock, pc, building, env, ctxVars, attachedBy>>

\* The application calls Env::DetachCurrentThread when it is done with the library.
DetachCurrentThread(t) ==
  /\ pc[t] = "idle"
  /\ envOf[t] # NoEnv
  /\ ContextsOf(t) = {}
  /\ objects[t] = {}
  /\ envOf' = [envOf EXCEPT ![t] = NoEnv]
  /\ UNCHANGED <<vm, lock, pc, building, env, ctxVars, objects, attachedBy>>

-------------------------------------------------------------------------------
SectionStep(t) ==
  \/ QueryVms(t) \/ CreateVm(t) \/ AttachThread(t) \/ JniCallFails(t)
  \/ Unlock(t) \/ UnlockAndThrow(t)

ThreadStep(t) ==
  \/ NewEnv(t) \/ Lock(t) \/ SectionStep(t)
  \/ CheckAttached(t) \/ GetBaseFileSystem(t) \/ GetBaseFileSystemFails(t)
  \/ WrapObject(t) \/ DetachCurrentThread(t)
  \/ \E c \in Contexts : NewContext(t, c) \/ DestroyContext(t, c) \/ WrapFromContext(t, c)
  \/ \E e \in Envs : DeleteObjects(t, e)

Next == \E t \in Threads : ThreadStep(t)

Spec == Init /\ [][Next]_vars

\* The JNI calls of the critical section return. No thread is obliged to enter
\* it, and a pthread mutex promises no turn to the threads that wait.
Fairness == \A t \in Threads : WF_vars(SectionStep(t))
FairSpec == Spec /\ Fairness

-------------------------------------------------------------------------------
TypeOK ==
  /\ vm \in BOOLEAN
  /\ envOf \in [Threads -> Envs \cup {NoEnv}]
  /\ lock \in Threads \cup {NoThread}
  /\ pc \in [Threads -> Labels]
  /\ building \in [Threads -> Contexts \cup {NoContext}]
  /\ env \in [Threads -> Envs \cup {NoEnv}]
  /\ owner \in [Contexts -> Threads \cup {NoThread}]
  /\ ctxEnv \in [Contexts -> Envs \cup {NoEnv}]
  /\ mustDetach \in [Contexts -> BOOLEAN]
  /\ localRefs \in SUBSET Contexts
  /\ objects \in [Threads -> SUBSET Envs]
  /\ attachedBy \in SUBSET Contexts

\* What getEnv read from JNI_GetCreatedJavaVMs is still true when it acts on
\* it: no second VM is created, and no thread attaches to a VM that is not there.
VmDecisionCurrent ==
  \A t \in Threads : /\ pc[t] = "create" => ~vm
                     /\ pc[t] = "attach" => vm

\* The JNIEnv getEnv hands out is the calling thread's own, and it still is when
\* attach() and the API functions use it; the NULL JNIEnv is never dereferenced.
AcquiredEnvCurrent ==
  \A t \in Threads : /\ pc[t] \in {"unlock"} \cup Using => env[t] = envOf[t] /\ env[t] # NoEnv
                     /\ pc[t] # "crashed"

\* No two threads ever work under the same JNIEnv.
EnvsDistinct ==
  \A t, u \in Threads : t # u /\ envOf[t] = envOf[u] => envOf[t] = NoEnv

\* Every live context and every live object keeps the JNIEnv its thread is
\* attached under, however contexts are nested, destroyed or fail to build:
\* the destructors call into the JVM through it.
HandlesCurrent ==
  /\ \A c \in Contexts : \A t \in Threads :
       owner[c] = t => ctxEnv[c] = envOf[t] /\ envOf[t] # NoEnv
  /\ \A t \in Threads : objects[t] \subseteq {envOf[t]} \ {NoEnv}

\* A live context's m_baseFileSystem is a reference the JVM still knows, and no
\* reference survives the context that must delete it.
LocalRefsOwned == \A c \in Contexts : owner[c] # NoThread <=> c \in localRefs

\* No path out of getEnv, return or throw, keeps the lock.
LockReleased == \A t \in Threads : (lock = t) ~> (lock # t)

\* attach(): "A detach is only done once we tear down the client context of when
\* the thread first attached" (Alluxio.cc:107).
DetachedByFirstContext ==
  [][\A c \in Contexts : \A t \in Threads :
       owner[c] = t /\ c \in attachedBy /\ owner'[c] = NoThread => envOf'[t] = NoEnv]_vars

-------------------------------------------------------------------------------
\* The abstract attachment, with the JNIEnvs that contexts and objects keep as handles.
held == [t \in Threads |-> {ctxEnv[c] : c \in ContextsOf(t)} \cup objects[t]]
Abstract == INSTANCE AttachSpec
AbstractSpec == Abstract!Spec

-------------------------------------------------------------------------------
\* What the critical section, the contexts under construction and the objects
\* keep from one step to the next.
LockInv ==
  /\ \A t \in Threads : lock = t <=> pc[t] \in Section
  /\ \A t \in Threads : envOf[t] # NoEnv => vm

BuildingInv ==
  /\ \A t \in Threads : building[t] # NoContext => owner[building[t]] = NoThread
  /\ \A t, u \in Threads : t # u /\ building[t] = building[u] => building[t] = NoContext
  /\ \A t \in Threads : pc[t] \in {"check", "get"} => building[t] # NoContext
  /\ \A t \in Threads : pc[t] \in {"idle", "use"} => building[t] = NoContext

\* m_mustDetachInDtor is never set: the Env member has attached the thread
\* before attach() asks whether it is.
NeverMustDetach == \A c \in Contexts : mustDetach[c] = FALSE

IInv ==
  /\ TypeOK
  /\ LockInv
  /\ BuildingInv
  /\ NeverMustDetach
  /\ VmDecisionCurrent
  /\ AcquiredEnvCurrent
  /\ EnvsDistinct
  /\ HandlesCurrent
  /\ LocalRefsOwned
===============================================================================
