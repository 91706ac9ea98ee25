---------------------------- MODULE JniAttachProofs ----------------------------
(***************************************************************************)
(* Proofs about JniAttach, for every set of threads, JNIEnvs and contexts: *)
(* the inductive invariant IInv, the safety properties it implies, and the *)
(* refinement of AttachSpec.                                               *)
(***************************************************************************)
EXTENDS JniAttach, TLAPS

\* The state before any call of the library satisfies the inductive invariant.
LEMMA InitInv == Init => IInv
BY SentinelAssumption
   DEF Init, IInv, TypeOK, LockInv, BuildingInv, NeverMustDetach, VmDecisionCurrent,
       AcquiredEnvCurrent, EnvsDistinct, HandlesCurrent, LocalRefsOwned,
       Labels, Section, Using

\* Every step keeps it. The actions are taken in the order of the module; a
\* step is split into conjuncts where the action changes what they speak of.
LEMMA StepInv == IInv /\ [Next]_vars => IInv'
<1> SUFFICES ASSUME IInv, [Next]_vars PROVE IInv'
  OBVIOUS
<1> USE SentinelAssumption
    DEF IInv, TypeOK, LockInv, BuildingInv, NeverMustDetach, VmDecisionCurrent,
        AcquiredEnvCurrent, EnvsDistinct, HandlesCurrent, LocalRefsOwned,
        jvmVars, ctxVars, Goto, Labels, Section, Using
<1>1. ASSUME NEW t \in Threads, NewEnv(t) PROVE IInv'
  BY <1>1 DEF NewEnv
<1>2. ASSUME NEW t \in Threads, NEW c \in Contexts, NewContext(t, c) PROVE IInv'
  BY <1>2 DEF NewContext, UnderConstruction
<1>3. ASSUME NEW t \in Threads, Lock(t) PROVE IInv'
  BY <1>3 DEF Lock
<1>4. ASSUME NEW t \in Threads, QueryVms(t) PROVE IInv'
  BY <1>4 DEF QueryVms
<1>5. ASSUME NEW t \in Threads, CreateVm(t) PROVE IInv'
  BY <1>5 DEF CreateVm, FreeEnvs
<1>6. ASSUME NEW t \in Threads, AttachThread(t) PROVE IInv'
  BY <1>6 DEF AttachThread, FreeEnvs
<1>7. ASSUME NEW t \in Threads, JniCallFails(t) PROVE IInv'
  BY <1>7 DEF JniCallFails
<1>8. ASSUME NEW t \in Threads, Unlock(t) PROVE IInv'
  BY <1>8 DEF Unlock
<1>9. ASSUME NEW t \in Threads, UnlockAndThrow(t) PROVE IInv'
  BY <1>9 DEF UnlockAndThrow
<1>10. ASSUME NEW t \in Threads, CheckAttached(t) PROVE IInv'
  BY <1>10 DEF CheckAttached
<1>11. ASSUME NEW t \in Threads, GetBaseFileSystem(t) PROVE IInv'
  BY <1>11 DEF GetBaseFileSystem
<1>12. ASSUME NEW t \in Threads, GetBaseFileSystemFails(t) PROVE IInv'
  BY <1>12 DEF GetBaseFileSystemFails
<1>13. ASSUME NEW t \in Threads, NEW c \in Contexts, DestroyContext(t, c) PROVE IInv'
  BY <1>13 DEF DestroyContext, ContextsOf
<1>14. ASSUME NEW t \in Threads, WrapObject(t) PROVE IInv'
  BY <1>14 DEF WrapObject
<1>15. ASSUME NEW t \in Threads, NEW c \in Contexts, WrapFromContext(t, c) PROVE IInv'
  BY <1>15 DEF WrapFromContext
<1>16. ASSUME NEW t \in Threads, NEW e \in Envs, DeleteObjects(t, e) PROVE IInv'
  BY <1>16 DEF DeleteObjects
<1>17. ASSUME NEW t \in Threads, DetachCurrentThread(t) PROVE IInv'
  BY <1>17 DEF DetachCurrentThread, ContextsOf
<1>18. CASE UNCHANGED vars
  BY <1>18 DEF vars
<1> QED
  BY <1>1, <1>2, <1>3, <1>4, <1>5, <1>6, <1>7, <1>8, <1>9, <1>10, <1>11, <1>12, <1>13, <1>14, <1>15, <1>16, <1>17, <1>18 DEF Next, ThreadStep, SectionStep

-------------------------------------------------------------------------------
\* IInv holds of every reachable state: the lock is held exactly inside the
\* critical section of getEnv, contexts under construction are not shared, and
\* m_mustDetachInDtor is never set.
THEOREM InductiveInvariant == Spec => []IInv
BY InitInv, StepInv, PTL DEF Spec

\* The variables keep their types.
THEOREM TypeCorrect == Spec => []TypeOK
<1>1. IInv => TypeOK
  BY DEF IInv
<1> QED BY <1>1, InductiveInvariant, PTL

\* getEnv acts on an answer of JNI_GetCreatedJavaVMs that is still true, so that
\* one VM is created however the first calls of the threads interleave.
THEOREM VmDecisionSafe == Spec => []VmDecisionCurrent
<1>1. IInv => VmDecisionCurrent
  BY DEF IInv
<1> QED BY <1>1, InductiveInvariant, PTL

\* A thread only works under the JNIEnv it is attached under, and the branch of
\* AlluxioClientContext::attach that dereferences NULL is not reached.
THEOREM AcquiredEnvSafe == Spec => []AcquiredEnvCurrent
<1>1. IInv => AcquiredEnvCurrent
  BY DEF IInv
<1> QED BY <1>1, InductiveInvariant, PTL

\* The destructors of contexts and objects find the JNIEnv of their thread.
THEOREM HandlesSafe == Spec => []HandlesCurrent
<1>1. IInv => HandlesCurrent
  BY DEF IInv
<1> QED BY <1>1, InductiveInvariant, PTL

\* m_baseFileSystem of a live context is known to the JVM, and is deleted with it.
THEOREM LocalRefsSafe == Spec => []LocalRefsOwned
<1>1. IInv => LocalRefsOwned
  BY DEF IInv
<1> QED BY <1>1, InductiveInvariant, PTL

\* No context detaches its thread, however contexts nest and calls fail:
\* m_mustDetachInDtor is never set, so that the destructor's branch for it
\* (Alluxio.cc:41) is dead. This is the reason behind the run attach_detach.
THEOREM ContextsNeverDetach == Spec => []NeverMustDetach
<1>1. IInv => NeverMustDetach
  BY DEF IInv
<1> QED BY <1>1, InductiveInvariant, PTL

-------------------------------------------------------------------------------
\* The abstract handles depend on the live contexts and the live objects only.
LEMMA SameHandles == UNCHANGED <<owner, ctxEnv, objects>> => UNCHANGED held
BY DEF held, ContextsOf

\* By the invariant, a thread holds its own JNIEnv or nothing.
OwnHandles ==
  /\ DOMAIN held = Threads
  /\ \A t \in Threads : /\ held[t] = {} \/ held[t] = {envOf[t]}
                        /\ ContextsOf(t) # {} => held[t] = {envOf[t]}
                        /\ objects[t] # {} => held[t] = {envOf[t]}
                        /\ ContextsOf(t) = {} /\ objects[t] = {} => held[t] = {}

LEMMA HandlesOfThread == IInv => OwnHandles
<1> SUFFICES ASSUME IInv, NEW t \in Threads
             PROVE  /\ held[t] = {} \/ held[t] = {envOf[t]}
                    /\ ContextsOf(t) # {} => held[t] = {envOf[t]}
                    /\ objects[t] # {} => held[t] = {envOf[t]}
                    /\ ContextsOf(t) = {} /\ objects[t] = {} => held[t] = {}
  BY DEF held, OwnHandles
<1>1. held[t] = {ctxEnv[c] : c \in ContextsOf(t)} \cup objects[t]
  BY DEF held
<1>2. \A c \in ContextsOf(t) : ctxEnv[c] = envOf[t]
  BY DEF IInv, HandlesCurrent, ContextsOf
<1>3. objects[t] \subseteq {envOf[t]}
  BY DEF IInv, HandlesCurrent
<1> QED BY <1>1, <1>2, <1>3

\* Every step of the library is a step of the abstract attachment or leaves it alone.
LEMMA StepRefines == IInv /\ [Next]_vars => [Abstract!Next]_(Abstract!vars)
<1> SUFFICES ASSUME IInv, [Next]_vars PROVE [Abstract!Next]_(Abstract!vars)
  OBVIOUS
<1>a. OwnHandles
  BY HandlesOfThread
<1>b. OwnHandles'
  BY HandlesOfThread, StepInv, PTL
<1> USE SentinelAssumption, SameHandles
    DEF IInv, TypeOK, Abstract!vars, jvmVars, ctxVars
<1>1. ASSUME NEW t \in Threads, CreateVm(t) PROVE Abstract!Next
  <2>1. Abstract!CreateVm(t)
    BY <1>1 DEF CreateVm, Abstract!CreateVm, FreeEnvs, Abstract!FreeEnvs
  <2> QED BY <2>1 DEF Abstract!Next
<1>2. ASSUME NEW t \in Threads, AttachThread(t) PROVE [Abstract!Next]_(Abstract!vars)
  <2>1. CASE envOf[t] = NoEnv
    <3>1. Abstract!Attach(t)
      BY <1>2, <2>1 DEF AttachThread, VmDecisionCurrent, Abstract!Attach, FreeEnvs, Abstract!FreeEnvs
    <3> QED BY <3>1 DEF Abstract!Next
  <2>2. CASE envOf[t] # NoEnv
    <3>1. UNCHANGED <<vm, envOf, held>>
      BY <1>2, <2>2 DEF AttachThread
    <3> QED BY <3>1
  <2> QED BY <2>1, <2>2
<1>3. ASSUME NEW t \in Threads, GetBaseFileSystem(t) PROVE Abstract!Next
  <2>1. building[t] \in Contexts /\ owner[building[t]] = NoThread /\ envOf[t] # NoEnv
    BY <1>3 DEF GetBaseFileSystem, BuildingInv, AcquiredEnvCurrent, Using
  <2>2. building[t] \in ContextsOf(t)'
    BY <1>3, <2>1 DEF GetBaseFileSystem, ContextsOf
  <2>3. UNCHANGED <<vm, envOf, objects>>
    BY <1>3 DEF GetBaseFileSystem
  <2>4. held'[t] = {envOf[t]}
    BY <1>b, <2>2, <2>3 DEF OwnHandles
  <2>5. \A u \in Threads : u # t => held'[u] = held[u]
    BY <1>3, <2>1 DEF GetBaseFileSystem, held, ContextsOf
  <2>6. held' = [held EXCEPT ![t] = {envOf[t]}]
    BY <2>4, <2>5 DEF held
  <2> QED BY <2>1, <2>3, <2>6 DEF Abstract!Next, Abstract!Acquire
<1>4. ASSUME NEW t \in Threads, NEW c \in Contexts, DestroyContext(t, c)
      PROVE  [Abstract!Next]_(Abstract!vars)
  <2>1. UNCHANGED <<vm, envOf, objects>>
    BY <1>4 DEF DestroyContext, NeverMustDetach
  <2>2. held[t] = {envOf[t]}
    BY <1>4, <1>a DEF DestroyContext, ContextsOf, OwnHandles
  <2>3. held'[t] = {} \/ held'[t] = held[t]
    BY <1>b, <2>1, <2>2 DEF OwnHandles
  <2>4. \A u \in Threads : u # t => held'[u] = held[u]
    BY <1>4 DEF DestroyContext, held, ContextsOf
  <2>5. UNCHANGED held \/ held' = [held EXCEPT ![t] = {}]
    <3>1. held'[t] = {} => held' = [held EXCEPT ![t] = {}]
      BY <2>4 DEF held
    <3>2. held'[t] = held[t] => held' = held
      BY <2>4 DEF held
    <3> QED BY <2>3, <3>1, <3>2
  <2> QED BY <2>1, <2>5 DEF Abstract!Next, Abstract!Release
<1>5. ASSUME NEW t \in Threads, WrapObject(t) PROVE [Abstract!Next]_(Abstract!vars)
  <2>1. env[t] = envOf[t] /\ envOf[t] # NoEnv /\ UNCHANGED <<vm, envOf, owner, ctxEnv>>
    BY <1>5 DEF WrapObject, AcquiredEnvCurrent, Using
  <2>2. CASE UNCHANGED objects
    BY <2>1, <2>2
  <2>3. CASE objects' = [objects EXCEPT ![t] = @ \cup {env[t]}]
    <3>1. held'[t] = {envOf[t]}
      BY <1>b, <2>1, <2>3 DEF OwnHandles
    <3>2. \A u \in Threads : u # t => held'[u] = held[u]
      BY <2>1, <2>3 DEF held, ContextsOf
    <3>3. held' = [held EXCEPT ![t] = {envOf[t]}]
      BY <3>1, <3>2 DEF held
    <3> QED BY <2>1, <3>3 DEF Abstract!Next, Abstract!Acquire
  <2> QED BY <1>5, <2>2, <2>3 DEF WrapObject
<1>6. ASSUME NEW t \in Threads, NEW c \in Contexts, WrapFromContext(t, c)
      PROVE  UNCHANGED Abstract!vars
  <2>1. ctxEnv[c] \in {ctxEnv[d] : d \in ContextsOf(t)}
    BY <1>6 DEF WrapFromContext, ContextsOf
  <2>2. UNCHANGED <<vm, envOf, owner, ctxEnv>>
    BY <1>6 DEF WrapFromContext
  <2>3. \A u \in Threads : held'[u] = held[u]
    BY <1>6, <2>1, <2>2 DEF WrapFromContext, held, ContextsOf
  <2> QED BY <2>2, <2>3 DEF held
<1>7. ASSUME NEW t \in Threads, NEW e \in Envs, DeleteObjects(t, e)
      PROVE  [Abstract!Next]_(Abstract!vars)
  <2>1. UNCHANGED <<vm, envOf, owner, ctxEnv>>
    BY <1>7 DEF DeleteObjects
  <2>2. held[t] = {envOf[t]}
    BY <1>7, <1>a DEF DeleteObjects, OwnHandles
  <2>3. held'[t] = {} \/ held'[t] = held[t]
    BY <1>b, <2>1, <2>2 DEF OwnHandles
  <2>4. \A u \in Threads : u # t => held'[u] = held[u]
    BY <1>7, <2>1 DEF DeleteObjects, held, ContextsOf
  <2>5. UNCHANGED held \/ held' = [held EXCEPT ![t] = {}]
    <3>1. held'[t] = {} => held' = [held EXCEPT ![t] = {}]
      BY <2>4 DEF held
    <3>2. held'[t] = held[t] => held' = held
      BY <2>4 DEF held
    <3> QED BY <2>3, <3>1, <3>2
  <2> QED BY <2>1, <2>5 DEF Abstract!Next, Abstract!Release
<1>8. ASSUME NEW t \in Threads, DetachCurrentThread(t) PROVE Abstract!Next
  <2>1. Abstract!Detach(t)
    BY <1>8, <1>a DEF DetachCurrentThread, Abstract!Detach, OwnHandles
  <2> QED BY <2>1 DEF Abstract!Next
<1>9. ASSUME NEW t \in Threads,
             \/ NewEnv(t) \/ Lock(t) \/ QueryVms(t) \/ JniCallFails(t) \/ Unlock(t)
             \/ UnlockAndThrow(t) \/ CheckAttached(t) \/ GetBaseFileSystemFails(t)
             \/ \E c \in Contexts : NewContext(t, c)
      PROVE  UNCHANGED Abstract!vars
  BY <1>9 DEF NewEnv, Lock, QueryVms, JniCallFails, Unlock, UnlockAndThrow, CheckAttached,
              GetBaseFileSystemFails, NewContext
<1>10. ASSUME UNCHANGED vars PROVE UNCHANGED Abstract!vars
  BY <1>10 DEF vars
<1> HIDE DEF IInv, TypeOK, Abstract!vars, jvmVars, ctxVars
<1>11. ASSUME NEW t \in Threads, ThreadStep(t) PROVE [Abstract!Next]_(Abstract!vars)
  BY <1>1, <1>2, <1>3, <1>4, <1>5, <1>6, <1>7, <1>8, <1>9, <1>11 DEF ThreadStep, SectionStep
<1> QED
  BY <1>10, <1>11 DEF Next

\* JniAttach implements AttachSpec: seen from outside, threads attach, take and
\* give back handles of their own JNIEnv, and detach without any.
THEOREM Refinement == Spec => AbstractSpec
<1>1. Init => Abstract!Init
  <2> SUFFICES ASSUME Init PROVE held = [t \in Threads |-> {}]
    BY DEF Init, Abstract!Init
  <2>1. \A t \in Threads : ContextsOf(t) = {}
    BY SentinelAssumption DEF Init, ContextsOf
  <2>2. \A t \in Threads : held[t] = {}
    BY <2>1 DEF held, Init
  <2> QED BY <2>2 DEF held
<1> QED
  BY <1>1, InductiveInvariant, StepRefines, PTL DEF Spec, AbstractSpec, Abstract!Spec

-------------------------------------------------------------------------------
(* How long the lock is held *)

\* The steps a thread still takes with m_env_lock held.
StepsAt(label) ==
  CASE label = "query" -> 3
    [] label \in {"create", "attach"} -> 2
    [] label \in {"unlock", "throw"} -> 1
    [] OTHER -> 0
Left(t) == StepsAt(pc[t])
LeftInv == \A t \in Threads : Left(t) \in 0..3 /\ (Left(t) > 0 <=> lock = t)

\* While a thread holds the lock, whatever any thread does either is a step of the
\* holder inside getEnv, nearer to the unlock, or changes neither the lock nor
\* where the holder is.
HolderGoesOn ==
  [][\A t \in Threads :
       lock = t => \/ SectionStep(t) /\ Left(t)' < Left(t)
                   \/ lock' = t /\ pc'[t] = pc[t]]_vars

\* m_env_lock (JNIHelper.cc:640) is given back after three steps of its holder, on
\* the paths that return and on those that throw: this is what LockReleased rests
\* on, without the fairness.
THEOREM LockHeldForThreeSteps == Spec => []LeftInv /\ HolderGoesOn
<1>1. IInv => LeftInv
  <2> SUFFICES ASSUME IInv, NEW t \in Threads
               PROVE  Left(t) \in 0..3 /\ (Left(t) > 0 <=> lock = t)
    BY DEF LeftInv
  <2>1. /\ Left(t) \in 0..3
        /\ Left(t) > 0 <=> pc[t] \in Section
    BY DEF Left, StepsAt, Section
  <2> QED
    BY <2>1 DEF IInv, LockInv
<1>2. ASSUME IInv, NEW t \in Threads, SectionStep(t) PROVE Left(t)' < Left(t)
  <2>1. pc \in [Threads -> Labels]
    BY <1>2 DEF IInv, TypeOK
  <2>2. CASE QueryVms(t)
    <3>1. pc[t] = "query" /\ pc'[t] \in {"create", "attach"}
      BY <2>1, <2>2 DEF QueryVms, Goto
    <3> QED
      BY <3>1 DEF Left, StepsAt
  <2>3. CASE CreateVm(t) \/ AttachThread(t)
    <3>1. pc[t] \in {"create", "attach"} /\ pc'[t] = "unlock"
      BY <2>1, <2>3 DEF CreateVm, AttachThread, Goto
    <3> QED
      BY <3>1 DEF Left, StepsAt
  <2>4. CASE JniCallFails(t)
    <3>1. pc[t] \in {"query", "create", "attach"} /\ pc'[t] = "throw"
      BY <2>1, <2>4 DEF JniCallFails, Goto
    <3> QED
      BY <3>1 DEF Left, StepsAt
  <2>5. CASE Unlock(t) \/ UnlockAndThrow(t)
    <3>1. pc[t] \in {"unlock", "throw"} /\ pc'[t] \in {"use", "check", "idle"}
      BY <2>1, <2>5 DEF Unlock, UnlockAndThrow, Goto
    <3> QED
      BY <3>1 DEF Left, StepsAt
  <2> QED
    BY <1>2, <2>2, <2>3, <2>4, <2>5 DEF SectionStep
<1>3. ASSUME IInv, NEW t \in Threads, lock = t, NEW u \in Threads, ThreadStep(u), ~SectionStep(t)
      PROVE  lock' = t /\ pc'[t] = pc[t]
  <2>1. /\ pc \in [Threads -> Labels] /\ t # NoThread
        /\ pc[t] \in Section /\ \A v \in Threads : pc[v] \in Section => v = t
    BY <1>3, SentinelAssumption DEF IInv, TypeOK, LockInv
  <2>2. CASE SectionStep(u)
    <3>1. pc[u] \in Section
      BY <2>2 DEF SectionStep, QueryVms, CreateVm, AttachThread, JniCallFails, Unlock,
                  UnlockAndThrow, Section
    <3> QED
      BY <1>3, <2>1, <2>2, <3>1
  <2>3. CASE Lock(u)
    BY <1>3, <2>1, <2>3 DEF Lock
  <2>4. CASE ~SectionStep(u) /\ ~Lock(u)
    <3>1. pc[u] \notin Section /\ lock' = lock /\ (pc' = pc \/ \E label \in Labels : Goto(u, label))
      BY <1>3, <2>4
         DEF ThreadStep, NewEnv, CheckAttached, GetBaseFileSystem, GetBaseFileSystemFails, WrapObject,
             DetachCurrentThread, NewContext, DestroyContext, WrapFromContext, DeleteObjects,
             Section, Using, Labels
    <3> QED
      BY <1>3, <2>1, <3>1 DEF Goto
  <2> QED
    BY <2>2, <2>3, <2>4
<1>4. IInv /\ [Next]_vars =>
        [\A t \in Threads : lock = t => \/ SectionStep(t) /\ Left(t)' < Left(t)
                                        \/ lock' = t /\ pc'[t] = pc[t]]_vars
  BY <1>2, <1>3 DEF Next
<1> QED
  BY <1>1, <1>4, InductiveInvariant, PTL DEF Spec, HolderGoesOn
===============================================================================
