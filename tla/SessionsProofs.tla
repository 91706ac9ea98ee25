---------------------------- MODULE SessionsProofs -----------------------------
(***************************************************************************)
(* Proofs about Sessions, for any number of threads, JNIEnvs and keys: the *)
(* inductive invariant, and the safety properties it implies.              *)
(***************************************************************************)
EXTENDS Sessions, TLAPS

-------------------------------------------------------------------------------
(* The inductive invariant *)

EnvsDistinct ==
  \A t, u \in Threads : t # u /\ envOf[t] = envOf[u] => envOf[t] = NoEnv

\* A thread in the library has a call of Java to make.
StepsRun == \A t \in Threads : pc[t] \in InLibrary <=> step[t] # NoStep

\* The lock of a cache is held by the thread that serves a miss with it, for a class
\* that is not in it yet, or reports a failure without having given it back.
LookingUp == {"find", "insert"}
HoldsAt(label, s) == label \in LookingUp \/ (label = "get" /\ s = Report(1))
Holds(t) == HoldsAt(pc[t], step[t])
LockInv ==
  /\ \A t \in Threads : pc[t] \in LookingUp =>
       holder[env[t]] = t /\ ClassOf(step[t]) \notin cache[env[t]]
  /\ \A e \in Envs : holder[e] # NoThread => Holds(holder[e]) /\ env[holder[e]] = e

\* When the process ends no thread is in the library.
ExitInv ==
  /\ \A t \in Threads : pc[t] \in {"exit", "exited", "crashed"} => t = Main
  /\ pc[Main] \in {"exit", "exited", "crashed"} =>
       \A t \in Threads : t # Main => pc[t] = "idle"

\* A connect that runs alone has set the keys that are behind it.
SoloInv ==
  \A t \in solo : /\ Connecting(t)
                  /\ \A u \in Threads : Connecting(u) => u = t
                  /\ \A k \in 1..LastKey : 2 * k < step[t].at => conf[k] = t

IInv ==
  /\ TypeOK /\ EnvsDistinct /\ StepsRun /\ OwnEnv /\ LockInv /\ RefsCounted
  /\ ExitInv /\ SoloInv

-------------------------------------------------------------------------------
\* Every call names a class (JNIHelper.cc:432,552).
LEMMA ClassOfCall == \A s \in Steps : s # NoStep => ClassOf(s) \in Classes
<1> SUFFICES ASSUME NEW s \in Steps, s # NoStep PROVE ClassOf(s) \in Classes
  OBVIOUS
<1>1. CASE s = Context
  BY <1>1 DEF ClassOf, Classes, Context
<1>2. CASE \E at \in 1..LastStep : s = Connect(at)
  <2> PICK at \in 1..LastStep : s = Connect(at)
    BY <1>2
  <2>1. at \in Int /\ at % 2 \in {0, 1}
    BY SessionsAssumption DEF LastStep
  <2>2. s.kind = "connect" /\ s.at = at
    BY DEF Connect
  <2> QED
    BY <2>1, <2>2 DEF ClassOf, Classes
<1>3. CASE \E at \in 1..LastReport : s = Report(at)
  BY <1>3, SessionsAssumption DEF ClassOf, Classes, Report, Writers
<1> QED
  BY <1>1, <1>2, <1>3 DEF Steps

\* The state before any call satisfies the invariant.
LEMMA InitInv == Init => IInv
BY SessionsAssumption
   DEF Init, Attachment!Init, IInv, TypeOK, EnvsDistinct, StepsRun, OwnEnv, LockInv, RefsCounted,
       ExitInv, SoloInv, InLibrary, LookingUp, Holds, HoldsAt, Inserting, Steps, AllOf, NoStep, Connect

\* A step that neither begins nor ends a look-up keeps what is said of look-ups.
LEMMA SameLookUps ==
  ASSUME LockInv, RefsCounted, TypeOK,
         cacheVars' = cacheVars,
         \A u \in Threads : pc'[u] \in LookingUp => pc[u] \in LookingUp,
         \A u \in Threads : pc[u] \in LookingUp \cup {"get"} =>
           pc'[u] = pc[u] /\ step'[u] = step[u] /\ env'[u] = env[u]
  PROVE  LockInv' /\ RefsCounted'
<1>1. cache' = cache /\ holder' = holder /\ refs' = refs
  BY DEF cacheVars
<1>2. \A u \in Threads : pc'[u] = "insert" <=> pc[u] = "insert"
  BY DEF LookingUp
<1>3. \A u \in Threads : Holds(u) => HoldsAt(pc'[u], step'[u]) /\ env'[u] = env[u]
  BY DEF Holds, HoldsAt
<1>4. LockInv'
  <2>1. \A t \in Threads : pc'[t] \in LookingUp =>
          holder'[env'[t]] = t /\ ClassOf(step'[t]) \notin cache'[env'[t]]
    BY <1>1 DEF LockInv
  <2>2. \A e \in Envs : holder[e] # NoThread => holder[e] \in Threads
    BY DEF TypeOK
  <2>3. \A e \in Envs : holder'[e] # NoThread => HoldsAt(pc'[holder'[e]], step'[holder'[e]]) /\ env'[holder'[e]] = e
    BY <1>1, <1>3, <2>2 DEF LockInv
  <2>4. \A t \in Threads : ClassOf(step[t])' = ClassOf(step'[t])
    BY DEF ClassOf
  <2> QED
    BY <2>1, <2>3, <2>4 DEF LockInv, Holds, HoldsAt
<1>5. \A e \in Envs, c \in Classes : Inserting(e, c)' <=> Inserting(e, c)
  BY <1>2 DEF Inserting, LookingUp
<1>6. RefsCounted'
  BY <1>1, <1>5 DEF RefsCounted
<1> QED
  BY <1>4, <1>6

-------------------------------------------------------------------------------
(* The steps of the application *)

LEMMA StartConnectInv ==
  ASSUME IInv, NEW t \in Threads, StartConnect(t) PROVE IInv'
<1> USE SessionsAssumption DEF IInv, attachVars, Running, Goto, InLibrary, LookingUp
<1>1. step' = [step EXCEPT ![t] = Connect(1)] /\ Connect(1) \in Steps /\ Connect(1) # NoStep
      /\ Connect(1).kind = "connect" /\ Connect(1).at = 1
  BY DEF StartConnect, Steps, LastStep, Connect, NoStep
<1>2. TypeOK'
  BY <1>1 DEF StartConnect, TypeOK, cacheVars
<1>3. EnvsDistinct' /\ StepsRun' /\ OwnEnv' /\ ExitInv'
  BY <1>1 DEF StartConnect, TypeOK, EnvsDistinct, StepsRun, OwnEnv, ExitInv
<1>4. LockInv' /\ RefsCounted'
  BY <1>1, SameLookUps DEF StartConnect, TypeOK
<1>5. SoloInv'
  BY <1>1 DEF StartConnect, TypeOK, SoloInv, Connecting
<1> QED
  BY <1>2, <1>3, <1>4, <1>5

LEMMA StartContextInv ==
  ASSUME IInv, NEW t \in Threads, StartContext(t) PROVE IInv'
<1> USE SessionsAssumption DEF IInv, attachVars, Running, Goto, InLibrary, LookingUp
<1>1. step' = [step EXCEPT ![t] = Context] /\ Context \in Steps /\ Context # NoStep
      /\ Context.kind = "context"
  BY DEF StartContext, Steps, Context, NoStep
<1>2. TypeOK'
  BY <1>1 DEF StartContext, TypeOK, cacheVars, confVars
<1>3. EnvsDistinct' /\ StepsRun' /\ OwnEnv' /\ ExitInv'
  BY <1>1 DEF StartContext, TypeOK, EnvsDistinct, StepsRun, OwnEnv, ExitInv
<1>4. LockInv' /\ RefsCounted'
  BY <1>1, SameLookUps DEF StartContext, TypeOK
<1>5. step[t] = NoStep /\ NoStep.kind = "none"
  BY DEF StartContext, StepsRun, NoStep
<1>6. SoloInv'
  BY <1>1, <1>5 DEF StartContext, TypeOK, SoloInv, Connecting, confVars
<1> QED
  BY <1>2, <1>3, <1>4, <1>6

LEMMA DestroyContextInv ==
  ASSUME IInv, NEW t \in Threads, DestroyContext(t) PROVE IInv'
<1> USE DEF IInv, Running, DestroyContext, Attachment!Release
<1>1. TypeOK'
  BY DEF TypeOK, cacheVars, confVars
<1>2. EnvsDistinct' /\ StepsRun' /\ OwnEnv' /\ ExitInv'
  BY DEF EnvsDistinct, StepsRun, OwnEnv, ExitInv
<1>3. LockInv' /\ RefsCounted'
  BY SameLookUps
<1>4. SoloInv'
  BY DEF SoloInv, Connecting, confVars
<1> QED
  BY <1>1, <1>2, <1>3, <1>4

LEMMA DetachInv ==
  ASSUME IInv, NEW t \in Threads, Detach(t) PROVE IInv'
<1> USE DEF IInv, Running, Detach, Attachment!Detach
<1>1. TypeOK'
  BY DEF TypeOK, cacheVars, confVars
<1>2. EnvsDistinct' /\ StepsRun' /\ ExitInv'
  BY DEF TypeOK, EnvsDistinct, StepsRun, ExitInv
<1>3. OwnEnv'
  BY DEF TypeOK, OwnEnv, InLibrary
<1>4. LockInv' /\ RefsCounted'
  BY SameLookUps
<1>5. SoloInv'
  BY DEF SoloInv, Connecting, confVars
<1> QED
  BY <1>1, <1>2, <1>3, <1>4, <1>5

LEMMA GetEnvInv ==
  ASSUME IInv, NEW t \in Threads, GetEnv(t) PROVE IInv'
<1> USE SessionsAssumption
    DEF IInv, Goto, GetEnv, attachVars, InLibrary, LookingUp, Attachment!FreeEnvs,
        Attachment!CreateVm, Attachment!Attach
<1>1. /\ envOf' \in [Threads -> Envs \cup {NoEnv}] /\ envOf'[t] # NoEnv
      /\ held' = held
      /\ \A u \in Threads : u # t => envOf'[u] = envOf[u] /\ envOf[u] # envOf'[t]
  BY DEF TypeOK, EnvsDistinct
<1>2. TypeOK'
  BY <1>1 DEF TypeOK, cacheVars, confVars
<1>3. EnvsDistinct' /\ StepsRun' /\ OwnEnv' /\ ExitInv'
  BY <1>1 DEF TypeOK, EnvsDistinct, StepsRun, OwnEnv, ExitInv
<1>4. LockInv' /\ RefsCounted'
  BY <1>1, SameLookUps DEF TypeOK
<1>5. SoloInv'
  BY DEF SoloInv, Connecting, confVars
<1> QED
  BY <1>2, <1>3, <1>4, <1>5

-------------------------------------------------------------------------------
(* The steps of a look-up *)

\* A thread in the library has a JNIEnv of its own, and a class to look for.
LEMMA OwnCall ==
  ASSUME IInv, NEW t \in Threads, pc[t] \in {"get", "find", "insert", "java"}
  PROVE  /\ env[t] \in Envs /\ ClassOf(step[t]) \in Classes
         /\ \A u \in Threads : pc[u] \in {"get", "find", "insert", "java"} /\ env[u] = env[t] => u = t
<1>1. env[t] # NoEnv /\ env[t] = envOf[t] /\ env[t] \in Envs
  BY DEF IInv, OwnEnv, TypeOK, InLibrary
<1>2. step[t] \in Steps /\ step[t] # NoStep
  BY DEF IInv, TypeOK, StepsRun, InLibrary
<1>3. \A u \in Threads : pc[u] \in {"get", "find", "insert", "java"} => env[u] = envOf[u]
  BY DEF IInv, OwnEnv, InLibrary
<1> QED
  BY <1>1, <1>2, <1>3, ClassOfCall DEF IInv, EnvsDistinct

LEMMA LockAndLookUpInv ==
  ASSUME IInv, NEW t \in Threads, LockAndLookUp(t) PROVE IInv'
<1> USE SessionsAssumption DEF IInv, Goto, LockAndLookUp, CacheOf, attachVars, confVars
<1> DEFINE e == env[t]
<1>1. pc[t] = "get" /\ e \in Envs /\ holder[e] = NoThread
  BY OwnCall
<1>2. /\ \/ pc' = [pc EXCEPT ![t] = "java"] /\ holder' = holder
         \/ /\ pc' = [pc EXCEPT ![t] = "find"] /\ holder' = [holder EXCEPT ![e] = t]
            /\ ClassOf(step[t]) \notin cache[e]
      /\ UNCHANGED <<vm, envOf, held, step, env, cache, refs, conf, solo, faults>>
  OBVIOUS
<1> HIDE DEF LockAndLookUp, e
<1>3. TypeOK'
  <2>1. pc' \in [Threads -> {"idle", "exit", "exited", "crashed"} \cup InLibrary]
    BY <1>2 DEF TypeOK, InLibrary
  <2>2. holder' \in [Envs -> Threads \cup {NoThread}]
    BY <1>2 DEF TypeOK
  <2> QED
    BY <1>2, <2>1, <2>2 DEF TypeOK
<1>4. EnvsDistinct' /\ ExitInv' /\ StepsRun' /\ OwnEnv'
  BY <1>1, <1>2 DEF TypeOK, EnvsDistinct, ExitInv, StepsRun, OwnEnv, InLibrary
<1>5. LockInv'
  <2>1. \A d \in Envs : holder[d] # NoThread => holder[d] \in Threads /\ holder[d] # t
    BY <1>1 DEF TypeOK, LockInv, e
  <2>2. \A u \in Threads : u # t => pc'[u] = pc[u]
    BY <1>2 DEF TypeOK
  <2>3. \A u \in Threads : u # t /\ pc[u] \in LookingUp => env[u] # e
    BY <1>1 DEF LockInv
  <2>4. CASE pc' = [pc EXCEPT ![t] = "java"] /\ holder' = holder
    BY <1>1, <1>2, <2>1, <2>2, <2>4 DEF TypeOK, LockInv, LookingUp, Holds, HoldsAt
  <2>5. CASE /\ pc' = [pc EXCEPT ![t] = "find"] /\ holder' = [holder EXCEPT ![e] = t]
             /\ ClassOf(step[t]) \notin cache[e]
    <3>1. \A u \in Threads : pc'[u] \in LookingUp =>
            holder'[env[u]] = u /\ ClassOf(step[u]) \notin cache[env[u]]
      BY <1>1, <2>2, <2>3, <2>5 DEF TypeOK, LockInv, e
    <3>2. \A d \in Envs : holder'[d] # NoThread =>
            HoldsAt(pc'[holder'[d]], step[holder'[d]]) /\ env[holder'[d]] = d
      BY <1>1, <2>1, <2>2, <2>5 DEF TypeOK, LockInv, Holds, HoldsAt, LookingUp, e
    <3> QED
      BY <1>2, <3>1, <3>2 DEF LockInv, Holds, HoldsAt
  <2> QED
    BY <1>2, <2>4, <2>5
<1>6. \A d \in Envs, c \in Classes : Inserting(d, c)' <=> Inserting(d, c)
  BY <1>1, <1>2 DEF TypeOK, Inserting
<1>7. RefsCounted'
  BY <1>2, <1>6 DEF RefsCounted
<1>8. SoloInv'
  BY <1>2 DEF SoloInv, Connecting
<1> QED
  BY <1>3, <1>4, <1>5, <1>7, <1>8

LEMMA FindClassInv ==
  ASSUME IInv, NEW t \in Threads, FindClass(t) PROVE IInv'
<1> USE SessionsAssumption DEF IInv, Goto, FindClass, CacheOf, attachVars, confVars
<1> DEFINE c == ClassOf(step[t])
<1>1. pc[t] = "find" /\ env[t] \in Envs /\ c \in Classes /\ c \notin cache[env[t]]
  BY OwnCall DEF LockInv, LookingUp
<1>2. \A d \in Classes : ~Inserting(env[t], d)
  BY <1>1, OwnCall DEF Inserting
<1>3. refs[env[t]][c] = 0
  BY <1>1, <1>2 DEF RefsCounted
<1>4. TypeOK'
  <2>1. refs' \in [Envs -> [Classes -> 0..1]]
    BY <1>1, <1>3 DEF TypeOK
  <2> QED
    BY <2>1 DEF TypeOK, InLibrary
<1>5. EnvsDistinct' /\ StepsRun' /\ OwnEnv' /\ ExitInv'
  BY <1>1 DEF TypeOK, EnvsDistinct, StepsRun, OwnEnv, ExitInv, InLibrary
<1>6. LockInv'
  BY <1>1 DEF TypeOK, LockInv, LookingUp, Holds, HoldsAt
<1>7. \A e \in Envs, d \in Classes :
        Inserting(e, d)' <=> Inserting(e, d) \/ (e = env[t] /\ d = c)
  BY <1>1, <1>2 DEF TypeOK, Inserting
<1>8. \A e \in Envs, d \in Classes :
        refs'[e][d] = IF e = env[t] /\ d = c THEN 1 ELSE refs[e][d]
  BY <1>1, <1>3 DEF TypeOK
<1>9. RefsCounted'
  BY <1>1, <1>7, <1>8 DEF RefsCounted
<1>10. SoloInv'
  BY DEF SoloInv, Connecting
<1> QED
  BY <1>4, <1>5, <1>6, <1>9, <1>10

LEMMA InsertInv ==
  ASSUME IInv, NEW t \in Threads, Insert(t) PROVE IInv'
<1> USE SessionsAssumption DEF IInv, Goto, Insert, CacheOf, attachVars, confVars
<1> DEFINE c == ClassOf(step[t])
<1>1. pc[t] = "insert" /\ env[t] \in Envs /\ c \in Classes
  BY OwnCall
<1>2. \A u \in Threads : pc[u] \in LookingUp /\ env[u] = env[t] => u = t
  BY <1>1, OwnCall DEF LookingUp
<1>3. TypeOK'
  BY <1>1 DEF TypeOK, InLibrary
<1>4. EnvsDistinct' /\ StepsRun' /\ OwnEnv' /\ ExitInv'
  BY <1>1 DEF TypeOK, EnvsDistinct, StepsRun, OwnEnv, ExitInv, InLibrary
<1>5. LockInv'
  <2>1. \A u \in Threads : u # t => pc'[u] = pc[u]
    BY DEF TypeOK
  <2>2. \A d \in Envs : d # env[t] => holder'[d] = holder[d] /\ cache'[d] = cache[d] /\ holder[d] # t
    BY DEF TypeOK, LockInv
  <2>3. pc'[t] = "java" /\ holder'[env[t]] = NoThread
    BY <1>1 DEF TypeOK
  <2>4. \A u \in Threads : u # t /\ pc[u] \in LookingUp => env[u] \in Envs /\ env[u] # env[t]
    BY <1>2, OwnCall DEF LookingUp
  <2>5. \A d \in Envs : holder[d] # NoThread => holder[d] \in Threads
    BY DEF TypeOK
  <2>6. step' = step /\ env' = env
    OBVIOUS
  <2> HIDE DEF Insert
  <2>7. \A u \in Threads : pc'[u] \in LookingUp =>
          holder'[env[u]] = u /\ ClassOf(step[u]) \notin cache'[env[u]]
    BY <2>1, <2>2, <2>3, <2>4 DEF LockInv, LookingUp
  <2>8. \A d \in Envs : holder'[d] # NoThread => HoldsAt(pc'[holder'[d]], step'[holder'[d]]) /\ env[holder'[d]] = d
    BY <2>1, <2>2, <2>3, <2>5, <2>6 DEF LockInv, Holds, HoldsAt
  <2> QED
    BY <2>6, <2>7, <2>8 DEF LockInv, Holds, HoldsAt
<1>6. \A e \in Envs, d \in Classes :
        Inserting(e, d)' <=> Inserting(e, d) /\ ~(e = env[t] /\ d = c)
  BY <1>1, <1>2 DEF TypeOK, Inserting, LookingUp
<1>7. \A e \in Envs, d \in Classes : d \in cache'[e] <=> d \in cache[e] \/ (e = env[t] /\ d = c)
  BY <1>1 DEF TypeOK
<1>8. Inserting(env[t], c)
  BY <1>1 DEF Inserting
<1>10. RefsCounted'
  BY <1>6, <1>7, <1>8 DEF RefsCounted
<1>11. SoloInv'
  BY DEF SoloInv, Connecting
<1> QED
  BY <1>3, <1>4, <1>5, <1>10, <1>11

\* What is common to the steps that end a call: `End' of a thread in the library.
LEMMA EndInv ==
  ASSUME IInv, NEW t \in Threads, pc[t] \in {"find", "insert", "java"}, End(t),
         vm' = vm, envOf' = envOf, solo' \subseteq solo, t \notin solo'
  PROVE  /\ pc' \in [Threads -> {"idle", "exit", "exited", "crashed"} \cup InLibrary]
         /\ step' \in [Threads -> Steps] /\ env' \in [Threads -> Envs \cup {NoEnv}]
         /\ EnvsDistinct' /\ StepsRun' /\ OwnEnv' /\ ExitInv'
         /\ \A u \in solo' : \A v \in Threads : Connecting(v)' <=> Connecting(v) /\ v # t
<1> USE DEF IInv, End, Goto, TypeOK
<1>1. step'[t] = NoStep /\ NoStep \in Steps /\ NoStep.kind = "none"
  BY DEF Steps, NoStep
<1>2. EnvsDistinct' /\ ExitInv'
  BY DEF EnvsDistinct, ExitInv
<1>3. StepsRun' /\ OwnEnv'
  BY <1>1 DEF StepsRun, OwnEnv, InLibrary
<1> QED
  BY <1>1, <1>2, <1>3 DEF Connecting, InLibrary

\* A failure under the lock gives the lock back.
LEMMA UnlockInv ==
  ASSUME IInv, NEW t \in Threads, pc[t] \in LookingUp, End(t), cache' = cache,
         holder' = [holder EXCEPT ![env[t]] = NoThread]
  PROVE  LockInv'
<1> USE DEF IInv
<1>1. env[t] \in Envs /\ \A u \in Threads : pc[u] \in LookingUp /\ env[u] = env[t] => u = t
  BY OwnCall DEF LookingUp
<1>2. \A u \in Threads : u # t => pc'[u] = pc[u] /\ step'[u] = step[u] /\ env'[u] = env[u]
  BY DEF End, Goto, TypeOK
<1>3. pc'[t] = "idle"
  BY DEF End, Goto, TypeOK
<1>4. holder'[env[t]] = NoThread
      /\ \A e \in Envs : e # env[t] => holder'[e] = holder[e] /\ holder[e] # t
  BY <1>1, SessionsAssumption DEF TypeOK, LockInv
<1>5. \A e \in Envs : holder[e] # NoThread => holder[e] \in Threads
  BY DEF TypeOK
<1>6. \A u \in Threads : pc[u] \in LookingUp => env[u] \in Envs
  BY OwnCall DEF LookingUp
<1>7. \A u \in Threads : pc'[u] \in LookingUp =>
        holder'[env'[u]] = u /\ ClassOf(step'[u]) \notin cache'[env'[u]]
  BY <1>1, <1>2, <1>3, <1>4, <1>6 DEF LockInv, LookingUp
<1>8. \A e \in Envs : holder'[e] # NoThread => HoldsAt(pc'[holder'[e]], step'[holder'[e]]) /\ env'[holder'[e]] = e
  BY <1>2, <1>4, <1>5 DEF LockInv, Holds, HoldsAt
<1>9. \A u \in Threads : ClassOf(step[u])' = ClassOf(step'[u])
  BY DEF ClassOf
<1> QED
  BY <1>7, <1>8, <1>9 DEF LockInv, Holds, HoldsAt

LEMMA LookUpFailsInv ==
  ASSUME IInv, NEW t \in Threads, LookUpFails(t) PROVE IInv'
<1> USE SessionsAssumption DEF IInv, LookUpFails, Fail, CacheOf, attachVars
<1>1. pc[t] = "find"
  OBVIOUS
<1>2. /\ pc' \in [Threads -> {"idle", "exit", "exited", "crashed"} \cup InLibrary]
      /\ step' \in [Threads -> Steps] /\ env' \in [Threads -> Envs \cup {NoEnv}]
      /\ EnvsDistinct' /\ StepsRun' /\ OwnEnv' /\ ExitInv'
      /\ \A u \in solo' : \A v \in Threads : Connecting(v)' <=> Connecting(v) /\ v # t
  BY <1>1, EndInv
<1>3. TypeOK'
  <2>1. /\ holder' \in [Envs -> Threads \cup {NoThread}]
        /\ faults' \in 0..MaxFaults
        /\ solo' \subseteq Threads
    <3>1. holder' \in [Envs -> Threads \cup {NoThread}]
      BY DEF TypeOK
    <3>2. faults' \in 0..MaxFaults /\ solo' \subseteq Threads
      BY DEF TypeOK
    <3> QED
      BY <3>1, <3>2
  <2>2. UNCHANGED <<envOf, held, cache, refs, conf>>
    OBVIOUS
  <2> QED
    BY <1>2, <2>1, <2>2 DEF TypeOK
<1>4. \A u \in Threads : u # t => pc'[u] = pc[u] /\ step'[u] = step[u] /\ env'[u] = env[u]
  BY DEF End, Goto, TypeOK
<1>5. pc'[t] = "idle"
  BY DEF End, Goto, TypeOK
<1>6. LockInv'
  BY <1>1, UnlockInv DEF LookingUp
<1>7. \A e \in Envs, c \in Classes : Inserting(e, c)' <=> Inserting(e, c)
  BY <1>1, <1>4, <1>5 DEF Inserting
<1>8. RefsCounted'
  BY <1>7 DEF RefsCounted
<1>9. SoloInv'
  BY <1>2, <1>4 DEF SoloInv, TypeOK
<1> QED
  BY <1>2, <1>3, <1>6, <1>8, <1>9

LEMMA InsertFailsInv ==
  ASSUME IInv, NEW t \in Threads, InsertFails(t) PROVE IInv'
<1> USE SessionsAssumption DEF IInv, InsertFails, Fail, CacheOf, attachVars
<1> DEFINE c == ClassOf(step[t])
<1>1. /\ pc[t] = "insert" /\ env[t] \in Envs /\ c \in Classes /\ c \notin cache[env[t]]
      /\ \A u \in Threads : pc[u] = "insert" /\ env[u] = env[t] => u = t
  BY OwnCall DEF LockInv, LookingUp
<1>2. /\ pc' \in [Threads -> {"idle", "exit", "exited", "crashed"} \cup InLibrary]
      /\ step' \in [Threads -> Steps] /\ env' \in [Threads -> Envs \cup {NoEnv}]
      /\ EnvsDistinct' /\ StepsRun' /\ OwnEnv' /\ ExitInv'
      /\ \A u \in solo' : \A v \in Threads : Connecting(v)' <=> Connecting(v) /\ v # t
  BY <1>1, EndInv
<1>3. refs[env[t]][c] = 1
  BY <1>1 DEF RefsCounted, Inserting
<1>4. TypeOK'
  <2>1. refs' \in [Envs -> [Classes -> 0..1]]
    BY <1>1, <1>3 DEF TypeOK
  <2> QED
    BY <1>2, <2>1 DEF TypeOK
<1>5. \A u \in Threads : u # t => pc'[u] = pc[u] /\ step'[u] = step[u] /\ env'[u] = env[u]
  BY DEF End, Goto, TypeOK
<1>6. pc'[t] = "idle"
  BY DEF End, Goto, TypeOK
<1>7. LockInv'
  BY <1>1, UnlockInv DEF LookingUp
<1>8. \A e \in Envs, d \in Classes :
        Inserting(e, d)' <=> Inserting(e, d) /\ ~(e = env[t] /\ d = c)
  BY <1>1, <1>5, <1>6 DEF Inserting
<1>9. \A e \in Envs, d \in Classes :
        refs'[e][d] = IF e = env[t] /\ d = c THEN 0 ELSE refs[e][d]
  BY <1>1, <1>3 DEF TypeOK
<1>10. cache' = cache
  OBVIOUS
<1> HIDE DEF InsertFails, c
<1>11. RefsCounted'
  BY <1>1, <1>8, <1>9, <1>10 DEF RefsCounted, c
<1>12. SoloInv'
  BY <1>2, <1>5 DEF SoloInv, TypeOK, InsertFails
<1> QED
  BY <1>2, <1>4, <1>7, <1>11, <1>12

\* What is common to the steps that begin a report.
LEMMA ReportInv ==
  ASSUME IInv, NEW t \in Threads, NEW n \in 1..2, pc[t] \in {"find", "java"}, FailWithReport(t, n),
         UNCHANGED <<attachVars, cacheVars, conf>>
  PROVE  /\ TypeOK' /\ EnvsDistinct' /\ StepsRun' /\ OwnEnv' /\ ExitInv' /\ RefsCounted' /\ SoloInv'
         /\ pc'[t] = "get" /\ step'[t] = Report(1)
         /\ \A u \in Threads : u # t => pc'[u] = pc[u] /\ step'[u] = step[u]
<1> USE SessionsAssumption DEF IInv, FailWithReport, Goto, attachVars, cacheVars
<1>1. /\ Report(1) \in Steps /\ Report(1) # NoStep /\ Report(1).kind = "report"
      /\ faults' \in 0..MaxFaults
  BY DEF Steps, Report, NoStep, TypeOK
<1>2. /\ pc'[t] = "get" /\ step'[t] = Report(1)
      /\ \A u \in Threads : u # t => pc'[u] = pc[u] /\ step'[u] = step[u]
  BY DEF TypeOK
<1>3. TypeOK'
  BY <1>1 DEF TypeOK, InLibrary
<1>4. EnvsDistinct' /\ StepsRun' /\ OwnEnv' /\ ExitInv'
  BY <1>1, <1>2 DEF EnvsDistinct, StepsRun, OwnEnv, ExitInv, InLibrary
<1>5. \A e \in Envs, c \in Classes : Inserting(e, c)' <=> Inserting(e, c)
  BY <1>2 DEF Inserting
<1>6. RefsCounted'
  BY <1>5 DEF RefsCounted
<1>7. SoloInv'
  BY <1>1, <1>2 DEF SoloInv, Connecting, TypeOK
<1> QED
  BY <1>2, <1>3, <1>4, <1>6, <1>7

LEMMA ReportUnderLockInv ==
  ASSUME IInv, NEW t \in Threads, ReportUnderLock(t) PROVE IInv'
<1> USE DEF IInv
<1>1. pc[t] = "find" /\ cache' = cache /\ holder' = holder /\ env' = env
  BY DEF ReportUnderLock, FailWithReport, cacheVars
<1>2. /\ TypeOK' /\ EnvsDistinct' /\ StepsRun' /\ OwnEnv' /\ ExitInv' /\ RefsCounted' /\ SoloInv'
      /\ pc'[t] = "get" /\ step'[t] = Report(1)
      /\ \A u \in Threads : u # t => pc'[u] = pc[u] /\ step'[u] = step[u]
  BY <1>1, ReportInv DEF ReportUnderLock
<1>3. \A u \in Threads : pc'[u] \in LookingUp =>
        holder[env[u]] = u /\ ClassOf(step'[u]) \notin cache[env[u]]
  BY <1>2 DEF LockInv, LookingUp
<1>4. \A e \in Envs : holder[e] # NoThread => holder[e] \in Threads
  BY DEF TypeOK
<1>5. \A e \in Envs : holder[e] # NoThread => HoldsAt(pc'[holder[e]], step'[holder[e]]) /\ env[holder[e]] = e
  BY <1>1, <1>2, <1>4 DEF LockInv, Holds, HoldsAt, LookingUp
<1>6. \A u \in Threads : ClassOf(step[u])' = ClassOf(step'[u])
  BY DEF ClassOf
<1>7. LockInv'
  BY <1>1, <1>3, <1>5, <1>6 DEF LockInv, Holds, HoldsAt
<1> QED
  BY <1>2, <1>7

-------------------------------------------------------------------------------
(* The Java side *)

LEMMA JavaThrowsInv ==
  ASSUME IInv, NEW t \in Threads, JavaThrows(t) PROVE IInv'
<1> USE DEF IInv
<1>1. pc[t] = "java" /\ cacheVars' = cacheVars /\ env' = env
  BY DEF JavaThrows, FailWithReport
<1>2. /\ TypeOK' /\ EnvsDistinct' /\ StepsRun' /\ OwnEnv' /\ ExitInv' /\ RefsCounted' /\ SoloInv'
      /\ pc'[t] = "get" /\ step'[t] = Report(1)
      /\ \A u \in Threads : u # t => pc'[u] = pc[u] /\ step'[u] = step[u]
  BY <1>1, ReportInv DEF JavaThrows
<1>3. LockInv'
  BY <1>1, <1>2, SameLookUps DEF LookingUp
<1> QED
  BY <1>2, <1>3

\* A call of connect or of a report other than the last is followed by the next one.
LEMMA JavaGoesOnInv ==
  ASSUME IInv, NEW t \in Threads, Java(t), GoesOn(step[t]) PROVE IInv'
<1> USE SessionsAssumption DEF IInv, Goto, Java, Connecting
<1> DEFINE at == step[t].at
<1>1. /\ at \in Nat /\ step'[t] \in Steps /\ step'[t] # NoStep
      /\ step'[t].kind = step[t].kind /\ step'[t].at = at + 1
      /\ Connecting(t) => at \in 1..LastStep - 1
  <2>1. PICK n \in Nat : \/ n \in 1..LastStep - 1 /\ step[t] = Connect(n)
                         \/ n \in 1..LastReport - 1 /\ step[t] = Report(n)
    <3>1. step[t] \in Steps
      BY DEF TypeOK
    <3>2. CASE step[t] \in {NoStep, Context}
      BY <3>2 DEF NoStep, Context, GoesOn
    <3>3. CASE \E m \in 1..LastStep : step[t] = Connect(m)
      BY <3>3 DEF GoesOn, Connect, LastStep
    <3>4. CASE \E m \in 1..LastReport : step[t] = Report(m)
      BY <3>4 DEF GoesOn, Report
    <3> QED
      BY <3>1, <3>2, <3>3, <3>4 DEF Steps
  <2>2. step'[t] = [step[t] EXCEPT !.at = @ + 1]
    BY DEF TypeOK
  <2>3. CASE n \in 1..LastStep - 1 /\ step[t] = Connect(n)
    <3>1. step'[t] = Connect(n + 1) /\ n + 1 \in 1..LastStep
      BY <2>2, <2>3 DEF Connect, LastStep
    <3> QED
      BY <2>3, <3>1 DEF Steps, Connect, NoStep
  <2>4. CASE n \in 1..LastReport - 1 /\ step[t] = Report(n)
    <3>1. step'[t] = Report(n + 1) /\ n + 1 \in 1..LastReport
      BY <2>2, <2>4 DEF Report
    <3> QED
      BY <2>4, <3>1 DEF Steps, Report, NoStep
  <2> QED
    BY <2>1, <2>3, <2>4
<1>2. /\ step' = [step EXCEPT ![t] = step'[t]] /\ pc' = [pc EXCEPT ![t] = "get"]
      /\ UNCHANGED <<cacheVars, env, solo, faults>> /\ pc[t] = "java"
  BY DEF TypeOK
<1>8. UNCHANGED attachVars
  BY DEF GoesOn
<1>3. /\ conf' \in [1..LastKey -> Threads \cup {NoValue}]
      /\ \A k \in 1..LastKey : conf'[k] # conf[k] => conf'[k] = t
      /\ \A k \in 1..LastKey : Connecting(t) /\ at = 2 * k => conf'[k] = t
  <2>1. conf \in [1..LastKey -> Threads \cup {NoValue}]
    BY DEF TypeOK
  <2>2. CASE Connecting(t)
    <3>1. at \in 1..LastStep - 1 /\ conf' = IF at % 2 = 0 THEN [conf EXCEPT ![at \div 2] = t] ELSE conf
      BY <1>1, <2>2 DEF SetsKey
    <3>2. \A k \in 1..LastKey : at = 2 * k => at % 2 = 0 /\ at \div 2 = k
      BY <3>1 DEF LastStep
    <3> HIDE DEF at, Java
    <3> QED
      BY <2>1, <3>1, <3>2
  <2>3. CASE ~Connecting(t)
    BY <2>1, <2>3 DEF SetsKey
  <2> QED
    BY <2>2, <2>3
<1>9. ~Connecting(t) => conf' = conf
  BY DEF SetsKey
<1> HIDE DEF Java, at
<1>4. TypeOK'
  BY <1>1, <1>2, <1>8, <1>3 DEF TypeOK, cacheVars, attachVars, InLibrary
<1>5. EnvsDistinct' /\ StepsRun' /\ OwnEnv' /\ ExitInv'
  BY <1>1, <1>2, <1>8 DEF TypeOK, EnvsDistinct, StepsRun, OwnEnv, ExitInv, InLibrary, attachVars
<1>10. \A u \in Threads : u # t => pc'[u] = pc[u] /\ step'[u] = step[u]
  BY <1>2 DEF TypeOK
<1>11. pc'[t] = "get"
  BY <1>2 DEF TypeOK
<1>6. LockInv' /\ RefsCounted'
  BY <1>2, <1>10, <1>11, SameLookUps DEF LookingUp
<1>7. SoloInv'
  <2> SUFFICES ASSUME NEW u \in solo'
               PROVE  /\ Connecting(u)'
                      /\ \A v \in Threads : Connecting(v)' => v = u
                      /\ \A k \in 1..LastKey : 2 * k < step'[u].at => conf'[k] = u
    BY DEF SoloInv
  <2>1. u \in solo /\ u \in Threads /\ solo' = solo
    BY <1>2 DEF TypeOK
  <2>2. \A v \in Threads : Connecting(v)' <=> Connecting(v)
    BY <1>1, <1>10
  <2>3. CASE ~Connecting(t)
    BY <1>9, <1>10, <2>1, <2>2, <2>3 DEF SoloInv
  <2>4. CASE Connecting(t)
    <3>1. u = t
      BY <2>1, <2>4 DEF SoloInv
    <3>2. \A k \in 1..LastKey : 2 * k < at + 1 => 2 * k < at \/ at = 2 * k
      BY <1>1
    <3>3. \A k \in 1..LastKey : 2 * k < at => conf[k] = t
      BY <2>1, <3>1 DEF SoloInv, at
    <3>4. \A k \in 1..LastKey : 2 * k < step'[t].at => conf'[k] = t
      BY <1>1, <1>3, <2>4, <3>2, <3>3
    <3> QED
      BY <2>1, <2>2, <3>1, <3>4 DEF SoloInv
  <2> QED
    BY <2>3, <2>4
<1> QED
  BY <1>4, <1>5, <1>6, <1>7

LEMMA JavaEndsInv ==
  ASSUME IInv, NEW t \in Threads, Java(t), ~GoesOn(step[t]) PROVE IInv'
<1> USE SessionsAssumption DEF IInv, Java, Connecting
<1>1. /\ End(t) /\ solo' = solo \ {t} /\ pc[t] = "java" /\ cacheVars' = cacheVars
      /\ envOf' = envOf /\ vm' = vm /\ held' \in [Threads -> SUBSET Envs]
  <2>1. envOf[t] \in Envs
    BY OwnCall DEF OwnEnv, InLibrary
  <2>2. CASE step[t].kind = "context"
    BY <2>1, <2>2 DEF Attachment!Acquire, TypeOK
  <2>3. CASE step[t].kind # "context"
    BY <2>3 DEF attachVars, TypeOK
  <2> QED
    BY <2>2, <2>3
<1>2. conf' = conf /\ faults' = faults
  <2>1. CASE step[t].kind # "connect"
    BY <2>1 DEF SetsKey
  <2>2. CASE step[t].at = LastStep
    <3> LastStep % 2 = 1
      BY DEF LastStep
    <3> QED
      BY <2>2 DEF SetsKey
  <2> QED
    BY <2>1, <2>2 DEF GoesOn
<1>3. TypeOK' /\ EnvsDistinct' /\ StepsRun' /\ OwnEnv' /\ ExitInv'
  BY <1>1, <1>2, EndInv DEF TypeOK, cacheVars
<1>4. \A u \in Threads : u # t => pc'[u] = pc[u] /\ step'[u] = step[u] /\ env'[u] = env[u]
  BY <1>1 DEF End, Goto, TypeOK
<1>5. pc'[t] = "idle"
  BY <1>1 DEF End, Goto, TypeOK
<1>6. LockInv' /\ RefsCounted'
  BY <1>1, <1>4, <1>5, SameLookUps DEF LookingUp
<1>7. SoloInv'
  BY <1>1, <1>2, <1>4, EndInv DEF SoloInv, TypeOK
<1> QED
  BY <1>3, <1>6, <1>7

-------------------------------------------------------------------------------
(* The end of the process, and every step *)

LEMMA ExitActionInv ==
  ASSUME IInv, Exit PROVE IInv'
<1> USE SessionsAssumption DEF IInv, Exit, Goto, attachVars, confVars
<1>1. TypeOK'
  BY DEF TypeOK, cacheVars
<1>2. EnvsDistinct' /\ StepsRun' /\ OwnEnv' /\ ExitInv'
  BY DEF TypeOK, EnvsDistinct, StepsRun, OwnEnv, ExitInv, InLibrary
<1>3. LockInv' /\ RefsCounted'
  BY SameLookUps DEF TypeOK, LookingUp
<1>4. SoloInv'
  BY DEF SoloInv, Connecting
<1> QED
  BY <1>1, <1>2, <1>3, <1>4

LEMMA ExitedInv ==
  ASSUME IInv, Exited PROVE IInv'
<1> USE SessionsAssumption DEF IInv, Exited, Goto, attachVars, cacheVars, confVars
<1>1. TypeOK'
  BY DEF TypeOK
<1>2. EnvsDistinct' /\ StepsRun' /\ OwnEnv' /\ ExitInv'
  BY DEF TypeOK, EnvsDistinct, StepsRun, OwnEnv, ExitInv, InLibrary
<1>6. LockInv' /\ RefsCounted'
  BY SameLookUps DEF TypeOK, LookingUp
<1>7. SoloInv'
  BY DEF SoloInv, Connecting
<1> QED
  BY <1>1, <1>2, <1>6, <1>7

LEMMA DestroyCacheInv ==
  ASSUME IInv, NEW e \in Envs, DestroyCache(e) PROVE IInv'
<1> USE SessionsAssumption DEF IInv, DestroyCache, Goto, attachVars, confVars
<1>1. \A u \in Threads : pc[u] \notin InLibrary \cup {"get"}
  BY DEF ExitInv, InLibrary
<1>2. pc' \in [Threads -> {"idle", "exit", "exited", "crashed"} \cup InLibrary]
      /\ \A u \in Threads : pc'[u] = pc[u] \/ (u = Main /\ pc'[u] = "crashed")
  BY DEF TypeOK
<1>3. \A u \in Threads : pc'[u] \notin InLibrary \cup {"get"}
  BY <1>1, <1>2 DEF InLibrary
<1>4. \A d \in Envs, c \in Classes : ~Inserting(d, c) /\ ~Inserting(d, c)'
  BY <1>1, <1>3 DEF Inserting, InLibrary
<1>5. EnvsDistinct' /\ StepsRun' /\ OwnEnv' /\ ExitInv'
  BY <1>1, <1>2, <1>3 DEF EnvsDistinct, StepsRun, OwnEnv, ExitInv
<1>6. LockInv'
  BY <1>1, <1>3 DEF LockInv, LookingUp, InLibrary, TypeOK, Holds, HoldsAt
<1>7. SoloInv'
  BY DEF SoloInv, Connecting
<1>8. CASE UNCHANGED <<cache, refs>>
  BY <1>2, <1>4, <1>5, <1>6, <1>7, <1>8 DEF TypeOK, RefsCounted
<1>9. CASE
        /\ refs' = [refs EXCEPT ![e] = [c \in Classes |-> IF c \in cache[e] THEN @[c] - 1 ELSE @[c]]]
        /\ cache' = [cache EXCEPT ![e] = {}]
  <2> HIDE DEF DestroyCache
  <2>1. \A d \in Envs, c \in Classes :
          refs'[d][c] = IF d = e THEN 0 ELSE refs[d][c]
    BY <1>4, <1>9 DEF RefsCounted, TypeOK
  <2>2. refs' \in [Envs -> [Classes -> 0..1]]
    <3>1. \A c \in Classes : (IF c \in cache[e] THEN refs[e][c] - 1 ELSE refs[e][c]) \in 0..1
      BY <1>4 DEF RefsCounted, TypeOK
    <3> QED
      BY <1>9, <3>1 DEF TypeOK
  <2>6. UNCHANGED <<envOf, held, step, env, holder, conf, solo, faults>>
    BY DEF DestroyCache
  <2>7. cache' \in [Envs -> SUBSET Classes]
    BY <1>9 DEF TypeOK
  <2>3. TypeOK'
    BY <1>2, <2>6, <2>7, <2>2 DEF TypeOK
  <2>4. \A d \in Envs : cache'[d] = IF d = e THEN {} ELSE cache[d]
    BY <1>9 DEF TypeOK
  <2>5. RefsCounted'
    BY <1>4, <2>1, <2>4 DEF RefsCounted
  <2> QED
    BY <1>5, <1>6, <1>7, <2>3, <2>5
<1> QED
  BY <1>8, <1>9

LEMMA StutterInv ==
  ASSUME IInv, UNCHANGED vars PROVE IInv'
<1> USE DEF IInv, vars, attachVars, cacheVars, confVars
<1>1. TypeOK' /\ EnvsDistinct' /\ StepsRun' /\ OwnEnv' /\ ExitInv'
  BY DEF TypeOK, EnvsDistinct, StepsRun, OwnEnv, ExitInv
<1>2. LockInv' /\ RefsCounted'
  BY SameLookUps
<1>3. SoloInv'
  BY DEF SoloInv, Connecting
<1> QED
  BY <1>1, <1>2, <1>3

\* Every step of the threads and of the end of the process preserves the invariant.
LEMMA NextInv == IInv /\ [Next]_vars => IInv'
<1> SUFFICES ASSUME IInv, [Next]_vars PROVE IInv'
  OBVIOUS
<1>1. ASSUME NEW t \in Threads,
             StartConnect(t) \/ StartContext(t) \/ DestroyContext(t) \/ Detach(t)
      PROVE  IInv'
  BY <1>1, StartConnectInv, StartContextInv, DestroyContextInv, DetachInv
<1>2. ASSUME NEW t \in Threads, LibraryStep(t) PROVE IInv'
  <2>1. CASE Java(t)
    BY <2>1, JavaGoesOnInv, JavaEndsInv
  <2> QED
    BY <1>2, <2>1, GetEnvInv, LockAndLookUpInv, FindClassInv, InsertInv, LookUpFailsInv,
       ReportUnderLockInv, InsertFailsInv, JavaThrowsInv DEF LibraryStep
<1>3. ASSUME NEW e \in Envs, DestroyCache(e) PROVE IInv'
  BY <1>3, DestroyCacheInv
<1> QED
  BY <1>1, <1>2, <1>3, ExitActionInv, ExitedInv, StutterInv DEF Next

-------------------------------------------------------------------------------
(* What every behaviour satisfies *)

\* The invariant holds throughout, for any number of threads, JNIEnvs and keys.
THEOREM InductiveInvariant == Spec => []IInv
<1>1. Init => IInv
  BY InitInv
<1>2. IInv /\ [Next]_vars => IInv'
  BY NextInv
<1> QED
  BY <1>1, <1>2, PTL DEF Spec

\* Every variable keeps its type; in particular a class has at most one reference
\* in the cache of a JNIEnv (ClassCache, JNIHelper.h).
THEOREM TypeCorrect == Spec => []TypeOK
<1>1. IInv => TypeOK
  BY DEF IInv
<1> QED
  BY <1>1, InductiveInvariant, PTL

\* A thread works with its own JNIEnv from GetEnv to the end of its call, whoever
\* attaches and detaches meanwhile (Env::Env).
THEOREM WorksWithOwnEnv == Spec => []OwnEnv
<1>1. IInv => OwnEnv
  BY DEF IInv
<1> QED
  BY <1>1, InductiveInvariant, PTL

\* No thread waits for an m_lock of a class cache that another thread holds; the only
\* wait is that of the report of a failure of newGlobalRef for the m_lock its own thread
\* holds (ClassCache::get).
THEOREM LockFree == Spec => []NeverContended
<1>1. ASSUME IInv PROVE NeverContended
  <2> SUFFICES ASSUME NEW t \in Threads, pc[t] = "get", holder[env[t]] # NoThread
               PROVE  SelfBlocked(t)
    BY DEF NeverContended, CacheOf
  <2>1. env[t] \in Envs
    BY <1>1, OwnCall
  <2>2. PICK u \in Threads : u = holder[env[t]] /\ Holds(u) /\ env[u] = env[t]
    BY <1>1, <2>1 DEF IInv, TypeOK, LockInv
  <2>3. u = t
    BY <1>1, <2>2, OwnCall DEF LookingUp, Holds, HoldsAt
  <2> QED
    BY <2>2, <2>3 DEF Holds, HoldsAt, LookingUp, SelfBlocked, CacheOf
<1> QED
  BY <1>1, InductiveInvariant, PTL

\* A class has one live reference for each cache that knows it or is about to, whatever
\* look-ups fail and whoever uses the JNIEnv (ClassCache::get, ~ClassCache).
THEOREM ReferencesCounted == Spec => []RefsCounted
<1>1. IInv => RefsCounted
  BY DEF IInv
<1> QED
  BY <1>1, InductiveInvariant, PTL

\* ClientContext.init reads the keys of one connect if no other overlapped it
\* (AlluxioClientContext::connect).
THEOREM ConfigurationIsWhole == Spec => []WholeConfiguration
<1>1. ASSUME IInv PROVE WholeConfiguration
  <2> SUFFICES ASSUME NEW t \in solo, step[t].at = LastStep PROVE conf = AllOf(t)
    BY DEF WholeConfiguration
  <2>1. \A k \in 1..LastKey : 2 * k < LastStep
    BY SessionsAssumption DEF LastStep
  <2>2. \A k \in 1..LastKey : conf[k] = t
    BY <1>1, <2>1 DEF IInv, SoloInv
  <2> QED
    BY <1>1, <2>2 DEF IInv, TypeOK, AllOf
<1> QED
  BY <1>1, InductiveInvariant, PTL

-------------------------------------------------------------------------------
(* How long a call is *)

\* The steps a thread still takes in the call of Java it makes, and in its whole call
\* of the library: four for each call of Java that is to come, and eight for the report
\* of each exception that is to come.
StepsAt(label) ==
  CASE label = "env" -> 5
    [] label = "get" -> 4
    [] label = "find" -> 3
    [] label = "insert" -> 2
    [] label = "java" -> 1
    [] OTHER -> 0
ToCome(s) ==
  CASE s.kind = "connect" -> LastStep - s.at
    [] s.kind = "report" -> LastReport - s.at
    [] OTHER -> 0
Left(t) == IF pc[t] \in InLibrary THEN StepsAt(pc[t]) + 4 * ToCome(step[t]) + 8 * faults ELSE 0
LeftInv ==
  \A t \in Threads :
    /\ Left(t) \in 0..4 * LastStep + 1 + 8 * MaxFaults
    /\ Left(t) > 0 <=> pc[t] \in InLibrary

\* Whatever any thread does, a thread in the library either comes nearer to the end
\* of its call, by a step of its own, or is left where it is.
ThreadGoesOn ==
  [][\A t \in Threads :
       pc[t] \in InLibrary => \/ LibraryStep(t) /\ Left(t)' < Left(t)
                              \/ pc'[t] = pc[t] /\ step'[t] = step[t] /\ Left(t)' <= Left(t)]_vars

\* The call of a thread, and the numbers its measure is made of.
LEMMA CallNumbers ==
  ASSUME TypeOK, NEW t \in Threads
  PROVE  /\ LastStep \in Nat /\ LastStep >= 3
         /\ faults \in 0..MaxFaults /\ MaxFaults \in Nat
         /\ ToCome(step[t]) \in 0..LastStep - 1
         /\ StepsAt(pc[t]) \in 0..5
         /\ pc[t] \in InLibrary <=> StepsAt(pc[t]) > 0
<1>1. LastStep \in Nat /\ LastStep >= 3
  BY SessionsAssumption DEF LastStep
<1>2. faults \in 0..MaxFaults /\ MaxFaults \in Nat
  BY SessionsAssumption DEF TypeOK
<1>3. ToCome(step[t]) \in 0..LastStep - 1
  <2>1. step[t] \in Steps
    BY DEF TypeOK
  <2>2. CASE step[t] \in {NoStep, Context}
    BY <1>1, <2>2 DEF ToCome, NoStep, Context
  <2>3. CASE \E at \in 1..LastStep : step[t] = Connect(at)
    BY <1>1, <2>3 DEF ToCome, Connect
  <2>4. CASE \E at \in 1..LastReport : step[t] = Report(at)
    BY <1>1, <2>4, SessionsAssumption DEF ToCome, Report
  <2> QED
    BY <2>1, <2>2, <2>3, <2>4 DEF Steps
<1>4. StepsAt(pc[t]) \in 0..5 /\ (pc[t] \in InLibrary <=> StepsAt(pc[t]) > 0)
  BY DEF StepsAt, InLibrary
<1> QED
  BY <1>1, <1>2, <1>3, <1>4

\* The measure is smaller after fewer steps of the same call, and after an exception.
LEMMA FewerLeft ==
  ASSUME NEW at \in 0..5, NEW next \in 1..5, NEW more \in Nat, NEW then \in Nat,
         NEW f \in Nat, NEW g \in Nat, at + 4 * more + 8 * f > next + 4 * then + 8 * g,
         NEW t \in Threads, pc[t] \in InLibrary, pc'[t] \in InLibrary,
         StepsAt(pc[t]) = at, StepsAt(pc'[t]) = next,
         ToCome(step[t]) = more, ToCome(step'[t]) = then, faults = f, faults' = g
  PROVE  Left(t)' < Left(t)
<1>1. Left(t) = at + 4 * more + 8 * f
  BY DEF Left
<1>2. Left(t)' = next + 4 * then + 8 * g
  <2>1. ToCome(step[t])' = ToCome(step'[t]) /\ StepsAt(pc[t])' = StepsAt(pc'[t])
        /\ (pc[t] \in InLibrary)' = (pc'[t] \in InLibrary)
    BY DEF ToCome, StepsAt, InLibrary
  <2> QED
    BY <2>1 DEF Left
<1> QED
  BY <1>1, <1>2

\* connect (Alluxio.cc:80), which with its four keys makes nine calls of Java, and the
\* constructor (Alluxio.cc:28), which makes one, take 4 * LastStep + 1 steps at most and
\* eight more for each exception, the reports and their reports included, whatever the
\* other threads do: no step of theirs puts a call back. With LockFree, which says where
\* a thread may have to wait, this is what CallsEnd rests on, without the fairness.
THEOREM CallsAreBounded == Spec => []LeftInv /\ ThreadGoesOn
<1>1. ASSUME TypeOK, NEW t \in Threads
      PROVE  /\ Left(t) \in 0..4 * LastStep + 1 + 8 * MaxFaults
             /\ Left(t) > 0 <=> pc[t] \in InLibrary
  <2> DEFINE n == StepsAt(pc[t])
             m == ToCome(step[t])
  <2>1. Left(t) = IF pc[t] \in InLibrary THEN n + 4 * m + 8 * faults ELSE 0
    BY DEF Left
  <2>2. /\ LastStep \in Nat /\ LastStep >= 3 /\ faults \in 0..MaxFaults /\ MaxFaults \in Nat
        /\ m \in 0..LastStep - 1 /\ n \in 0..5 /\ (pc[t] \in InLibrary <=> n > 0)
    BY <1>1, CallNumbers
  <2> HIDE DEF n, m
  <2> QED
    BY <2>1, <2>2
<1>2. ASSUME IInv, TypeOK', NEW t \in Threads, LibraryStep(t) PROVE Left(t)' < Left(t)
  <2> DEFINE n == ToCome(step[t])
  <2>1. /\ LastStep \in Nat /\ LastStep >= 3
        /\ faults \in Nat /\ faults' \in Nat
        /\ n \in Nat /\ ToCome(step'[t]) \in Nat
        /\ pc[t] \in InLibrary
        /\ pc \in [Threads -> {"idle", "exit", "exited", "crashed"} \cup InLibrary]
        /\ step \in [Threads -> Steps]
    <3>1. pc[t] \in InLibrary
      BY <1>2 DEF LibraryStep, GetEnv, LockAndLookUp, FindClass, Insert, LookUpFails, ReportUnderLock,
                  InsertFails, Java, JavaThrows, InLibrary
    <3>2. TypeOK /\ faults' \in 0..MaxFaults
      BY <1>2 DEF IInv, TypeOK
    <3>3. ToCome(step'[t]) \in Nat
      <4>1. step'[t] \in Steps
        BY <1>2 DEF TypeOK
      <4>2. CASE step'[t] \in {NoStep, Context}
        BY <4>2 DEF ToCome, NoStep, Context
      <4>3. CASE \E at \in 1..LastStep : step'[t] = Connect(at)
        BY <4>3, SessionsAssumption DEF ToCome, Connect, LastStep
      <4>4. CASE \E at \in 1..LastReport : step'[t] = Report(at)
        BY <4>4, SessionsAssumption DEF ToCome, Report
      <4> QED
        BY <4>1, <4>2, <4>3, <4>4 DEF Steps
    <3> QED
      BY <3>1, <3>2, <3>3, CallNumbers, SessionsAssumption DEF TypeOK
  <2>2. ASSUME pc'[t] \in InLibrary, StepsAt(pc'[t]) < StepsAt(pc[t]), step'[t] = step[t],
               faults' = faults
        PROVE  Left(t)' < Left(t)
    <3>1. StepsAt(pc[t]) \in 0..5 /\ StepsAt(pc'[t]) \in 1..5
      BY <2>2 DEF StepsAt, InLibrary
    <3>2. StepsAt(pc[t]) + 4 * n + 8 * faults > StepsAt(pc'[t]) + 4 * n + 8 * faults
      BY <2>1, <2>2, <3>1
    <3> QED
      BY <2>1, <2>2, <3>1, <3>2, FewerLeft
  <2>3. ASSUME End(t) PROVE Left(t)' < Left(t)
    <3>1. pc'[t] = "idle"
      BY <2>1, <2>3 DEF End, Goto
    <3>2. Left(t)' = 0
      BY <3>1 DEF Left, InLibrary
    <3>3. Left(t) > 0 /\ Left(t) \in Int
      BY <1>1, <1>2, <2>1 DEF IInv
    <3> QED
      BY <3>2, <3>3
  <2>4. ASSUME NEW k \in 1..2, FailWithReport(t, k), pc[t] \in {"find", "java"}
        PROVE  Left(t)' < Left(t)
    <3>1. pc'[t] = "get" /\ step'[t] = Report(1) /\ faults' = faults - k /\ faults >= k
      BY <2>1, <2>4 DEF FailWithReport, Goto
    <3>2. StepsAt(pc'[t]) = 4 /\ StepsAt(pc[t]) \in 1..5 /\ pc'[t] \in InLibrary
      BY <2>4, <3>1 DEF StepsAt, InLibrary
    <3>3. ToCome(step'[t]) \in 0..1
      BY <3>1, SessionsAssumption DEF ToCome, Report
    <3> DEFINE m == ToCome(step'[t])
               a == StepsAt(pc[t])
    <3>4. a + 4 * n + 8 * faults > 4 + 4 * m + 8 * faults'
      <4>1. a \in 1..5 /\ m \in 0..1 /\ n \in Nat /\ faults \in Nat /\ faults' = faults - k
        BY <2>1, <3>1, <3>2, <3>3
      <4> HIDE DEF n, m, a
      <4> QED
        BY <4>1
    <3>5. StepsAt(pc[t]) \in 0..5 /\ 4 \in 1..5 /\ ToCome(step'[t]) \in Nat
      BY <2>1, <3>2
    <3> QED
      BY <2>1, <3>2, <3>4, <3>5, FewerLeft
  <2>5. CASE GetEnv(t)
    <3>1. pc[t] = "env" /\ pc'[t] = "get" /\ step' = step /\ faults' = faults
      BY <2>1, <2>5 DEF GetEnv, Goto
    <3> QED
      BY <2>2, <3>1 DEF StepsAt, InLibrary
  <2>6. CASE LockAndLookUp(t)
    <3>1. pc[t] = "get" /\ pc'[t] \in {"java", "find"} /\ step' = step /\ faults' = faults
      BY <2>1, <2>6 DEF LockAndLookUp, Goto
    <3> QED
      BY <2>2, <3>1 DEF StepsAt, InLibrary
  <2>7. CASE FindClass(t) \/ Insert(t)
    <3>1. /\ step' = step /\ faults' = faults
          /\ \/ pc[t] = "find" /\ pc'[t] = "insert"
             \/ pc[t] = "insert" /\ pc'[t] = "java"
      BY <2>1, <2>7 DEF FindClass, Insert, Goto
    <3> QED
      BY <2>2, <3>1 DEF StepsAt, InLibrary
  <2>8. CASE LookUpFails(t) \/ InsertFails(t)
    BY <2>3, <2>8 DEF LookUpFails, InsertFails, Fail
  <2>9. CASE ReportUnderLock(t) \/ JavaThrows(t)
    BY <2>4, <2>9 DEF ReportUnderLock, JavaThrows
  <2>10. CASE Java(t) /\ GoesOn(step[t])
    <3>1. /\ pc[t] = "java" /\ pc'[t] = "get" /\ step'[t] = [step[t] EXCEPT !.at = @ + 1]
          /\ faults' = faults
      BY <2>1, <2>10 DEF Java, Goto
    <3>2. StepsAt(pc[t]) = 1 /\ StepsAt(pc'[t]) = 4 /\ pc'[t] \in InLibrary
      BY <3>1 DEF StepsAt, InLibrary
    <3>3. ToCome(step'[t]) = n - 1
      <4>1. PICK at \in Nat : step[t] = Connect(at) \/ step[t] = Report(at)
        BY <2>1, <2>10, SessionsAssumption DEF Steps, NoStep, Context, GoesOn, LastStep
      <4>2. step'[t].kind = step[t].kind /\ step'[t].at = at + 1
        BY <3>1, <4>1 DEF Connect, Report
      <4> QED
        BY <2>1, <4>1, <4>2, SessionsAssumption DEF ToCome, Connect, Report, LastStep
    <3>4. 1 + 4 * n + 8 * faults > 4 + 4 * (n - 1) + 8 * faults /\ n - 1 \in Nat
      BY <2>1, <3>3
    <3>5. 1 \in 0..5 /\ 4 \in 1..5 /\ faults' \in Nat /\ faults' = faults
      BY <2>1, <3>1
    <3> QED
      BY <2>1, <3>2, <3>3, <3>4, <3>5, FewerLeft
  <2>11. CASE Java(t) /\ ~GoesOn(step[t])
    BY <2>3, <2>11 DEF Java
  <2> QED
    BY <1>2, <2>5, <2>6, <2>7, <2>8, <2>9, <2>10, <2>11 DEF LibraryStep
<1>3. ASSUME IInv, TypeOK', NEW t \in Threads, pc[t] \in InLibrary, Next, ~LibraryStep(t)
      PROVE  pc'[t] = pc[t] /\ step'[t] = step[t] /\ Left(t)' <= Left(t)
  <2>1. /\ pc \in [Threads -> {"idle", "exit", "exited", "crashed"} \cup InLibrary]
        /\ step \in [Threads -> Steps]
        /\ pc[t] \notin {"idle", "exit", "exited", "crashed"}
        /\ faults \in Nat
    BY <1>3, SessionsAssumption DEF IInv, TypeOK, InLibrary
  <2> DEFINE Stays == pc'[t] = pc[t] /\ step'[t] = step[t] /\ faults' \in Nat /\ faults' <= faults
  <2>2. ASSUME NEW u \in Threads, LibraryStep(u) PROVE Stays
    <3>1. u # t
      BY <1>3, <2>2
    <3>2. /\ pc' = [pc EXCEPT ![u] = pc'[u]]
          /\ step' = [step EXCEPT ![u] = step'[u]]
      BY <2>1, <2>2 DEF LibraryStep, GetEnv, LockAndLookUp, FindClass, Insert, LookUpFails,
                        ReportUnderLock, InsertFails, Java, JavaThrows, Fail, FailWithReport, End, Goto
    <3>3. faults' \in Nat /\ faults' <= faults
      BY <2>1, <2>2 DEF LibraryStep, GetEnv, LockAndLookUp, FindClass, Insert, LookUpFails,
                        ReportUnderLock, InsertFails, Java, JavaThrows, Fail, FailWithReport
    <3> QED
      BY <2>1, <3>1, <3>2, <3>3
  <2>3. ASSUME NEW u \in Threads, StartConnect(u) \/ StartContext(u) \/ DestroyContext(u) \/ Detach(u)
        PROVE  Stays
    BY <2>1, <2>3 DEF StartConnect, StartContext, DestroyContext, Detach, Running, Goto
  <2>4. ~Exit
    BY <2>1 DEF Exit
  <2>5. ASSUME Exited \/ \E e \in Envs : DestroyCache(e) PROVE Stays
    <3>1. Main # t /\ Main \in Threads
      BY <2>1, <2>5, SessionsAssumption DEF Exited, DestroyCache
    <3>2. \A label : pc' = [pc EXCEPT ![Main] = label] => pc'[t] = pc[t]
      BY <2>1, <3>1
    <3>3. pc'[t] = pc[t]
      BY <2>5, <3>2 DEF Exited, DestroyCache, Goto
    <3>4. step' = step /\ faults' = faults
      BY <2>5 DEF Exited, DestroyCache
    <3> QED
      BY <2>1, <3>3, <3>4
  <2> HIDE DEF Stays
  <2>6. Stays
    BY <1>3, <2>2, <2>3, <2>4, <2>5 DEF Next
  <2>7. Left(t) = StepsAt(pc[t]) + 4 * ToCome(step[t]) + 8 * faults
    BY <1>3 DEF Left
  <2>8. Left(t)' = StepsAt(pc[t]) + 4 * ToCome(step[t]) + 8 * faults'
    <3>1. ToCome(step[t])' = ToCome(step'[t]) /\ StepsAt(pc[t])' = StepsAt(pc'[t])
          /\ (pc[t] \in InLibrary)' = (pc'[t] \in InLibrary)
      BY DEF ToCome, StepsAt, InLibrary
    <3> QED
      BY <1>3, <2>6, <3>1 DEF Left, Stays
  <2>9. StepsAt(pc[t]) + 4 * ToCome(step[t]) \in Nat
    BY <1>3, CallNumbers DEF IInv
  <2> QED
    BY <2>1, <2>6, <2>7, <2>8, <2>9 DEF Stays
<1>4. IInv /\ IInv' /\ [Next]_vars =>
        [\A t \in Threads :
           pc[t] \in InLibrary => \/ LibraryStep(t) /\ Left(t)' < Left(t)
                                  \/ pc'[t] = pc[t] /\ step'[t] = step[t] /\ Left(t)' <= Left(t)]_vars
  <2>1. IInv' => TypeOK'
    BY DEF IInv
  <2> QED
    BY <1>2, <1>3, <2>1
<1>5. IInv => LeftInv
  BY <1>1 DEF LeftInv, IInv
<1> QED
  BY <1>4, <1>5, InductiveInvariant, PTL DEF Spec, ThreadGoesOn
===============================================================================
