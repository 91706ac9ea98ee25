------------------------------ MODULE AttachSpec ------------------------------
(***************************************************************************)
(* What the JNI attachment layer of liballuxio promises to the code above  *)
(* it, whatever the interleaving of the threads:                           *)
(*   - one Java VM is created, once, and it is never replaced;             *)
(*   - a thread is attached under one JNIEnv at a time, its own;           *)
(*   - every handle a thread holds (a client context, or an object that    *)
(*     wraps a global reference) keeps the JNIEnv the thread is attached   *)
(*     under, and a thread that detaches holds no handle any more.         *)
(***************************************************************************)
CONSTANTS Threads, Envs, NoEnv

VARIABLES
  vm,      \* TRUE once the process has a Java VM
  envOf,   \* envOf[t]: the JNIEnv of thread t, NoEnv when it is not attached
  held     \* held[t]: the JNIEnvs kept by the handles thread t holds

vars == <<vm, envOf, held>>

FreeEnvs == Envs \ {envOf[t] : t \in Threads}

\* The host application may have created the VM and attached threads of its own.
Init ==
  /\ vm \in BOOLEAN
  /\ envOf \in [Threads -> Envs \cup {NoEnv}]
  /\ \A t \in Threads : envOf[t] # NoEnv => vm
  /\ \A t, u \in Threads : t # u /\ envOf[t] = envOf[u] => envOf[t] = NoEnv
  /\ held = [t \in Threads |-> {}]

\* Creating the VM attaches the thread that creates it.
CreateVm(t) ==
  /\ ~vm
  /\ vm' = TRUE
  /\ \E e \in FreeEnvs : envOf' = [envOf EXCEPT ![t] = e]
  /\ UNCHANGED held

Attach(t) ==
  /\ vm
  /\ envOf[t] = NoEnv
  /\ \E e \in FreeEnvs : envOf' = [envOf EXCEPT ![t] = e]
  /\ UNCHANGED <<vm, held>>

Acquire(t) ==
  /\ envOf[t] # NoEnv
  /\ held' = [held EXCEPT ![t] = {envOf[t]}]
  /\ UNCHANGED <<vm, envOf>>

\* The last handle of the thread goes.
Release(t) ==
  /\ held' = [held EXCEPT ![t] = {}]
  /\ UNCHANGED <<vm, envOf>>

Detach(t) ==
  /\ held[t] = {}
  /\ envOf' = [envOf EXCEPT ![t] = NoEnv]
  /\ UNCHANGED <<vm, held>>

Next ==
  \E t \in Threads : CreateVm(t) \/ Attach(t) \/ Acquire(t) \/ Release(t) \/ Detach(t)

Spec == Init /\ [][Next]_vars
===============================================================================
