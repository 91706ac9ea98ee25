------------------------------ MODULE CallLocals -------------------------------
(***************************************************************************)
(* JniCalls with two history variables: the local references a call leaves *)
(* behind, and the exceptions it met. Its class and its result, which the  *)
(* caller sees, are not among them: ApiReferences counts those.            *)
(***************************************************************************)
EXTENDS JniCalls, Integers

VARIABLES
  locals,    \* local references the call that runs has made and not deleted
  before     \* faults when it began, one more for an exception that was pending

localsVars == <<vars, locals, before>>

LocalsInit == Init /\ locals = 0 /\ before = MaxFaults

Makes(n) == locals' = locals + n /\ UNCHANGED before

-------------------------------------------------------------------------------
CountedStart ==
  /\ StartCall
  /\ locals' = 0
  /\ before' = faults + (IF pending THEN 1 ELSE 0)

\* What the call has left stays until the thread detaches; the next call starts anew.
CountedHandle == HandleException /\ locals' = 0 /\ UNCHANGED before

\* FindClass makes the class, or ExceptionOccurred the throwable.
MakesClass == FindClass /\ Makes(1)

\* Mutant: the local reference is left beside the global one.
DeletesClass_Not == Insert /\ Makes(0)

\* deleteLocalRef, before the map is changed
DeletesClass == Insert /\ Makes(-1)

\* When newGlobalRef fails it asks for the object's class, and getClassName for
\* three objects. The class that was found is not deleted.
NamesClass ==
  \/ NewGlobalRef /\ Makes(Len(stack') - Len(stack))
  \/ GetClassName /\ Len(stack') < Len(stack) /\ Makes(3)
  \/ GetClassName /\ Len(stack') > Len(stack) /\ \E n \in 0..2 : Makes(n + 1)

\* ExceptionOccurred makes a reference to the throwable, which nobody deletes.
MakesThrowable == CheckAndClear /\ Makes(1)

\* getThrowableStackTrace keeps both writers, the class Throwable and the text, and
\* the class of the writer that callMethod asks for.
InTrace == Len(stack) > 1 /\ stack[2].fn = "trace"
MakesForTrace ==
  \/ NoPending /\ Makes(IF InTrace THEN 1 ELSE 0)
  \/ TraceWriters /\ Makes(IF Top.at = "call" THEN 1 ELSE 0)
  \/ TraceLookUp /\ Makes(IF Top.at = "class" /\ Len(stack') = Len(stack) THEN 1 ELSE 0)

MakesNone ==
  /\ \/ FindForCall \/ FindMember \/ CallJava \/ ThrowNative
     \/ LockAndLookUp \/ ThrowNewGlobalRef \/ TracePrint \/ TraceText
     \/ UnwindCallMethod \/ Rethrow \/ UnwindNewObject \/ UnwindGet \/ Discard \/ SuppressInToString
  /\ Makes(0)

CountedStep ==
  MakesClass \/ DeletesClass \/ NamesClass \/ MakesThrowable \/ MakesForTrace \/ MakesNone

LocalsNext ==
  \/ CountedStart \/ CountedHandle \/ (ReuseBuffer /\ Makes(0))
  \/ CountedStep

LocalsSpec == LocalsInit /\ [][LocalsNext]_localsVars /\ WF_localsVars(CountedStep)

-------------------------------------------------------------------------------
\* A call that returns leaves nothing behind, and one that throws at most the local
\* references of one report for each exception it met, and a throwable: the report of
\* a failed report may fail, and be reported in turn.
LocalsOfFailure ==
  stack = <<>> => locals <= IF exc = NoException THEN 0 ELSE 5 * (before - faults) + 1
===============================================================================
