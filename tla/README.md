# A TLA+ model of liballuxio

liballuxio is a C++ client library for the Alluxio file system. It has no
protocol of its own: it creates or finds a Java VM, attaches its threads to it,
and calls the Alluxio Java client through JNI. What is hard in it is therefore
not the data but the control: who owns the VM, a `JNIEnv` or a reference, what
happens when a call throws half-way, and what two users of one file do to each
other. The modules here model that control.

Paths are relative to the repository's root, which is checked out as `src/`:
`src/src/Alluxio.cc` is the library's `src/Alluxio.cc`.

## 1. Inventory

| Component | Where | State | Operations |
|---|---|---|---|
| VM creation and attachment | `JNIHelper::getEnv`, `Env::Env` | the process's VM, the JVM's table of attached threads, `m_env_lock` | `getEnv` (query, create or attach), `AttachCurrentThread`, `GetIsThreadDetached`, `DetachCurrentThread` |
| Client context | `AlluxioClientContext` | `m_env`, `m_baseFileSystem`, `m_mustDetachInDtor`, `m_mustDeleteLocalRef` | constructor and `attach`, destructor, `connect`, `setAlluxioStringConstant` |
| Wrapped objects | `JNIObjBase`, `JNIStringBase` and subclasses | the `Env` they were built with, one global reference | constructor, destructor |
| Class cache | `ClassCache`, `ClassCaches` | a map from `const char*` to class for each `JNIEnv`, a mutex for each | `get`, `set`, `getCache`, destruction at exit |
| Calls into Java | `Env` | the pending exception of the JVM | `callMethod`, `callStaticMethod`, `newObject`, `getEnumObject`, `findClassAndCache`, strings, arrays |
| Exceptions | `NativeException` and subclasses, `JavaThrowable` | the wrapped throwable (a global reference), the text | wrap, rethrow, `discard`, `toString`, `getThrowableStackTrace` |
| Append | `openFileForAppend`, `completeAppend` | two paths of the Alluxio namespace, two streams | the two calls |
| Other file operations | `AlluxioFileSystem` | none of their own | `openFile`, `createFile`, `deletePath`, `renameFile`, `exists`, `createDirectory`, `fileSize`, `listPath` |
| Streams | `InStream`, `OutStream` | a Java stream, a byte array during a call | `read`, `write`, `seek`, `skip`, `close`, `cancel`, `flush` |
| Factories | options, enumerations, `AlluxioURI`, `ByteBuffer` | none | one or two calls into Java each |
| Signatures | `findNext`, `getMethodRetType` | none | parsing |

How they interact: every API object contains an `Env`, which gets its `JNIEnv`
from `getEnv`; every operation goes through `Env::callMethodV`, which for static
calls asks the class cache of its `JNIEnv`; every failure goes through
`checkExceptionAndClear` into a `NativeException`, whose constructor calls Java
again for the text. Threads share the VM, the lock of `getEnv` and the map of
caches; clients (threads or processes) share the namespace of Alluxio.

What makes each part correct:

* **attachment**: one VM; each thread under its own `JNIEnv`; a handle (context
  or object) never outlives the attachment it was made under; the lock is always
  given back;
* **calls and exceptions**: a Java exception becomes exactly one C++ exception,
  its throwable is owned by one exception at a time, the lock and the reference
  of the class cache are accounted for on each path, reporting a failure ends;
* **append**: one appender at a time, a complete file always, a copy that is the
  file;
* **references**: every global reference has one owner and is deleted once;
  nothing is used after it was deleted; what an operation leaves behind is known;
* **streams**: no copy leaves its buffer; the bytes that were read arrive, the
  bytes that were written are those asked for;
* **sessions**: `ClientContext.init` sees the configuration of one `connect`;
  a cache outlives its thread and still serves one thread at a time;
* **signatures**: the member of the result a caller reads is the one written.

The list of what is hard to test, at its line, is under `hazards` in
`PROJECT.json`.

## 2. Modules

| Module | Role |
|---|---|
| `AttachSpec` | abstract: what the attachment layer promises |
| `JniAttach` | `getEnv`, contexts, objects, for any threads; implements `AttachSpec` |
| `JniAttachProofs` | theorems about `JniAttach` |
| `AppendSpec` | abstract: an append replaces the file by a snapshot and own data |
| `FileAppend` | `openFileForAppend`, `completeAppend` over Alluxio's namespace; implements `AppendSpec` |
| `MCFileAppend` | environments and symmetry for TLC |
| `FileAppendProofs` | theorems about `FileAppend` |
| `JniCalls` | one thread's calls into Java, class cache, exceptions, with the C++ stack explicit |
| `JniCallsProofs` | theorems about `JniCalls` |
| `CallLocals` | `JniCalls` with a count of the local references that a call leaves behind |
| `Sessions` | `connect`, contexts and class caches of several threads, up to the end of the process; attaches through `AttachSpec` |
| `SessionsProofs` | theorems about `Sessions` |
| `ApiReferences` | the local and global references of every operation of the API |
| `ApiReferencesProofs` | theorems about `ApiReferences` |
| `ApiOutlinesProofs` | more of them, which follow each operation step by step |
| `StreamSpec` | abstract: a cursor in a file, and what has been written |
| `Streams` | `InStream` and `OutStream` with their byte arrays; implements `StreamSpec` |
| `MCStreams` | arguments for TLC |
| `StreamsProofs` | theorems about `Streams` |
| `Signatures` | `findNext`, `getMethodRetType`, the choice of the JNI function |
| `MCSignatures` | strings for TLC |
| `SignaturesProofs` | theorems about `Signatures` |

The modules compose in two ways. `Sessions` does not repeat the attachment: it
takes the steps of `AttachSpec`, which `JniAttach` is proved to implement.
`FileAppend` reads through the `InStream` that `Streams` describes byte by byte:
what `StreamSpec` promises of a read is what its `CopyChunk` uses. `CallLocals` joins
each action of `JniCalls` with what it does to a counter, and `ApiReferences` takes from it
what a step that throws may leave.

Operators whose name has an underscore (`Lock_NotTaken`, `CopyChunk_OneTurn`...)
are deliberate mistakes: each stands before the action it spoils, and replacing
the action by it must break the property that `PROJECT.json` names under
`mutants`. No specification uses them.

### 2.1 JniAttach

One action is one atomic piece of the code. `pc[t]` is the place of thread `t`:

| Action | Code |
|---|---|
| `NewEnv`, `NewContext` | a default `Env` is constructed: by an API function, or as the member `m_env` of a context (`Alluxio.cc:28`) |
| `Lock` | `m_env_lock.lock()` (`JNIHelper.cc:640`) |
| `QueryVms` | `JNI_GetCreatedJavaVMs` and the test of `vms` |
| `CreateVm`, `AttachThread` | the two branches |
| `JniCallFails`, `UnlockAndThrow` | the four `throw`s, with their `unlock()` |
| `Unlock` | the normal way out |
| `CheckAttached` | `GetIsThreadDetached`: `GetEnv` writes `m_env`, NULL for a detached thread. The `AttachCurrentThread` that follows dereferences it: label `crashed` |
| `GetBaseFileSystem`, `...Fails` | the static call of `attach()` |
| `DestroyContext` | `~AlluxioClientContext` |
| `WrapObject`, `WrapFromContext`, `DeleteObjects` | objects built with a local `Env` or the context's, and their destructors |
| `DetachCurrentThread` | `Env::DetachCurrentThread` by the application, once its thread holds nothing of the library |

`envOf` is the JVM's own table. The JVM may give the `JNIEnv` of a detached
thread to another. `attachedBy` is a history variable. The host program may have
created the VM and attached threads before (`Init`), not afterwards. Objects and
contexts are destroyed by the thread that built them: JNI demands it of a
context, and the library's objects delete their reference through a `JNIEnv` of
that thread. `objects[t]` keeps the set of `JNIEnv`s of the live objects of a thread:
their number changes nothing here.

### 2.2 FileAppend

`path` and `appendPath` name inodes; a stream is bound to an inode; `content` is
the bytes of each inode, `closed` the complete ones. Alluxio refuses to create a
path that exists, to open a file that is not complete, to delete what is missing, to
rename over a file (`Refused`). These rules are Alluxio's and are external: the
library relies on them.

| Action | Code |
|---|---|
| `StartAppend` | the call of `openFileForAppend`, up to `openFile` |
| `OpenFile`, `CreateFile` | `Alluxio.cc:594`, `:595` |
| `CopyChunk` | one turn of the loop `:598-603` |
| `CloseIn` | `origFile->close()` and the return |
| `Write` | the application's own writes |
| `CompleteAppend` | the call of `completeAppend`, up to `close` |
| `Close`, `DeletePath`, `RenameFile` | `:633`, `:636`, `:645` |
| `CallFails` | any call throws: `catch (...)` frees the buffers and throws again |
| `Stop` | the client dies, or drops its stream |

An execution has an *environment* (`env`, constant through it): whether calls may
fail by themselves, whether an answer may be lost after the master has served the
call, whether a read may be short of what is left, and whether the application
calls `completeAppend` again after it threw. The original bytes are `1..n`; a
byte an application writes is the name of the client.

### 2.3 JniCalls

One thread, with its C++ stack as a sequence of frames (function, place, class
name, wrapped throwable). Calls push a frame, returns pop one, and an exception
unwinds frame by frame through the `catch` clauses of the code. The four places
`find`, `method`, `java`, `check` are those of `callMethodV`, `newObjectV` and
`getEnumObject`; `get` is `ClassCache::get`; `trace` is
`getThrowableStackTrace`, which runs inside the constructor of `NativeException`
and uses `newObject` and `callMethod` itself. Names are pointers: the cache is
keyed by them, and `text` says what each points to. The texts of exceptions are
left out.

`CallLocals` adds two history variables to it: `locals` counts the local references that
the call has made and not deleted (each action of `JniCalls` is joined with what it adds),
and `before` the exceptions that were still to come when it began.

Two ends are not returns: a thread that waits for the lock it holds, and a call
with a NULL method id, which is undefined behaviour; the model stops there. This
is why the configurations of `JniCalls` and `CallLocals` switch deadlock checking off.

### 2.4 Sessions

Threads that connect, build contexts, detach, and the end of the process. The
attachment is an instance of `AttachSpec`; a context is one handle of its thread.

| Action | Code |
|---|---|
| `StartConnect`, `StartContext` | the calls of `connect` (`Alluxio.cc:79`) and of the context's constructor |
| `GetEnv` | the `Env` of the function: `AttachSpec`'s creation or attachment |
| `LockAndLookUp`, `FindClass`, `Insert` | `ClassCaches::getCache` of the `JNIEnv`, then `ClassCache::get`: `m_lock` is taken, `findClass` and `newGlobalRef` make the reference, the entry is inserted |
| `LookUpFails`, `InsertFails` | no class, no reference to it, no memory for the entry: the reference is deleted, the lock given back, the exception thrown |
| `ReportUnderLock` | `newGlobalRef` fails, and an exception that `getClassName` meets is reported with `m_lock` held: the look-up of the report finds it taken by its own thread (finding 2) |
| `Java` | the static call: a constant is read, `Configuration.set` sets a key, `ClientContext.init` reads them all, `BaseFileSystem.get`; or a writer of a report is made |
| `JavaThrows` | the call throws, and its report begins; in a report, another one takes its place |
| `DestroyContext`, `Detach` | `~AlluxioClientContext`, `Env::DetachCurrentThread` |
| `Exit`, `DestroyCache`, `Exited` | once no thread is in the library, the destructors of `ClassCaches` and of each `ClassCache`, in the exiting thread; through the JNIEnv of another thread, or of none, the references go or the process dies (`crashed`) |

A `JNIEnv` that is given to another thread brings its cache with it. `holder` is the thread
that holds the mutex of a cache. The report of an exception is a sequence of look-ups through
the same cache (`Report`); how its exceptions are wrapped and discarded is in `JniCalls`, and
here a failed report, or a failure under the lock, is the choice of the next action. `solo` is a
history variable: the connects that nothing has overlapped.

### 2.5 ApiReferences

Each operation of the API is a *program*, a sequence of steps: allocate a string
or array, call Java, delete a local reference, wrap one in a `JNIObjBase`, leave a
scope, return an object, loop. There is one action per kind of step, and
`Operations` is the translation of the functions of `Alluxio.cc`, one line for
one statement. Each step that allocates or calls may throw (`StepThrows`): then the
destructors of what is in scope run, raw pointers are forgotten and so are
local references. `failures` is the number of exceptions such a step has met: its own, and
those its report met, for a report that fails is reported in turn. The local references
they leave are at most `ReportRefs(failures)`. The application calls operations in any order on objects it has
and deletes these when it likes. `allocateNull` is the `ByteBuffer::allocate` that Java
answers with null.

### 2.6 Streams

| Action | Code |
|---|---|
| `StartCall` | `read(buff, length, off, maxLen)` and `write(...)`; `read(buff, length)` passes 0 and `length` |
| `NewByteArray`, `NewByteArrayFails` | `newByteArray`, and the filling of the array by `write` |
| `ReadMethod`, `WriteMethod`, `MethodThrows` | the call of the Java stream, with or without an offset (`JavaOff`, `JavaLen`); when it throws, a read may have moved the cursor, and a write may have taken the first bytes |
| `CopyOut` | `GetByteArrayRegion(jBuf, 0, rdSz, buff)` |
| `FreeArray` | `DeleteLocalRef` and the return |
| `Handler` | the `catch` of `read`; if `jBuf` was never assigned, its value is one of those the stack may hold |
| `ReadByte`, `Seek`, `Skip`, `WriteByte`, `Flush`, `Close` | the calls without a buffer, `cancel` included; each may throw after it took effect |

### 2.7 Signatures

`Advance` and `AtEnd` are the turns and the end of the loop of `findNext`, one
character each; `Reject` is the two `throw`s; `CallMethod` is the switch of
`callMethodV`, whose call may throw. A class name is a single character.

## 3. Runs

| Run | Instance | Shows |
|---|---|---|
| `attach_safety` | 2 threads, 3 JNIEnvs, 2 contexts; 60 692 states | type; the VM decision is current; a thread uses its own JNIEnv; handles are not stale; local references live as long as their contexts; `AbstractSpec`; the lock is released |
| `attach_detach` | 2 threads, 2 JNIEnvs, 2 contexts | counterexample: the first context does not detach its thread |
| `append_two` | 2 clients, 3 inodes, buffer 2, file up to 4; 212 204 states | the `.append` path is a lock; a complete file is kept; an abandoned copy stays; the appends are snapshots (`AppendSpec`) |
| `append_one` | 1 client, 2 inodes, buffer 2, file up to 7, every environment; 28 774 states | no byte is lost; calls return; without failures they succeed |
| `calls_safety` | `CallLocals`: 1 buffer reused for 2 names, 4 faults; 36 624 states | throwables, lock and references accounted for; depth bounded by the faults; the local references a failing call leaves, bounded by the exceptions it met (`LocalsOfFailure`); calls end, except in the two ways named above |
| `calls_lock`, `calls_pending`, `calls_reuse` | 1 buffer, up to 2 faults | counterexamples, see section 6 |
| `sessions_safety` | 2 threads, 2 JNIEnvs, 2 keys, reports of 1 call, 2 faults; 1 568 068 states | no thread finds its cache lock held by another; class references are counted; an undisturbed `connect` gives its own configuration; calls end, except in a thread that has blocked itself |
| `references_safety` | 5 references, 2 turns of a loop, steps that met up to 2 exceptions; 814 955 states | one owner for each global reference; no use after deletion; which operation loses what (`OnlyAppendLoses`, `LocalsPriced`) |
| `streams_safety` | lengths and offsets -1..3, maximal lengths -1..4, 3 bytes; 81 740 states | no copy leaves its buffer; which bytes arrive; what is written, by a call that throws too; when the handler touches a foreign reference; `StreamSpec` |
| `signatures_safety` | strings of up to 4 characters, and the library's; 89 904 states | `findNext` stays in the string and finds the return type; the member read is the one written; calls end |

Bounds, and why they are enough:

* *threads, contexts*: every property of `JniAttach` relates at most two threads
  and two contexts; two contexts are needed for nesting, the third JNIEnv lets a
  thread come back under another one than it left. The theorems cover every size.
* *clients*: two can be in each other's way at every step; the theorems cover any
  number.
* *inodes*: two clients can refer to at most three at the time one creates
  another (the file, an older one still being read, the copy); a single client
  needs two. `CreateFile` is therefore never disabled for lack of an inode.
* *buffer and file*: a buffer of two and files of 0 to 5 bytes cover the empty
  file, less than a buffer, exact multiples, and a multiple and a rest.
  `MaxSize` bounds the application's writes only.
* *sessions*: `NeverContended`, `RefsCounted` and `WholeConfiguration` relate two
  threads, a JNIEnv that changes hands (the second one shows a thread coming back
  under another), and two keys, between which a connect can stop. A report of one call
  (`LastReport`) makes one look-up, which is what can block; two faults (`MaxFaults`) are what a
  thread needs to block itself, or to fail in a report. The theorems cover every number.
* *references*: an operation has up to three wrappers at a time, and the
  application keeps up to two objects next to them; the turns of the loops enter
  `LocalsPriced` linearly, two tell a price for each turn from a fixed one, and so do two
  exceptions in one failure (`MaxFailures`).
* *streams*: the code compares the arguments with 0 and with each other only; a
  buffer of three bytes has a first, a middle and a last one, and the arguments go
  from below zero to beyond it. The theorems cover every value.
* *signatures*: `findNext` looks at two neighbouring characters; four leave room for
  one before and one behind. The theorems cover every string.
* *faults*: the deepest chain of the code (a global reference fails, its report
  fails, the report of that fails) uses three; four allow one more exception
  after each.

Symmetry (inodes, clients) is used in the runs without liveness only: inodes are
interchangeable, and clients too, since the bytes they write are their own names.

Fairness. In `JniAttach`, weak fairness of the critical section of each thread
only: JNI calls return, and nothing obliges a thread to enter; a mutex promises no
turn, so no property says that a waiting thread gets the lock. In `FileAppend`, weak fairness of
the library's own steps (`CallStep`): the code is sequential and every call of
the Alluxio client returns or throws; the application owes nothing. In
`JniCalls` and `Signatures`, weak fairness of the library's steps for the same
reason. In `Sessions`, weak fairness of each thread's library steps: a mutex gives
no turns, but none is asked for, since the lock of a cache is found free, or held by the
thread itself, which then waits for ever (`NeverContended`); `CallsEnd` excuses that thread
and no other.

## 4. Proofs

`JniAttachProofs`, under `SentinelAssumption` (the three sentinels are not
values of the sets), for any set of threads, JNIEnvs and contexts:

* `InductiveInvariant`: `Spec => []IInv`. The properties alone are not inductive:
  `HandlesCurrent` needs that no context detaches (`NeverMustDetach`), which needs
  that a thread at `check` holds its own JNIEnv (`AcquiredEnvCurrent`), which
  needs the lock to stand for the critical section (`LockInv`), and the
  uniqueness of contexts under construction (`BuildingInv`).
* `TypeCorrect`, `VmDecisionSafe`, `AcquiredEnvSafe`, `HandlesSafe`,
  `LocalRefsSafe` follow from it.
* `Refinement`: `Spec => AbstractSpec`. `held` maps contexts and objects to
  handles; `SameHandles` and `OwnHandles` say what a step does to it, and
  `StepRefines` gives each action its abstract step or a stutter.

`FileAppendProofs`, under `AppendAssumption` and `NoBlindRetry` (no environment
both loses answers and lets the application repeat `completeAppend`), for any
number of clients, any file, any size of the buffer:

* `InductiveInvariant`, `AppendPathIsLock`, `NoFailureLosesTheFile`,
  `AbandonedIsKept`, short reads included. The strengthening: one owner
  (`OneOwner`), what is closed and deleted at each step of `completeAppend`
  (`CompletingInv`), the original is complete and is not the copy
  (`NamespaceInv`). `NoBlindRetry` is needed: if a renaming is served, its answer
  lost and `completeAppend` called again, `deletePath` deletes the file that was just made.
* `DataInvariant`, the second layer, says what the bytes are: every client writes an
  inode of its own that is not complete and reads one that is (`StreamsFor`,
  `OwnStreams`); the copy is the part of the file that has been read, the whole of it
  when the loop ends, then the file and own data (`CopyFor`). One lemma for each
  kind of step; `OthersKept` says once why a step leaves the other clients alone.
  `TypeCorrect` follows.
* `AppendsAreSnapshots`: `Spec => SnapshotAppend` when reads answer all they can
  (`NoShortReads`): `DeletePath` is the abstract `Replace`, `RenameFile` is `Publish`,
  `OpenFile` is `Open`, and every other step forgets the file or is a stutter.
* `NoByteIsLost`: `Spec => BytesKept` for one client (`OneClient`), whatever fails:
  `ReadsPath` says that the file it read is still the one under the path.

`JniCallsProofs`, under `CallsAssumption`, for any class names and any number of
exceptions: `ThrowablesOwned` (`DetailsOwned`), `LockIsServing` (`LockFollowsStack`),
`ReferencesCached` (`RefsCached`), `DepthFollowsFaults` (`DepthBounded`), `TypeCorrect`.
None is inductive alone, because what
an exception may pass through depends on the frames below it:

* `FramesInv` says where a function can be (`Placed`), where it can wait for
  another (`Waiting`), and that an exception is built under `getThrowableStackTrace` only,
  which lets none pass: so a frame that an exception passes through owns no throwable
  (`ExcInv`).
* `OwnedInv` and `RefsInv` are the properties, element by element; `RefsInv` adds that the
  reference a call of `get` is about to insert is live.
* `ServeInv`: one call of `get` serves a miss, the lock is held exactly then, and its
  class is not in the cache. The recursion through the report of a failure ends at
  the lock, never behind it.
* `LiveInv`: exceptions to come, pending and kept are together at most `MaxFaults`, so that
  there is a throwable left when one is wrapped.

A step replaces the top frame, takes it away or puts one on it: `GotoKeeps`,
`PopKeeps`, `ServedKeeps` and `CallKeeps` say once what each keeps, and each action cites one.

`DepthBounded` needs an account of what the stack has cost, a second layer (`DepthInv`).
`Reports` are the frames that report a failure (`getThrowableStackTrace`, and `getClassName`,
which names the class that no reference could be made to). Each was put there for a failure of
its own: their number, the pending exception and the failures to come are together at most
`MaxFaults` (`Paid`). `Fits` says what can run on top of what, so that a report has room for
itself and for one function more (`Bounded`). A step leaves the functions of the stack alone
(`StayDepth`), takes one away or puts one on it; only the start of a report adds to the
count, and the pending exception or the failed reference pays for it.

`SessionsProofs`, under `SessionsAssumption`, for any set of threads, JNIEnvs, and
number of keys: `WorksWithOwnEnv`, `LockFree` (`NeverContended`), `ReferencesCounted`,
`ConfigurationIsWhole`, `TypeCorrect`. `LockFree` says that the thread which holds the lock
of a cache is the only one that can wait for it. The invariant `IInv` joins
`OwnEnv` (a thread in the library works with its JNIEnv, which `EnvsDistinct` makes
its own) with `LockInv` (a cache is locked exactly while the thread of its JNIEnv
serves a miss, or waits for itself in the report of one), `RefsCounted`, `ExitInv` (nobody is in the library when the caches are
destroyed) and `SoloInv` (a connect nothing has overlapped has set all the keys
before its step, and no other is under way). The actions that report an exception share one
lemma, `ReportInv`, and so do those that end a call. None of them is inductive alone: the
count of references needs that the class is not yet in the cache when it is
inserted, which needs the lock, which needs the JNIEnv.

`StreamsProofs`, under `StreamsAssumption`, for any file, data and arguments:
`CopyStaysInside`, `BytesAreDelivered`, `HandlerIsSafeWithArray`, `WritesAsAsked`,
`Refinement` (of `StreamSpec`), `TypeCorrect`. `ArrayInv` keeps the length of the array
equal to that of the call, `BuffInv` says what the buffers hold before the copy,
`ReadInv` where the bytes of a read are in the array, then in the buffer. `JavaOff`
and `Len` bound each other through the refusal of the Java stream, which is
where the copy's bound comes from.

`SignaturesProofs`, under `SignaturesAssumption`, for any set of strings: `findNext`
stays in the string and answers the character after the first `)`. `Walked` (no `)` is behind `str`) is what makes it inductive.
`MemberReadIsWritten` (`ResultRead`) takes the library's own calls: `ResultInv` says that a
call that returns has written the member for the type that was found, and
`SignatureType` that the type found in a signature is the one behind its parameters,
because none of these is a `)`.

`ApiReferencesProofs`, under `ReferencesAssumption`, for any set of references and any
number of turns: `GlobalReferencesOwned` (`GlobalsOwned`) and `TypeCorrect`. An object
has a reference when it is returned because the program that returns it has wrapped
one first, so the invariant follows the programs:

* `OperationsShaped`: every program of `Operations` either returns nothing, or ends with
  the return of a raw pointer that it wraps before (`Returning`), and destroys only
  what is in scope (`Destroying`). One lemma for each program.
* `TodoInv`: what is left of the program that runs still promises its object. A step
  takes the head of the program (`TailOfTodo`), or puts a loop's body in front (`BodyKeepsTodo`).
* `OwnedInv` and `CountInv` are `GlobalsOwned`, element by element.

`ApiOutlinesProofs`, under the same assumption: `UsesAreLive` (`UsesLive`),
`LocalReferencesPriced` (`LocalsPriced`), `OnlyAppendLosesReferences` (`OnlyAppendLoses`).
All three depend on what the steps before a step have done, so an invariant about the
variables alone cannot carry them. The proof puts assertions between the steps of
each program, as one annotates a program by hand:

* an *assertion* says which variables surely name a local reference (`has`), which
  wrappers hold a global one, no more and no less (`held`), and how many local references
  the operation may still leave before it exceeds its price (`spare`);
* an *outline* of a program is an assertion before and after each step such that each
  triple of a step and its two assertions is right by the rule of its kind: `Makes`
  (allocate, static call, call), `Drops`, `WrapsUp`, `Destroys`, `Gives`. A branch that may be
  skipped ends in an assertion that its start implies and its body leads to; the body of a loop leads
  back to the assertion it starts from once the price of one turn is added;
* every program of `Operations` has an outline from its entry (`OperationsEnd`, with one lemma
  for each program, and the lemmas `OutlineConcat`, `OutlineOfStep`, ... that put outlines together);
* `OutlineInv` says that what is left of the running program has an outline from an
  assertion that holds in the state. A step takes the first step of the outline
  (`OutlineOfRest`) and its rule gives the next assertion; a throw ends the operation
  with at most `Slack` references and the reports of its exceptions (`ReportRefs`) above the
  price, and `Forgotten` raw pointers.

The three theorems read their property off the assertion that holds. Which operation
may lose a reference is decided in one place, `Forgotten`, and what a loop
costs in another, `TurnPrice`.

### What the liveness properties rest on

That something happens in the end needs fairness, and `ENABLED`, and is out of the
prover's reach. What can be proved is the part of the argument that is about the code:
a number that each step of a call lowers, so that a call that is given enough steps
is over, and that the steps of others do not raise. Each measure `Left` bounds the
call for every value of the constants (`LeftInv`):

| theorem | `Left` counts | at most | stands behind |
| --- | --- | --- | --- |
| `JniAttachProofs!LockHeldForThreeSteps` | the steps of the holder of `m_env_lock` to its unlock | 3 | `LockReleased` |
| `SessionsProofs!CallsAreBounded` | the steps of a thread to the end of `connect` or of the constructor, 4 for each call of Java to come, and a credit of 8 for each failure, which pays for its report | `4 * LastStep + 1 + 8 * MaxFaults` | `CallsEnd` |
| `FileAppendProofs!CallsAreBounded` | the bytes still to copy, and the steps behind the loop; under `NoBlindRetry` | `MaxSize + 4` | `CallsReturn` |
| `SignaturesProofs!WalkIsShort` | the characters before the NUL, and the switch | `Len(sig) + 2` | `Ends` |
| `JniCallsProofs!CallsAreBounded` | the steps of all functions on the stack, and a credit for the exceptions to come | `36 * MaxFaults + 47` | `CallsEnd` |

In `JniCalls` the stack itself is no measure, because the report of a failure puts
functions on it that may fail in turn. `StepsOf` gives each frame the steps it and its
callees take when nothing fails, `Work` is their sum (the cardinality of a set, so that no
recursion is needed), and `Credit` sets aside 36 steps for each exception that Java may
still raise: each report (35 steps) is paid by the exception that it reports.
`WorkOfStack` says what the three kinds of steps make of the sum, `CreditOfStep` what
an exception takes from the credit, and each action cites one lemma of the kind of its step
(`GotoNearer`, `CallNearer`, `ReturnNearer`, `WrapNearer`, `StillNearer`).

A measure shows that a call cannot go on for ever, not that it can go on at all.
`NothingElseStops` adds this for the module where it is in doubt: inside the library the guard of
a step holds (`CanGoOn`), except where `ClassCache::get` waits for the lock that its own
stack holds and where the method is NULL. In `Sessions`, `LockFree` is that part. Its invariant `NativeInv` is that
`getClassName`, which catches `NativeException` only, meets no other exception: the
`BadAlloc` of a `get` further up the stack has to pass `getThrowableStackTrace` first, which
lets no exception pass.

### What the disagreements with the comments take

A run that finds a violation shows that a state can be reached, not what it takes. For each
finding of section 6 a theorem bounds it from the other side:

* `JniAttachProofs!ContextsNeverDetach`: `m_mustDetachInDtor` is never set, in any execution.
* `JniCallsProofs!TwoFailuresToBlock`: a thread waits for its own cache lock only after two Java
  exceptions, one raised in the report of the other. Two `get`s on the stack with the lock
  held mean, by the frames that fit on each other, two reports, and `DepthInv` says that each
  report was paid by an exception.
* `JniCallsProofs!TwoFailuresToStayPending`: the same for an exception that is still pending after
  the call. Before the second one (`PendingInv`) an exception is pending only while its
  `ENV_CHECK_CLEAR` is the next step (`Checking`).
* `JniCallsProofs!KeptNamesAnswerRight`: as long as no buffer is reused, the cache answers the class
  of the name, for every number of failures (`CacheInv`).

The bounds of two are exact: the runs `calls_lock` and `calls_pending` find their states with two
exceptions.

Only model-checked: the liveness properties themselves, `LockReleased` of `JniAttach`,
`CallsReturn` and `CallsSucceed` of `FileAppend`, `CallsEnd` of `JniCalls` and of `Sessions`,
`Ends` of `Signatures`: the prover has neither fairness nor `ENABLED`; and `LocalsOfFailure` of
`CallLocals`, up to four exceptions in one execution. The theorem `LocalReferencesPriced` rests
on it: it takes the bound `ReportRefs`, which `LocalsOfFailure` checks, for granted. Every other
invariant, every action property and every refinement that a passing run checks is a theorem.

The inductive invariants are proved and not listed as properties of runs. `OutlineInv`
is one that TLC cannot evaluate at all, since it asks for a function from positions to
assertions; its consequences are what the run `references_safety` checks.

## 5. Not modelled, and why

* `ClassCache::set`: it has no caller. `checkException`, `checkExceptionAndAbort`,
  `checkExceptionAndPrint`, `throwableToString`, `newRuntimeException`, the field
  getters and `FieldNotFoundException`: the library calls them, if at all, from one
  another only. `die` and `concat` of `Util.cc` have no caller either.
* The texts of exceptions and messages, the measuring of times in `InStream::read`.
* What Alluxio answers to `exists`, `getStatus` and `listStatus`, and the parsing of
  its text in `listPath`: data, without influence on the control.
* Exhausted memory, in the JVM (a wrapper with no valid reference) or in
  C++: one place stands for it in `JniCalls`, the insertion in the cache, whose
  `std::bad_alloc` passes through every handler but the one of `toString`; and one in
  `Sessions`, `InsertFails`.
* Copies of a `JNIObjBase`: the class has the implicit copy constructor and its
  copies would delete one reference twice, but no code of the library copies one.
* `Env::DetachCurrentThread` by a thread that still has contexts or objects: nothing in the
  code prevents it, and it leaves handles with a dead `JNIEnv`. The models take an
  application that does not.
* Threads that run on during `exit`: the application is taken to have joined them.
* Overlapping calls of `connect`: they are modelled, but nothing is promised of the
  configuration they leave.
* The test program (a fixed order of calls of the library, all of them possible in the
  models, with no state of its own), build files and scripts.

## 6. Findings

Each is the only property of its run, and quotes the line it contradicts.

1. **`attach_detach`** The context that attached its thread never detaches it: the
   member `m_env` has attached the thread before `attach()` asks. The branch that
   would set `m_mustDetachInDtor` is dead, fortunately: it would dereference NULL.
2. **`calls_lock`** `ClassCache::get` can call itself, through the report of a failed
   `NewGlobalRef`, and wait for its own lock.
3. **`calls_pending`** `getThrowableStackTrace` can leave a Java exception pending.
4. **`calls_reuse`** The class cache answers by pointer, not by name.

Observed while modelling, and stated by the properties rather than refuted by a run:

* a missing method or field is called or read by a NULL id (`CallsEnd` in `JniCalls`);
* a failure in the "critical section" of `completeAppend` whose answer was lost
  leaves the new file in place (`CompleteFileKept`, and `NoBlindRetry` in the proofs);
* a read that answers less than it could ends the copy loop early (`BytesKept`
  holds without short reads only);
* `read` with an offset copies from the start of the array (`DeliveredBytes`), and its handler
  may delete a foreign local reference (`JunkOnlyWithoutArray`);
* at exit the references of a class cache are deleted through the `JNIEnv` it was made for, of another or
  an ended thread (`DestroyCache` in `Sessions`);
* `openFileForAppend` never deletes `origFile`, and loses `newFile` when the copy
  throws (`OnlyAppendLoses`); most calls leave local references (`LocalsPriced`).

## 7. Plan

Done: attachment, append, calls, references, streams, sessions, signatures, in that
order: first what holds the concurrency and the failures, then what is built on it.

Proved, in the same order: the type invariants and the safety invariants of each module,
the three refinements (`AttachSpec`, `AppendSpec`, `StreamSpec`), the action properties, and
then the two that needed an account of the past, the depth of the stack and the outlines of
the operations; then the measures behind the liveness properties; last what each finding takes.

What is left:

1. the outlines could carry a sharper price: an upper bound for each operation that is
   also reached, so that a saved local reference would show in the theorem;
2. a proof of `LocalsOfFailure`, on the measure that `DepthFollowsFaults` uses, so that the bound
   `ReportRefs` of `ApiReferences` rests on a theorem and not on a run;
