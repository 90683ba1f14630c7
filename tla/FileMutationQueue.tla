------------------------- MODULE FileMutationQueue -------------------------
(***************************************************************************)
(* The per-file mutation queue of the edit and write tools:                *)
(* packages/coding-agent/src/core/tools/file-mutation-queue.ts.            *)
(*                                                                         *)
(* An operation (a call of withFileMutationQueue) goes through the         *)
(* registration queue, where its path is turned into a key and a link is   *)
(* appended to the promise chain of that key; it then waits for the link   *)
(* before it, runs its callback, and releases its own link.                *)
(*                                                                         *)
(* The registration queue is a chain of promises, each one started by the  *)
(* end of the one before: it is modelled by numbering the calls and by     *)
(* letting only the call numbered registered + 1 resolve and register.     *)
(***************************************************************************)
EXTENDS Naturals

CONSTANTS
  Ops,      \* the calls of withFileMutationQueue
  Paths,    \* absolute paths, aliases through symbolic links included
  Canon,    \* Canon[p]: what realpath returns for p once the file exists
  NoOp      \* a promise that is already resolved; also: no entry in the map

ASSUME CanonAssumption == Canon \in [Paths -> Paths]
ASSUME NoOpAssumption  == NoOp \notin Ops

VARIABLES
  pc,          \* where each call stands
  path,        \* filePath of each call
  callNo,      \* the position of each call in the registration queue
  calls,       \* number of calls so far
  registered,  \* number of calls that left the registration queue
  key,         \* the key of each call, once resolved
  pred,        \* currentQueue: the call whose link this one awaits
  released,    \* the calls that ran releaseNext()
  queues,      \* fileMutationQueues: key -> the call that set chainedQueue
  exists,      \* the files that exist, by canonical path
  missed       \* history: the calls whose realpath found no file

vars == <<pc, path, callNo, calls, registered, key, pred, released, queues, exists, missed>>

States == {"idle", "called", "resolved", "waiting", "running", "done", "failed"}

Init ==
  /\ pc = [o \in Ops |-> "idle"]
  /\ path \in [Ops -> Paths]
  /\ callNo = [o \in Ops |-> 0]
  /\ calls = 0
  /\ registered = 0
  /\ key = path
  /\ pred = [o \in Ops |-> NoOp]
  /\ released = {}
  /\ queues = [p \in Paths |-> NoOp]
  /\ exists \in SUBSET {Canon[p] : p \in Paths}
  /\ missed = {}

-----------------------------------------------------------------------------
\* Plausible bugs: each one replaces a definition below in a mutation run.

\* Delete the entry whoever set it.
DropAlways(q, o) == [q EXCEPT ![key[o]] = NoOp]

\* Never delete the entry.
DropNever(q, o) == q

\* Delete the key, and look it up later without a default.
DropKey(q, o) == [p \in DOMAIN q \ {key[o]} |-> q[p]]

\* Resolve without waiting for the registration before.
AnyRegistration(o) == TRUE

\* A failed realpath breaks the registration chain.
ResolveFailsStuck(o) ==
  /\ pc[o] = "called"
  /\ callNo[o] = registered + 1
  /\ pc' = [pc EXCEPT ![o] = "failed"]
  /\ UNCHANGED <<path, callNo, calls, registered, key, pred, released, queues, exists, missed>>

\* Key by the path as given, never by its real path.
KeyByPath(p) == p

-----------------------------------------------------------------------------
\* withFileMutationQueue(filePath, fn) chains a registration.
Call(o) ==
  /\ pc[o] = "idle"
  /\ pc' = [pc EXCEPT ![o] = "called"]
  /\ calls' = calls + 1
  /\ callNo' = [callNo EXCEPT ![o] = calls + 1]
  /\ UNCHANGED <<path, registered, key, pred, released, queues, exists, missed>>

\* The registration before this one has settled.
MyRegistration(o) == callNo[o] = registered + 1

\* getMutationQueueKey: realpath when the file exists, the path itself when not.
KeyOf(p) == IF Canon[p] \in exists THEN Canon[p] ELSE p

\* registrationQueue.then(...) starts and the file system answers realpath.
Resolve(o) ==
  /\ pc[o] = "called"
  /\ MyRegistration(o)
  /\ key' = [key EXCEPT ![o] = KeyOf(path[o])]
  /\ missed' = IF Canon[path[o]] \in exists THEN missed ELSE missed \cup {o}
  /\ pc' = [pc EXCEPT ![o] = "resolved"]
  /\ UNCHANGED <<path, callNo, calls, registered, pred, released, queues, exists>>

\* realpath fails otherwise than with ENOENT or ENOTDIR: the call rejects, and
\* the registration queue goes on.
ResolveFails(o) ==
  /\ pc[o] = "called"
  /\ MyRegistration(o)
  /\ pc' = [pc EXCEPT ![o] = "failed"]
  /\ registered' = registered + 1
  /\ UNCHANGED <<path, callNo, calls, key, pred, released, queues, exists, missed>>

\* After the await: read the chain of the key and append to it.
Register(o) ==
  /\ pc[o] = "resolved"
  /\ pred' = [pred EXCEPT ![o] = queues[key[o]]]
  /\ queues' = [queues EXCEPT ![key[o]] = o]
  /\ registered' = registered + 1
  /\ pc' = [pc EXCEPT ![o] = "waiting"]
  /\ UNCHANGED <<path, callNo, calls, key, released, exists, missed>>

\* currentQueue is resolved. A chainedQueue resolves when the chain before it
\* and its own nextQueue have; a call releases only after it has awaited the
\* chain before it, so its release is the later of the two.
Turn(o) == pred[o] = NoOp \/ pred[o] \in released

\* await currentQueue, then fn() is entered.
Start(o) ==
  /\ pc[o] = "waiting"
  /\ Turn(o)
  /\ pc' = [pc EXCEPT ![o] = "running"]
  /\ UNCHANGED <<path, callNo, calls, registered, key, pred, released, queues, exists, missed>>

\* The callback of the write tool creates the file it writes.
Create(o) ==
  /\ pc[o] = "running"
  /\ exists' = exists \cup {Canon[path[o]]}
  /\ UNCHANGED <<pc, path, callNo, calls, registered, key, pred, released, queues, missed>>

\* The map entry is deleted by the call whose link is still the last one.
DropIfLast(q, o) == IF q[key[o]] = o THEN [q EXCEPT ![key[o]] = NoOp] ELSE q

\* The callback settles, by returning or by throwing; the finally block runs.
Finish(o) ==
  /\ pc[o] = "running"
  /\ released' = released \cup {o}
  /\ queues' = DropIfLast(queues, o)
  /\ pc' = [pc EXCEPT ![o] = "done"]
  /\ UNCHANGED <<path, callNo, calls, registered, key, pred, exists, missed>>

\* Another program, or the bash tool, removes a file.
Remove(f) ==
  /\ f \in exists
  /\ exists' = exists \ {f}
  /\ UNCHANGED <<pc, path, callNo, calls, registered, key, pred, released, queues, missed>>

Progress(o) == Resolve(o) \/ ResolveFails(o) \/ Register(o) \/ Start(o) \/ Finish(o)

Next ==
  \/ \E o \in Ops : \/ Call(o) \/ Resolve(o) \/ ResolveFails(o) \/ Register(o)
                    \/ Start(o) \/ Create(o) \/ Finish(o)
  \/ \E f \in exists : Remove(f)

Spec == Init /\ [][Next]_vars

\* Promise reactions are always run; a file-system call and a callback settle.
FairSpec == Spec /\ \A o \in Ops : WF_vars(Progress(o))

-----------------------------------------------------------------------------
TypeOK ==
  /\ pc \in [Ops -> States]
  /\ path \in [Ops -> Paths]
  /\ callNo \in [Ops -> Nat]
  /\ calls \in Nat
  /\ registered \in Nat
  /\ key \in [Ops -> Paths]
  /\ pred \in [Ops -> Ops \cup {NoOp}]
  /\ released \in SUBSET Ops
  /\ queues \in [Paths -> Ops \cup {NoOp}]
  /\ exists \in SUBSET Paths
  /\ missed \in SUBSET Ops

Live(o) == pc[o] \in {"waiting", "running"}

\* Two operations never run at the same time on one key: neither the chain nor
\* the deletion of the map entry by an operation that finishes lets a second
\* operation in while a first one is inside its callback.
KeyExclusion ==
  \A o, q \in Ops : pc[o] = "running" /\ pc[q] = "running" /\ key[o] = key[q] => o = q

\* Operations on one key run in the order in which they were called, whatever
\* the order in which the file system answers and callbacks settle.
CallOrder ==
  \A o, q \in Ops :
    /\ key[o] = key[q]
    /\ pc[o] \in {"resolved", "waiting"}
    /\ pc[q] \in {"running", "done"}
    => callNo[q] < callNo[o]

\* The map holds an entry exactly for the keys some operation still uses: it
\* neither forgets a chain that is in use nor grows with finished ones.
MapHoldsLiveChains ==
  \A p \in Paths : queues[p] # NoOp <=> \E o \in Ops : Live(o) /\ key[o] = p

\* The key of such a call is the canonical path of its file.
FoundOrReal(o) == o \notin missed \/ Canon[path[o]] = path[o]

\* Operations on the same file are serialized, through whatever links they
\* reach it and whether or not it is created or removed meanwhile.  The
\* exception is a link that leads to no file when its key is computed: what the
\* comment of withFileMutationQueue promises does not hold there.
SameFileExclusion ==
  \A o, q \in Ops :
    /\ pc[o] = "running" /\ pc[q] = "running"
    /\ Canon[path[o]] = Canon[path[q]]
    /\ FoundOrReal(o) /\ FoundOrReal(q)
    => o = q

\* Every call returns or throws, whichever others fail on the way.
EveryCallSettles ==
  \A o \in Ops : pc[o] = "called" ~> pc[o] \in {"done", "failed"}
=============================================================================
