---------------------- MODULE FileMutationQueue_proofs ----------------------
(***************************************************************************)
(* Mutual exclusion per key, call order and the exactness of the map, for  *)
(* any set of calls, any paths and any symbolic links.                     *)
(***************************************************************************)
EXTENDS FileMutationQueue, TLAPS

Started(o) == pc[o] \in {"running", "done"}
Registered(o) == pc[o] \in {"waiting", "running", "done"}

\* The registration queue numbers the calls, and lets them out one by one.
NumberInv ==
  /\ \A o \in Ops : callNo[o] <= calls
  /\ \A o, q \in Ops : pc[o] # "idle" /\ callNo[o] = callNo[q] => o = q
  /\ \A o \in Ops : pc[o] = "called" => registered < callNo[o]
  /\ \A o \in Ops : pc[o] = "resolved" => callNo[o] = registered + 1
  /\ \A o \in Ops : Registered(o) => callNo[o] <= registered
  /\ registered <= calls

\* Each key's live calls form a chain that the map entry ends.
ChainInv ==
  /\ \A o \in Ops : o \in released <=> pc[o] = "done"
  /\ \A p \in Paths : queues[p] # NoOp => Live(queues[p]) /\ key[queues[p]] = p
  /\ \A o \in Ops : Live(o) => /\ queues[key[o]] # NoOp
                               /\ callNo[o] <= callNo[queues[key[o]]]
  /\ \A o \in Ops : Registered(o) /\ pred[o] # NoOp =>
                      Registered(pred[o]) /\ key[pred[o]] = key[o]
  /\ \A o, r \in Ops : Live(o) /\ Live(r) /\ key[o] = key[r] /\ callNo[r] < callNo[o]
                       => pred[o] # NoOp /\ callNo[r] <= callNo[pred[o]]

\* On one key, the calls that started come before all the live ones.
StartInv ==
  \A q, r \in Ops :
    Started(q) /\ Live(r) /\ key[q] = key[r] /\ q # r => callNo[q] < callNo[r]

IInv == TypeOK /\ NumberInv /\ ChainInv /\ StartInv

\* The state every action starts from is well typed: so is the next one.
LEMMA TypeInductive == TypeOK /\ [Next]_vars => TypeOK'
<1> USE CanonAssumption, NoOpAssumption
<1> SUFFICES ASSUME TypeOK, [Next]_vars PROVE TypeOK'
  OBVIOUS
<1>1. ASSUME NEW o \in Ops, Call(o) PROVE TypeOK'
  BY <1>1 DEF TypeOK, States, Call
<1>2. ASSUME NEW o \in Ops, Resolve(o) PROVE TypeOK'
  BY <1>2 DEF TypeOK, States, Resolve, KeyOf
<1>3. ASSUME NEW o \in Ops, ResolveFails(o) PROVE TypeOK'
  BY <1>3 DEF TypeOK, States, ResolveFails
<1>4. ASSUME NEW o \in Ops, Register(o) PROVE TypeOK'
  BY <1>4 DEF TypeOK, States, Register
<1>5. ASSUME NEW o \in Ops, Start(o) PROVE TypeOK'
  BY <1>5 DEF TypeOK, States, Start
<1>6. ASSUME NEW o \in Ops, Create(o) PROVE TypeOK'
  BY <1>6 DEF TypeOK, Create
<1>7. ASSUME NEW o \in Ops, Finish(o) PROVE TypeOK'
  BY <1>7 DEF TypeOK, States, Finish, DropIfLast
<1>8. ASSUME NEW f \in exists, Remove(f) PROVE TypeOK'
  BY <1>8 DEF TypeOK, Remove
<1>9. CASE UNCHANGED vars
  BY <1>9 DEF TypeOK, vars
<1> QED
  BY <1>1, <1>2, <1>3, <1>4, <1>5, <1>6, <1>7, <1>8, <1>9 DEF Next

\* The numbering of the calls is preserved by every step.
LEMMA NumberInductive == TypeOK /\ NumberInv /\ [Next]_vars => NumberInv'
<1> SUFFICES ASSUME TypeOK, NumberInv, [Next]_vars PROVE NumberInv'
  OBVIOUS
<1> USE DEF TypeOK, NumberInv, Registered
<1>1. ASSUME NEW o \in Ops, Call(o) PROVE NumberInv'
  BY <1>1 DEF Call
<1>2. ASSUME NEW o \in Ops, Resolve(o) PROVE NumberInv'
  BY <1>2 DEF Resolve, MyRegistration
<1>3. ASSUME NEW o \in Ops, ResolveFails(o) PROVE NumberInv'
  BY <1>3 DEF ResolveFails, MyRegistration
<1>4. ASSUME NEW o \in Ops, Register(o) PROVE NumberInv'
  <2>1. \A q \in Ops : pc'[q] = IF q = o THEN "waiting" ELSE pc[q]
    BY <1>4 DEF Register
  <2>2. callNo' = callNo /\ calls' = calls /\ registered' = registered + 1
    BY <1>4 DEF Register
  <2>3. pc[o] = "resolved" /\ callNo[o] = registered + 1
    BY <1>4 DEF Register
  <2>4. \A q \in Ops : pc[q] = "called" => registered + 1 < callNo[q]
    BY <2>3
  <2> QED
    BY <2>1, <2>2, <2>3, <2>4
<1>5. ASSUME NEW o \in Ops, Start(o) PROVE NumberInv'
  BY <1>5 DEF Start
<1>6. ASSUME NEW o \in Ops, Create(o) PROVE NumberInv'
  BY <1>6 DEF Create
<1>7. ASSUME NEW o \in Ops, Finish(o) PROVE NumberInv'
  BY <1>7 DEF Finish
<1>8. ASSUME NEW f \in exists, Remove(f) PROVE NumberInv'
  BY <1>8 DEF Remove
<1>9. CASE UNCHANGED vars
  BY <1>9 DEF vars
<1> QED
  BY <1>1, <1>2, <1>3, <1>4, <1>5, <1>6, <1>7, <1>8, <1>9 DEF Next

\* The chains and the order of starts are preserved by every step.
LEMMA ChainInductive == IInv /\ [Next]_vars => ChainInv' /\ StartInv'
<1> USE NoOpAssumption
<1> SUFFICES ASSUME IInv, [Next]_vars PROVE ChainInv' /\ StartInv'
  OBVIOUS
<1> USE DEF IInv, TypeOK, NumberInv, ChainInv, StartInv, Registered, Started, Live
<1>1. ASSUME NEW o \in Ops, Call(o) PROVE ChainInv' /\ StartInv'
  BY <1>1 DEF Call
<1>2. ASSUME NEW o \in Ops, Resolve(o) PROVE ChainInv' /\ StartInv'
  BY <1>2 DEF Resolve
<1>3. ASSUME NEW o \in Ops, ResolveFails(o) PROVE ChainInv' /\ StartInv'
  BY <1>3 DEF ResolveFails
<1>4. ASSUME NEW o \in Ops, Register(o) PROVE ChainInv' /\ StartInv'
  BY <1>4 DEF Register
<1>5. ASSUME NEW o \in Ops, Start(o) PROVE ChainInv' /\ StartInv'
  <2>1. ChainInv'
    BY <1>5 DEF Start
  <2>2. ASSUME NEW r \in Ops, Live(r), key[r] = key[o], r # o PROVE callNo[o] < callNo[r]
    <3>0. callNo[o] < callNo[r] \/ callNo[r] < callNo[o]
      <4>1. callNo[r] # callNo[o]
        BY <1>5, <2>2 DEF Start
      <4>2. callNo[r] \in Nat /\ callNo[o] \in Nat
        OBVIOUS
      <4> HIDE DEF IInv
      <4> QED
        BY <4>1, <4>2
    <3>1. ASSUME callNo[r] < callNo[o] PROVE FALSE
      <4>1. pred[o] \in released /\ callNo[r] <= callNo[pred[o]] /\ key[pred[o]] = key[r]
        BY <1>5, <2>2, <3>1 DEF Start, Turn
      <4>2. pc[pred[o]] = "done" /\ pred[o] # r /\ pred[o] \in Ops
        BY <2>2, <4>1
      <4>3. callNo[pred[o]] < callNo[r] /\ callNo[pred[o]] \in Nat
        BY <2>2, <4>1, <4>2
      <4> QED
        BY <3>0, <4>1, <4>3
    <3> QED
      BY <3>0, <3>1
  <2>3. StartInv'
    BY <1>5, <2>2 DEF Start
  <2> QED
    BY <2>1, <2>3
<1>6. ASSUME NEW o \in Ops, Create(o) PROVE ChainInv' /\ StartInv'
  BY <1>6 DEF Create
<1>7. ASSUME NEW o \in Ops, Finish(o) PROVE ChainInv' /\ StartInv'
  <2>1. ASSUME NEW r \in Ops, Live(r), key[r] = key[o], queues[key[o]] = o PROVE r = o
    BY <1>7, <2>1 DEF Finish
  <2>2. ChainInv'
    BY <1>7, <2>1 DEF Finish, DropIfLast
  <2>3. StartInv'
    BY <1>7 DEF Finish
  <2> QED
    BY <2>2, <2>3
<1>8. ASSUME NEW f \in exists, Remove(f) PROVE ChainInv' /\ StartInv'
  BY <1>8 DEF Remove
<1>9. CASE UNCHANGED vars
  BY <1>9 DEF vars
<1> QED
  BY <1>1, <1>2, <1>3, <1>4, <1>5, <1>6, <1>7, <1>8, <1>9 DEF Next

\* The inductive invariant holds in every reachable state.
THEOREM Invariance == Spec => []IInv
<1>1. Init => IInv
  BY CanonAssumption, NoOpAssumption
  DEF Init, IInv, TypeOK, NumberInv, ChainInv, StartInv, Registered, Started, Live, States
<1>2. IInv /\ [Next]_vars => IInv'
  BY TypeInductive, NumberInductive, ChainInductive DEF IInv
<1> QED
  BY <1>1, <1>2, PTL DEF Spec

\* Two calls never run their callbacks at the same time on one key.
THEOREM KeyExclusionHolds == Spec => []KeyExclusion
<1>1. IInv => KeyExclusion
  BY DEF IInv, TypeOK, StartInv, KeyExclusion, Started, Live
<1> QED
  BY <1>1, Invariance, PTL

\* Calls on one key run in the order in which they were made.
THEOREM CallOrderHolds == Spec => []CallOrder
<1>1. IInv => CallOrder
  BY DEF IInv, TypeOK, NumberInv, StartInv, CallOrder, Started, Live, Registered
<1> QED
  BY <1>1, Invariance, PTL

\* The map has an entry exactly for the keys in use.
THEOREM MapHoldsLiveChainsHolds == Spec => []MapHoldsLiveChains
<1>1. IInv => MapHoldsLiveChains
  BY NoOpAssumption DEF IInv, TypeOK, ChainInv, MapHoldsLiveChains, Live
<1> QED
  BY <1>1, Invariance, PTL

\* A call that found its file, or was given its real path, has the canonical
\* path of the file as its key.
KeyInv ==
  \A o \in Ops : (pc[o] = "resolved" \/ Registered(o)) /\ FoundOrReal(o) =>
                   key[o] = Canon[path[o]]

\* Keys are set once, when the path is resolved.
LEMMA KeyInductive == TypeOK /\ KeyInv /\ [Next]_vars => KeyInv'
<1> SUFFICES ASSUME TypeOK, KeyInv, [Next]_vars PROVE KeyInv'
  OBVIOUS
<1> USE CanonAssumption DEF TypeOK, KeyInv, Registered, FoundOrReal
<1>1. ASSUME NEW o \in Ops, Call(o) PROVE KeyInv'
  BY <1>1 DEF Call
<1>2. ASSUME NEW o \in Ops, Resolve(o) PROVE KeyInv'
  BY <1>2 DEF Resolve, KeyOf
<1>3. ASSUME NEW o \in Ops, ResolveFails(o) PROVE KeyInv'
  BY <1>3 DEF ResolveFails
<1>4. ASSUME NEW o \in Ops, Register(o) PROVE KeyInv'
  BY <1>4 DEF Register
<1>5. ASSUME NEW o \in Ops, Start(o) PROVE KeyInv'
  BY <1>5 DEF Start
<1>6. ASSUME NEW o \in Ops, Create(o) PROVE KeyInv'
  BY <1>6 DEF Create
<1>7. ASSUME NEW o \in Ops, Finish(o) PROVE KeyInv'
  BY <1>7 DEF Finish
<1>8. ASSUME NEW f \in exists, Remove(f) PROVE KeyInv'
  BY <1>8 DEF Remove
<1>9. CASE UNCHANGED vars
  BY <1>9 DEF vars
<1> QED
  BY <1>1, <1>2, <1>3, <1>4, <1>5, <1>6, <1>7, <1>8, <1>9 DEF Next

\* Operations on the same file exclude each other, but for a link that led to
\* no file: that is the only way around the queue.
THEOREM SameFileExclusionHolds == Spec => []SameFileExclusion
<1>1. Init => KeyInv
  BY DEF Init, KeyInv, Registered
<1>2. IInv => TypeOK
  BY DEF IInv
<1>3. KeyExclusion /\ KeyInv => SameFileExclusion
  BY DEF KeyExclusion, KeyInv, SameFileExclusion, Registered
<1> QED
  BY <1>1, <1>2, <1>3, KeyInductive, Invariance, KeyExclusionHolds, PTL DEF Spec
=============================================================================
