----------------------- MODULE SessionRuntime_proofs ------------------------
(***************************************************************************)
(* Proofs about SessionRuntime, for any set of commands and any bound.     *)
(***************************************************************************)
EXTENDS SessionRuntime, TLAPS

(***************************************************************************)
(* Type correctness.                                                       *)
(***************************************************************************)

\* The initial state is well typed.
LEMMA InitTypeOK == Init => TypeOK
<1> SUFFICES ASSUME Init PROVE TypeOK
  OBVIOUS
<1>1. 1 \in Sessions /\ 0 \in 0 .. MaxCommands
  BY CommandsAssumption DEF Sessions
<1> QED
  BY <1>1 DEF Init, TypeOK, Phases, None

\* A step of a command leads from a phase to a phase.
LEMMA GoesKeepsType ==
  ASSUME TypeOK, NEW c \in Commands, NEW from \in Phases, NEW to \in Phases,
         Goes(c, from, to)
  PROVE  pc' \in [Commands -> Phases]
BY DEF TypeOK, Goes

\* A session is told once more, the others are not.
LEMMA ToldType ==
  ASSUME NEW count \in [Sessions -> Nat], NEW s \in Sessions
  PROVE  /\ Told(count, s) \in [Sessions -> Nat]
         /\ Told(count, s)[s] = count[s] + 1
         /\ \A t \in Sessions \ {s} : Told(count, s)[t] = count[t]
BY DEF Told

\* Every step keeps the types.
LEMMA NextTypeOK == TypeOK /\ [Next]_vars => TypeOK'
<1> SUFFICES ASSUME TypeOK, [Next]_vars PROVE TypeOK'
  OBVIOUS
<1> USE DEF askVars, modeVars, toldVars
<1>p. \A ph \in {"idle", "asking", "ending", "creating", "setup", "binding",
                 "bound", "rebinding"} : ph \in Phases
  BY DEF Phases
<1>1. ASSUME NEW c \in Commands, Ask(c) PROVE TypeOK'
  <2>1. given + 2 \in Sessions /\ given' \in 0 .. MaxCommands
    BY <1>1, CommandsAssumption DEF Ask, TypeOK, Sessions
  <2>2. pc' \in [Commands -> Phases]
    BY <1>1, <1>p, GoesKeepsType DEF Ask
  <2>3. overlapped' \in BOOLEAN
    BY <1>1 DEF Ask, TypeOK
  <2> QED
    BY <1>1, <2>1, <2>2, <2>3 DEF Ask, TypeOK
<1>2. ASSUME NEW c \in Commands, Refuse(c) PROVE TypeOK'
  <2>1. pc' \in [Commands -> Phases]
    BY <1>2, <1>p, GoesKeepsType DEF Refuse
  <2> QED
    BY <1>2, <2>1 DEF Refuse, TypeOK
<1>3. ASSUME NEW c \in Commands, End(c) PROVE TypeOK'
  <2>1. pc' \in [Commands -> Phases]
    BY <1>3, <1>p, GoesKeepsType DEF End
  <2>2. ends' \in [Sessions -> Nat]
    BY <1>3, ToldType DEF End, TypeOK
  <2> QED
    BY <1>3, <2>1, <2>2 DEF End, TypeOK
<1>4. ASSUME NEW c \in Commands, TearDown(c) PROVE TypeOK'
  <2>1. pc' \in [Commands -> Phases]
    BY <1>4, <1>p, GoesKeepsType DEF TearDown
  <2> QED
    BY <1>4, <2>1 DEF TearDown, Dispose, TypeOK
<1>5. ASSUME NEW c \in Commands, Fail(c) PROVE TypeOK'
  <2>1. pc' \in [Commands -> Phases]
    BY <1>5, <1>p, GoesKeepsType DEF Fail
  <2> QED
    BY <1>5, <2>1 DEF Fail, TypeOK
<1>6. ASSUME NEW c \in Commands, Apply(c) PROVE TypeOK'
  <2>1. pc' \in [Commands -> Phases]
    BY <1>6, <1>p, GoesKeepsType DEF Apply
  <2>2. num[c] \in Sessions
    BY DEF TypeOK
  <2>3. session' \in Sessions /\ starts' \in [Sessions -> Nat]
    BY <1>6, <2>2, ToldType DEF Apply, Bind, TypeOK
  <2> QED
    BY <1>6, <2>1, <2>2, <2>3 DEF Apply, TypeOK
<1>7. ASSUME NEW c \in Commands, SetUp(c) PROVE TypeOK'
  <2>1. pc' \in [Commands -> Phases]
    BY <1>7, <1>p, GoesKeepsType DEF SetUp
  <2>2. session' \in Sessions /\ starts' \in [Sessions -> Nat]
    BY <1>7, ToldType DEF SetUp, Bind, TypeOK
  <2> QED
    BY <1>7, <2>1, <2>2 DEF SetUp, TypeOK
<1>7f. ASSUME NEW c \in Commands, SetUpFails(c) PROVE TypeOK'
  <2>1. pc' \in [Commands -> Phases]
    BY <1>7f, <1>p, GoesKeepsType DEF SetUpFails
  <2> QED
    BY <1>7f, <2>1 DEF SetUpFails, TypeOK
<1>8f. ASSUME NEW c \in Commands, BindFails(c) PROVE TypeOK'
  <2>1. pc' \in [Commands -> Phases]
    BY <1>8f, <1>p, GoesKeepsType DEF BindFails
  <2> QED
    BY <1>8f, <2>1 DEF BindFails, TypeOK
<1>8. ASSUME NEW c \in Commands, Subscribe(c) PROVE TypeOK'
  <2>1. pc' \in [Commands -> Phases]
    BY <1>8, <1>p, GoesKeepsType DEF Subscribe
  <2> QED
    BY <1>8, <2>1 DEF Subscribe, TypeOK
<1>9. ASSUME NEW c \in Commands, Rebind(c) PROVE TypeOK'
  <2>1. pc' \in [Commands -> Phases]
    BY <1>9, <1>p, GoesKeepsType DEF Rebind
  <2>2. session' \in Sessions /\ starts' \in [Sessions -> Nat]
    BY <1>9, ToldType DEF Rebind, Bind, TypeOK
  <2> QED
    BY <1>9, <2>1, <2>2 DEF Rebind, TypeOK
<1>10. CASE Stop
  <2>1. ends' \in [Sessions -> Nat]
    BY <1>10, ToldType DEF Stop, TypeOK
  <2>2. overlapped' \in BOOLEAN
    BY <1>10 DEF Stop, TypeOK
  <2> QED
    BY <1>10, <2>1, <2>2 DEF Stop, TypeOK
<1>11. CASE Stopped
  BY <1>11 DEF Stopped, Dispose, TypeOK
<1>12. CASE UNCHANGED vars
  BY <1>12 DEF vars, TypeOK
<1> QED
  BY <1>1, <1>2, <1>3, <1>4, <1>5, <1>6, <1>7, <1>7f, <1>8, <1>8f, <1>9, <1>10,
     <1>11, <1>12 DEF Next

\* Every variable keeps its type, whatever replacements overlap.
THEOREM TypeCorrect == Spec => []TypeOK
BY InitTypeOK, NextTypeOK, PTL DEF Spec

(***************************************************************************)
(* The session that is left is usable.                                     *)
(*                                                                         *)
(* Whatever is not as it should be, some command is about to put right:    *)
(* one that disposed a session has one to apply, one that applied a        *)
(* session has the mode to bind, and one that bound it has it to hear.     *)
(* Only a command that fails leaves it so, until a session is created.     *)
(***************************************************************************)

Owed ==
  exit = "no" /\ ~broken
    => /\ current \notin live => \E c \in Commands : pc[c] = "creating"
       /\ heard # session => Replacing # {}
Pointed == session # current /\ ~broken => \E c \in Commands : pc[c] = "setup"
UsableInv == TypeOK /\ Owed /\ Pointed

\* The invariant implies the property: no command is under way, so none owes a binding.
LEMMA UsableInvIsUsable == UsableInv => Usable
BY DEF UsableInv, Owed, Pointed, Usable, Replacing

\* A command that goes on leaves the others where they were.
LEMMA GoesMoves ==
  ASSUME TypeOK, NEW c \in Commands, NEW from, NEW to, Goes(c, from, to)
  PROVE  /\ pc[c] = from /\ pc'[c] = to /\ exit # "done"
         /\ \A d \in Commands : d # c => pc'[d] = pc[d]
BY DEF TypeOK, Goes

\* Steps that change neither sessions nor what is owed for them.
LEMMA UsableInvUntouched ==
  ASSUME UsableInv, TypeOK', NEW c \in Commands,
         pc[c] # pc'[c] => pc[c] \notin {"creating", "setup", "binding", "rebinding"},
         \A d \in Commands : d # c => pc'[d] = pc[d],
         UNCHANGED <<current, live, session, heard, broken>>,
         exit' = "no" => exit = "no"
  PROVE  UsableInv'
<1>1. \A d \in Commands :
        pc[d] \in {"creating", "setup", "binding", "rebinding"} => pc'[d] = pc[d]
  OBVIOUS
<1>2. Owed'
  BY <1>1 DEF UsableInv, Owed, Replacing
<1>3. Pointed'
  BY <1>1 DEF UsableInv, Pointed
<1> QED
  BY <1>2, <1>3 DEF UsableInv

\* Every step keeps what commands owe and where the mode points.
LEMMA NextUsableInv == UsableInv /\ [Next]_vars => UsableInv'
<1> SUFFICES ASSUME UsableInv, [Next]_vars PROVE UsableInv'
  OBVIOUS
<1> USE DEF askVars, modeVars, toldVars
<1>t. TypeOK /\ TypeOK'
  BY NextTypeOK DEF UsableInv
<1>1. ASSUME NEW c \in Commands, Ask(c) PROVE UsableInv'
  BY <1>1, <1>t, GoesMoves, UsableInvUntouched DEF Ask
<1>2. ASSUME NEW c \in Commands, Refuse(c) PROVE UsableInv'
  BY <1>2, <1>t, GoesMoves, UsableInvUntouched DEF Refuse
<1>3. ASSUME NEW c \in Commands, End(c) PROVE UsableInv'
  BY <1>3, <1>t, GoesMoves, UsableInvUntouched DEF End
<1>4. ASSUME NEW c \in Commands, TearDown(c) PROVE UsableInv'
  <2>1. pc'[c] = "creating" /\ pc[c] = "ending"
    BY <1>4, <1>t, GoesMoves DEF TearDown
  <2>2. Owed'
    BY <2>1 DEF Owed, Replacing
  <2>3. Pointed'
    BY <1>4, <1>t, <2>1, GoesMoves DEF TearDown, UsableInv, Pointed
  <2> QED
    BY <1>t, <2>2, <2>3 DEF UsableInv
<1>5. ASSUME NEW c \in Commands, Fail(c) PROVE UsableInv'
  <2>1. Owed'
    BY <1>5 DEF Fail, Owed
  <2>2. Pointed'
    BY <1>5, <1>t, GoesMoves DEF Fail, UsableInv, Pointed
  <2> QED
    BY <1>t, <2>1, <2>2 DEF UsableInv
<1>6. ASSUME NEW c \in Commands, Apply(c) PROVE UsableInv'
  <2>1. current' \in live'
    BY <1>6 DEF Apply
  <2>2. CASE Goes(c, "creating", "binding") /\ Bind(num[c])
    <3>1. pc'[c] = "binding"
      BY <2>2, <1>t, GoesMoves
    <3>2. Owed'
      BY <2>1, <3>1 DEF Owed, Replacing
    <3>3. Pointed'
      BY <1>6, <2>2 DEF Apply, Bind, Pointed
    <3> QED
      BY <1>t, <3>2, <3>3 DEF UsableInv
  <2>3. CASE Goes(c, "creating", "setup")
    <3>1. pc'[c] = "setup"
      BY <2>3, <1>t, GoesMoves
    <3> QED
      BY <1>t, <2>1, <3>1 DEF UsableInv, Owed, Pointed, Replacing
  <2> QED
    BY <1>6, <2>2, <2>3 DEF Apply
<1>7. ASSUME NEW c \in Commands, SetUp(c) PROVE UsableInv'
  <2>1. pc[c] = "setup" /\ pc'[c] = "binding"
        /\ \A d \in Commands : d # c => pc'[d] = pc[d]
    BY <1>7, <1>t, GoesMoves DEF SetUp
  <2>2. Owed'
    BY <1>7, <2>1 DEF SetUp, UsableInv, Owed, Replacing
  <2>3. Pointed'
    BY <1>7 DEF SetUp, Bind, Pointed
  <2> QED
    BY <1>t, <2>2, <2>3 DEF UsableInv
<1>7f. ASSUME NEW c \in Commands, SetUpFails(c) PROVE UsableInv'
  BY <1>7f, <1>t DEF SetUpFails, UsableInv, Owed, Pointed
<1>8f. ASSUME NEW c \in Commands, BindFails(c) PROVE UsableInv'
  BY <1>8f, <1>t DEF BindFails, UsableInv, Owed, Pointed
<1>8. ASSUME NEW c \in Commands, Subscribe(c) PROVE UsableInv'
  <2>1. pc[c] \in {"binding", "rebinding"}
        /\ \A d \in Commands : d # c => pc'[d] = pc[d]
    BY <1>8, <1>t, GoesMoves DEF Subscribe
  <2>2. Owed'
    BY <1>8, <2>1 DEF Subscribe, UsableInv, Owed
  <2>3. Pointed'
    BY <1>8, <2>1 DEF Subscribe, UsableInv, Pointed
  <2> QED
    BY <1>t, <2>2, <2>3 DEF UsableInv
<1>9. ASSUME NEW c \in Commands, Rebind(c) PROVE UsableInv'
  <2>1. pc[c] = "bound" /\ pc'[c] = "rebinding"
        /\ \A d \in Commands : d # c => pc'[d] = pc[d]
    BY <1>9, <1>t, GoesMoves DEF Rebind
  <2>2. Owed'
    BY <1>9, <2>1 DEF Rebind, UsableInv, Owed, Replacing
  <2>3. Pointed'
    BY <1>9 DEF Rebind, Bind, Pointed
  <2> QED
    BY <1>t, <2>2, <2>3 DEF UsableInv
<1>10. CASE Stop
  BY <1>10, <1>t DEF Stop, UsableInv, Owed, Pointed
<1>11. CASE Stopped
  BY <1>11, <1>t DEF Stopped, UsableInv, Owed, Pointed
<1>12. CASE UNCHANGED vars
  BY <1>12, <1>t DEF vars, UsableInv, Owed, Pointed, Replacing
<1> QED
  BY <1>1, <1>2, <1>3, <1>4, <1>5, <1>6, <1>7, <1>7f, <1>8, <1>8f, <1>9, <1>10,
     <1>11, <1>12 DEF Next

\* However replacements overlap, the mode is left with a session that works, unless
\* one failed and no session was created since (rpc-mode.ts:316-358).
THEOREM SessionIsUsable == Spec => []Usable
<1>1. Init => UsableInv
  BY InitTypeOK DEF Init, UsableInv, Owed, Pointed
<1> QED
  BY <1>1, NextUsableInv, UsableInvIsUsable, PTL DEF Spec

(***************************************************************************)
(* The order in which sessions start and end.                              *)
(*                                                                         *)
(* While commands do not overlap, one at most runs, its session is the     *)
(* newest number, and no session but the current one is alive.             *)
(***************************************************************************)

Alone ==
  /\ \A c, d \in Commands : pc[c] # "idle" /\ pc[d] # "idle" => c = d
  /\ exit # "no" => \A c \in Commands : pc[c] = "idle"

\* No session has a number that has not been given.
Numbered ==
  /\ current <= given + 1
  /\ \A c \in Commands : num[c] <= given + 1
  /\ \A s \in Sessions : s > given + 1 => starts[s] = 0 /\ ends[s] = 0 /\ s # current

\* The number of a command that has not created its session is unused.
Unused ==
  \A c \in Commands :
    pc[c] \in {"asking", "ending", "creating"}
      => starts[num[c]] = 0 /\ ends[num[c]] = 0 /\ num[c] # current

\* Every session but the current one is over.
Past ==
  /\ live \subseteq {current}
  /\ \A s \in Sessions \ {current} : starts[s] > 0 => ends[s] > 0

\* What the current session's extensions have been told, as the command goes.
Present ==
  /\ \A c \in Commands :
       /\ pc[c] = "ending" => ends[current] > 0
       /\ pc[c] = "creating" => current \notin live /\ ends[current] > 0
       /\ pc[c] \in {"setup", "binding", "bound", "rebinding"}
            => current \in live /\ ends[current] = 0
  /\ exit = "ending" => ends[current] > 0
  /\ current \in live =>
       \/ ends[current] = 0
       \/ ends[current] = 1 /\ (exit = "ending" \/ \E c \in Commands : pc[c] = "ending")

OrderInv == ~overlapped => Alone /\ Numbered /\ Unused /\ Past /\ Present

\* At first there is one session, and it has started.
LEMMA InitOrderInv == Init => OrderInv
<1> SUFFICES ASSUME Init PROVE OrderInv
  OBVIOUS
<1>1. 1 \in Sessions
  BY CommandsAssumption DEF Sessions
<1> QED
  BY <1>1 DEF Init, OrderInv, Alone, Numbered, Unused, Past, Present, Sessions

\* Every step keeps the order, up to the first overlap.
LEMMA NextOrderInv == TypeOK /\ TypeOK' /\ OrderInv /\ [Next]_vars => OrderInv'
<1> SUFFICES ASSUME TypeOK, TypeOK', OrderInv, [Next]_vars, ~overlapped'
             PROVE  (Alone /\ Numbered /\ Unused /\ Past /\ Present)'
  BY DEF OrderInv
<1> USE DEF askVars, modeVars, toldVars
<1>t. /\ current \in Sessions /\ given \in Nat
      /\ starts \in [Sessions -> Nat] /\ ends \in [Sessions -> Nat]
      /\ num \in [Commands -> Sessions] /\ Sessions \subseteq Nat
  <2>1. given \in Nat /\ Sessions \subseteq Nat
    BY CommandsAssumption DEF TypeOK, Sessions
  <2> QED
    BY <2>1 DEF TypeOK
<1>o. ~overlapped
  BY DEF Next, Ask, Refuse, End, TearDown, Fail, Apply, SetUp, SetUpFails,
         Subscribe, BindFails, Rebind, Stop, Stopped, vars
<1>i. Alone /\ Numbered /\ Unused /\ Past /\ Present
  BY <1>o DEF OrderInv
<1> DEFINE Kept == (Alone /\ Numbered /\ Unused /\ Past /\ Present)'
\* While one command runs, the others are idle before and after its step.
<1>a. ASSUME NEW c \in Commands, pc[c] # "idle",
             \A d \in Commands : d # c => pc'[d] = pc[d], exit' = exit
      PROVE  Alone' /\ \A d \in Commands : d # c => pc'[d] = "idle"
  <2>1. \A d \in Commands : d # c => pc[d] = "idle"
    BY <1>i, <1>a DEF Alone
  <2>2. exit = "no"
    BY <1>i, <1>a DEF Alone
  <2> QED
    BY <2>1, <2>2, <1>a DEF Alone
<1>1. ASSUME NEW c \in Commands, Ask(c) PROVE Kept
  <2>1. /\ pc' = [pc EXCEPT ![c] = "asking"] /\ exit = "no" /\ exit' = "no"
        /\ \A d \in Commands : pc[d] = "idle"
    BY <1>1 DEF Ask, Goes, Running
  <2>2. pc'[c] = "asking" /\ \A d \in Commands : d # c => pc'[d] = "idle"
    BY <2>1 DEF TypeOK
  <2>3. /\ given' = given + 1 /\ num'[c] = given + 2
        /\ \A d \in Commands : d # c => num'[d] = num[d]
    BY <1>1, <1>t DEF Ask
  <2>4. num'[c] \in Sessions
    BY DEF TypeOK
  <2>5. UNCHANGED <<current, live, starts, ends>>
    BY <1>1 DEF Ask
  <2>6. Alone'
    BY <2>1, <2>2 DEF Alone
  <2>7. Numbered'
    <3>1. \A d \in Commands : num'[d] <= given' + 1
      <4>1. ASSUME NEW d \in Commands, d # c PROVE num'[d] <= given' + 1
        <5>1. num'[d] = num[d] /\ num[d] <= given + 1 /\ num[d] \in Nat
          BY <1>i, <1>t, <2>3, <4>1 DEF Numbered
        <5> QED
          BY <1>t, <2>3, <5>1
      <4>2. num'[c] <= given' + 1
        BY <1>t, <2>3
      <4> QED
        BY <4>1, <4>2
    <3> QED
      BY <1>i, <1>t, <2>3, <2>5, <3>1 DEF Numbered
  <2>8. Unused'
    BY <1>i, <1>t, <2>2, <2>3, <2>4, <2>5 DEF Unused, Numbered
  <2>9. Past' /\ Present'
    BY <1>i, <2>1, <2>2, <2>5 DEF Past, Present
  <2> QED
    BY <2>6, <2>7, <2>8, <2>9
<1>2. ASSUME NEW c \in Commands, Refuse(c) PROVE Kept
  <2>1. /\ pc[c] = "asking" /\ pc'[c] = "idle" /\ exit' = exit
        /\ \A d \in Commands : d # c => pc'[d] = pc[d]
    BY <1>2, GoesMoves DEF Refuse
  <2>2. UNCHANGED <<current, live, starts, ends, given, num>>
    BY <1>2 DEF Refuse
  <2>3. Alone' /\ \A d \in Commands : pc'[d] = "idle"
    BY <2>1, <1>a
  <2>4. \A d \in Commands : pc[d] # "ending"
    BY <1>i, <2>1 DEF Alone
  <2> QED
    BY <1>i, <2>1, <2>2, <2>3, <2>4 DEF Numbered, Unused, Past, Present
<1>3. ASSUME NEW c \in Commands, End(c) PROVE Kept
  <2>1. /\ pc[c] = "asking" /\ pc'[c] = "ending" /\ exit' = exit
        /\ \A d \in Commands : d # c => pc'[d] = pc[d]
    BY <1>3, GoesMoves DEF End
  <2>2. UNCHANGED <<current, live, starts, given, num>>
    BY <1>3 DEF End
  <2>3. Alone' /\ \A d \in Commands : d # c => pc'[d] = "idle"
    BY <2>1, <1>a
  <2>4. \A d \in Commands : pc[d] # "ending"
    BY <1>i, <2>1 DEF Alone
  <2>5. exit = "no"
    BY <1>i, <2>1 DEF Alone
  <2>6. /\ ends'[current] = ends[current] + 1
        /\ \A s \in Sessions \ {current} : ends'[s] = ends[s]
    BY <1>3, <1>t, ToldType DEF End
  <2>7. ends[current] \in Nat
    BY <1>t
  <2>8. Numbered'
    BY <1>i, <1>t, <2>2, <2>6 DEF Numbered
  <2>9. Unused'
    BY <1>i, <1>t, <2>1, <2>2, <2>3, <2>6 DEF Unused
  <2>10. Past'
    BY <1>i, <2>2, <2>6 DEF Past
  <2>11. Present'
    BY <1>i, <2>1, <2>2, <2>3, <2>4, <2>5, <2>6, <2>7 DEF Present
  <2> QED
    BY <2>3, <2>8, <2>9, <2>10, <2>11
<1>4. ASSUME NEW c \in Commands, TearDown(c) PROVE Kept
  <2>1. /\ pc[c] = "ending" /\ pc'[c] = "creating" /\ exit' = exit
        /\ \A d \in Commands : d # c => pc'[d] = pc[d]
    BY <1>4, GoesMoves DEF TearDown
  <2>2. UNCHANGED <<current, starts, ends, given, num>> /\ live' = live \ {current}
    BY <1>4 DEF TearDown, Dispose
  <2>3. Alone' /\ \A d \in Commands : d # c => pc'[d] = "idle"
    BY <2>1, <1>a
  <2>4. exit = "no"
    BY <1>i, <2>1 DEF Alone
  <2>5. Numbered' /\ Unused' /\ Past'
    BY <1>i, <2>1, <2>2, <2>3 DEF Numbered, Unused, Past
  <2>6. Present'
    BY <1>i, <2>1, <2>2, <2>3, <2>4 DEF Present
  <2> QED
    BY <2>3, <2>5, <2>6
<1>5. ASSUME NEW c \in Commands, Fail(c) PROVE Kept
  <2>1. /\ pc[c] = "creating" /\ pc'[c] = "idle" /\ exit' = exit
        /\ \A d \in Commands : d # c => pc'[d] = pc[d]
    BY <1>5, GoesMoves DEF Fail
  <2>2. UNCHANGED <<current, live, starts, ends, given, num>>
    BY <1>5 DEF Fail
  <2>3. Alone' /\ \A d \in Commands : pc'[d] = "idle"
    BY <2>1, <1>a
  <2>4. current \notin live /\ exit = "no"
    BY <1>i, <2>1 DEF Present, Alone
  <2> QED
    BY <1>i, <2>1, <2>2, <2>3, <2>4 DEF Numbered, Unused, Past, Present
<1>6. ASSUME NEW c \in Commands, Apply(c) PROVE Kept
  <2>1. /\ pc[c] = "creating" /\ pc'[c] \in {"binding", "setup"} /\ exit' = exit
        /\ \A d \in Commands : d # c => pc'[d] = pc[d]
    BY <1>6, GoesMoves DEF Apply
  <2>2. /\ UNCHANGED <<ends, given, num>>
        /\ current' = num[c] /\ live' = live \cup {num[c]}
    BY <1>6 DEF Apply
  <2>3. Alone' /\ \A d \in Commands : d # c => pc'[d] = "idle"
    BY <2>1, <1>a
  <2>4. exit = "no"
    BY <1>i, <2>1 DEF Alone
  <2>5. /\ num[c] \in Sessions /\ num[c] # current
        /\ starts[num[c]] = 0 /\ ends[num[c]] = 0
    BY <1>i, <1>t, <2>1 DEF Unused
  <2>6. \A s \in Sessions \ {num[c]} : starts'[s] = starts[s]
    <3>1. starts' = starts \/ starts' = Told(starts, num[c])
      BY <1>6 DEF Apply, Bind
    <3>2. \A s \in Sessions \ {num[c]} : Told(starts, num[c])[s] = starts[s]
      BY <1>t, <2>5, ToldType
    <3> QED
      BY <3>1, <3>2
  <2>7. current \notin live /\ ends[current] > 0
    BY <1>i, <2>1 DEF Present
  <2>8. num[c] <= given + 1
    BY <1>i DEF Numbered
  <2>9. Numbered'
    BY <1>i, <1>t, <2>2, <2>5, <2>6, <2>8 DEF Numbered
  <2>10. Unused'
    BY <2>1, <2>3 DEF Unused
  <2>11. Past'
    BY <1>i, <1>t, <2>2, <2>6, <2>7 DEF Past
  <2>12. Present'
    BY <2>1, <2>2, <2>3, <2>4, <2>5 DEF Present
  <2> QED
    BY <2>3, <2>9, <2>10, <2>11, <2>12
\* The steps that bind the mode leave the sessions and their ends alone.
<1>b. ASSUME NEW c \in Commands, NEW from \in {"setup", "binding", "bound", "rebinding"},
             NEW to \in {"idle", "binding", "bound", "rebinding"}, Goes(c, from, to),
             UNCHANGED <<current, live, ends, given, num, exit>>,
             \A s \in Sessions \ {current} : starts'[s] = starts[s]
      PROVE  Kept
  <2>1. /\ pc[c] = from /\ pc'[c] = to
        /\ \A d \in Commands : d # c => pc'[d] = pc[d]
    BY <1>b, GoesMoves
  <2>2. Alone' /\ \A d \in Commands : d # c => pc'[d] = "idle"
    BY <2>1, <1>a, <1>b
  <2>3. exit = "no" /\ current \in live /\ ends[current] = 0
    BY <1>i, <2>1 DEF Alone, Present
  <2>4. Numbered'
    BY <1>i, <1>t, <1>b DEF Numbered
  <2>5. Unused'
    BY <2>1, <2>2 DEF Unused
  <2>6. Past'
    BY <1>i, <1>b DEF Past
  <2>7. Present'
    BY <1>b, <2>1, <2>2, <2>3 DEF Present
  <2> QED
    BY <2>2, <2>4, <2>5, <2>6, <2>7
<1>7. ASSUME NEW c \in Commands, SetUp(c) PROVE Kept
  <2>1. \A s \in Sessions \ {current} : starts'[s] = starts[s]
    BY <1>7, <1>t, ToldType DEF SetUp, Bind
  <2> QED
    BY <1>7, <1>b, <2>1 DEF SetUp
<1>7f. ASSUME NEW c \in Commands, SetUpFails(c) PROVE Kept
  BY <1>7f, <1>b DEF SetUpFails
<1>8f. ASSUME NEW c \in Commands, BindFails(c) PROVE Kept
  BY <1>8f, <1>b DEF BindFails
<1>8. ASSUME NEW c \in Commands, Subscribe(c) PROVE Kept
  <2>1. CASE Goes(c, "rebinding", "idle")
    BY <1>8, <1>b, <2>1 DEF Subscribe
  <2>2. CASE Goes(c, "binding", IF c \in rpc THEN "bound" ELSE "idle")
    <3>1. CASE c \in rpc
      BY <1>8, <1>b, <2>2, <3>1 DEF Subscribe
    <3>2. CASE c \notin rpc
      BY <1>8, <1>b, <2>2, <3>2 DEF Subscribe
    <3> QED
      BY <3>1, <3>2
  <2> QED
    BY <1>8, <2>1, <2>2 DEF Subscribe
<1>9. ASSUME NEW c \in Commands, Rebind(c) PROVE Kept
  <2>1. \A s \in Sessions \ {current} : starts'[s] = starts[s]
    BY <1>9, <1>t, ToldType DEF Rebind, Bind
  <2> QED
    BY <1>9, <1>b, <2>1 DEF Rebind
<1>10. CASE Stop
  <2>1. /\ exit = "no" /\ exit' = "ending" /\ pc' = pc
        /\ UNCHANGED <<current, live, starts, given, num>>
        /\ \A c \in Commands : pc[c] = "idle"
    BY <1>10 DEF Stop, Running
  <2>2. /\ ends'[current] = ends[current] + 1
        /\ \A s \in Sessions \ {current} : ends'[s] = ends[s]
    BY <1>10, <1>t, ToldType DEF Stop
  <2>3. ends[current] \in Nat
    BY <1>t
  <2>4. Numbered'
    BY <1>i, <1>t, <2>1, <2>2 DEF Numbered
  <2>5. Alone' /\ Unused' /\ Past'
    BY <1>i, <2>1, <2>2 DEF Alone, Unused, Past
  <2>6. Present'
    BY <1>i, <2>1, <2>2, <2>3 DEF Present
  <2> QED
    BY <2>4, <2>5, <2>6
<1>11. CASE Stopped
  <2>1. /\ exit = "ending" /\ exit' = "done" /\ live' = live \ {current}
        /\ UNCHANGED <<current, starts, ends, given, num, pc>>
    BY <1>11 DEF Stopped, Dispose
  <2>2. \A c \in Commands : pc[c] = "idle"
    BY <1>i, <2>1 DEF Alone
  <2> QED
    BY <1>i, <2>1, <2>2 DEF Alone, Numbered, Unused, Past, Present
<1>12. CASE UNCHANGED vars
  BY <1>i, <1>12 DEF vars, Alone, Numbered, Unused, Past, Present
<1> QED
  BY <1>1, <1>2, <1>3, <1>4, <1>5, <1>6, <1>7, <1>7f, <1>8, <1>8f, <1>9, <1>10,
     <1>11, <1>12 DEF Next

\* Under the invariant every step respects the order.
LEMMA NextOrdered ==
  TypeOK /\ TypeOK' /\ OrderInv /\ [Next]_vars => [~overlapped => Ordered]_vars
<1> SUFFICES ASSUME TypeOK, TypeOK', OrderInv, Next, ~overlapped PROVE Ordered
  BY DEF vars, modeVars, toldVars, askVars, Ordered
<1> USE DEF askVars, modeVars, toldVars
<1>t. /\ current \in Sessions /\ starts \in [Sessions -> Nat]
      /\ num \in [Commands -> Sessions]
  BY DEF TypeOK
<1>i. Alone /\ Unused /\ Past /\ Present
  BY DEF OrderInv
\* A step that starts the current session, when it is alive and has not ended.
<1>s. ASSUME current \in live, ends[current] = 0, live' = live,
             \A s \in Sessions \ {current} : starts'[s] = starts[s]
      PROVE  Ordered
  BY <1>i, <1>s DEF Past, Ordered
<1>1. ASSUME NEW c \in Commands, TearDown(c) PROVE Ordered
  <2>1. pc[c] = "ending" /\ ends[current] > 0
    BY <1>1, <1>i DEF TearDown, Goes, Present
  <2>2. current \in live => ends[current] = 1
    BY <1>i, <2>1 DEF Present
  <2> QED
    BY <1>1, <2>2 DEF TearDown, Dispose, Ordered
<1>2. ASSUME NEW c \in Commands, Apply(c) PROVE Ordered
  <2>1. pc[c] = "creating"
    BY <1>2 DEF Apply, Goes
  <2>2. num[c] \in Sessions /\ ends[num[c]] = 0
    BY <1>i, <1>t, <2>1 DEF Unused
  <2>3. current \notin live /\ ends[current] > 0
    BY <1>i, <2>1 DEF Present
  <2>4. \A s \in Sessions \ {num[c]} : starts'[s] = starts[s]
    <3>1. starts' = starts \/ starts' = Told(starts, num[c])
      BY <1>2 DEF Apply, Bind
    <3>2. \A s \in Sessions \ {num[c]} : Told(starts, num[c])[s] = starts[s]
      BY <1>t, <2>2, ToldType
    <3> QED
      BY <3>1, <3>2
  <2>5. live \subseteq live'
    BY <1>2 DEF Apply
  <2>6. \A s \in Sessions : starts[s] > 0 => s \notin live /\ ends[s] > 0
    BY <1>i, <2>3 DEF Past
  <2> QED
    BY <2>2, <2>4, <2>5, <2>6 DEF Ordered
<1>3. ASSUME NEW c \in Commands, SetUp(c) \/ Rebind(c) PROVE Ordered
  <2>1. pc[c] \in {"setup", "bound"} /\ live' = live
    BY <1>3 DEF SetUp, Rebind, Goes
  <2>2. current \in live /\ ends[current] = 0
    BY <1>i, <2>1 DEF Present
  <2>3. \A s \in Sessions \ {current} : starts'[s] = starts[s]
    BY <1>3, <1>t, ToldType DEF SetUp, Rebind, Bind
  <2> QED
    BY <1>s, <2>1, <2>2, <2>3
<1>4. CASE Stopped
  <2>1. ends[current] > 0 /\ exit = "ending"
    BY <1>4, <1>i DEF Stopped, Present
  <2>2. current \in live => ends[current] = 1
    BY <1>i, <2>1 DEF Present
  <2> QED
    BY <1>4, <2>2 DEF Stopped, Dispose, Ordered
<1>5. CASE UNCHANGED <<live, starts>>
  BY <1>5 DEF Ordered
<1>6. ASSUME NEW c \in Commands,
             \/ Ask(c) \/ Refuse(c) \/ End(c) \/ Fail(c)
             \/ SetUpFails(c) \/ Subscribe(c) \/ BindFails(c)
      PROVE  Ordered
  BY <1>5, <1>6 DEF Ask, Refuse, End, Fail, SetUpFails, Subscribe, BindFails
<1>7. CASE Stop
  BY <1>5, <1>7 DEF Stop
<1> QED
  BY <1>1, <1>2, <1>3, <1>4, <1>6, <1>7 DEF Next

\* Without overlaps, sessions end before they are disposed, and start in turn.
THEOREM SessionsKeepOrder == Spec => LifecycleOrder
<1>1. TypeOK /\ OrderInv /\ [Next]_vars => (TypeOK /\ OrderInv)'
  BY NextTypeOK, NextOrderInv
<1>2. TypeOK /\ OrderInv /\ [Next]_vars => [~overlapped => Ordered]_vars
  BY NextTypeOK, NextOrdered
<1> QED
  BY <1>1, <1>2, InitTypeOK, InitOrderInv, PTL DEF Spec, LifecycleOrder
=============================================================================
