------------------------- MODULE Credentials_proofs -------------------------
(***************************************************************************)
(* No race of processes, refreshes and crashes leaves a useless token in   *)
(* auth.json or undoes a login, for any number of processes and providers. *)
(***************************************************************************)
EXTENDS Credentials, TLAPS

Token == Tokens \cup {None}
Busy(p, v) == task[<<p, v>>].phase \in {"asking", "granted"}

\* A token that is of use, or about to be replaced.
Usable(v, t) ==
  \/ t = None
  \/ <<v, t>> \in valid \cup orphaned
  \/ \E p \in Procs : At(p, v, "granted") /\ task[<<p, v>>].token = t

\* There is a token that a refresh asks with.
Asking == \A p \in Procs, v \in Providers : Busy(p, v) => task[<<p, v>>].token \in Tokens

\* A refresh that asks or was answered has the lock, or has lost it; one that has it
\* is the only one, and the file still holds what it read, or has been made anew.
LockInv ==
  /\ \A p, q \in Procs, v, w \in Providers : <<p, v>> \in lock /\ <<q, w>> \in lock => p = q /\ v = w
  /\ \A p \in Procs, v \in Providers : Busy(p, v) => up[p] = "on" /\ <<p, v>> \in lock \cup lapsed
  /\ \A p \in Procs, v \in Providers :
       <<p, v>> \in lock => Busy(p, v) /\ file.creds \in {task[<<p, v>>].base, Empty}

\* Tokens are issued before they are used, ...
Known ==
  \A v \in Providers :
    /\ file.creds[v] <= issued[v]
    /\ \A t \in Tasks : task[t].base[v] <= issued[v]
    /\ \A p \in Procs : task[<<p, v>>].token <= issued[v] /\ task[<<p, v>>].next <= issued[v]

\* ... and the one in an answer, which its provider takes, is nowhere else yet.
Private ==
  \A p \in Procs, v \in Providers :
    task[<<p, v>>].phase = "granted" =>
      LET n == task[<<p, v>>].next
      IN  /\ <<v, n>> \in valid
          /\ n # file.creds[v]
          /\ \A t \in Tasks : task[t].base[v] # n
          /\ \A q \in Procs : task[<<q, v>>].token # n
          /\ \A q \in Procs : q # p /\ task[<<q, v>>].phase = "granted" => task[<<q, v>>].next # n

\* What is in the file is usable, and so is what the holder of the lock has read.
UsableInv ==
  /\ \A v \in Providers, t \in Token : t = file.creds[v] => Usable(v, t)
  /\ \A p \in Procs, v, w \in Providers, t \in Token :
       <<p, v>> \in lock /\ t = task[<<p, v>>].base[w] => Usable(w, t)

TInv == TypeOK /\ Asking
IInv == TInv /\ LockInv /\ Known /\ Private /\ UsableInv

-----------------------------------------------------------------------------
(* Types.                                                                  *)

\* Nothing is stored at first.
LEMMA Types ==
  /\ Empty \in Stores /\ Idle \in Refreshes
  /\ \A creds \in Stores : Whole(creds) \in Files
  /\ \A creds \in Stores, v \in Providers, t \in Token : [creds EXCEPT ![v] = t] \in Stores
  /\ \A creds \in Stores : InStore(creds) \subseteq Grants
BY DEF Empty, Idle, Stores, Refreshes, Whole, Files, Token, Tokens, None, InStore, Grants

\* A refresh goes on.
LEMMA BecomesType ==
  ASSUME TypeOK, NEW p \in Procs, NEW v \in Providers, NEW s \in Refreshes, Becomes(p, v, s)
  PROVE  task' \in [Tasks -> Refreshes]
BY DEF TypeOK, Becomes, Tasks

\* A refresh enters its next phase.
LEMMA GoesType ==
  ASSUME TypeOK, NEW p \in Procs, NEW v \in Providers,
         NEW ph \in {"idle", "locking", "asking", "granted", "reload"}, Goes(p, v, ph)
  PROVE  task' \in [Tasks -> Refreshes]
<1> DEFINE s == [task[<<p, v>>] EXCEPT !.phase = ph]
<1>1. task[<<p, v>>] \in Refreshes
  BY DEF TypeOK, Tasks
<1>2. s \in Refreshes
  BY <1>1 DEF Refreshes
<1>3. Becomes(p, v, s)
  BY DEF Goes
<1> QED
  BY <1>2, <1>3, BecomesType

\* What a process has read, or failed to read.
LEMMA ReloadType ==
  ASSUME TypeOK, NEW p \in Procs, Reload(p)
  PROVE  /\ mem' \in [Procs -> Stores] /\ failed' \in [Procs -> BOOLEAN]
         /\ lock' \subseteq Tasks /\ stale' \in BOOLEAN /\ lapsed' \subseteq Tasks
BY DEF TypeOK, Reload, Files, GetLock, NoLock

\* A login or logout.
LEMMA ChangeType ==
  ASSUME TypeOK, NEW p \in Procs, NEW v \in Providers, NEW t \in Token, Change(p, v, t)
  PROVE  /\ file' \in Files /\ mem' \in [Procs -> Stores] /\ stale' \in BOOLEAN
         /\ UNCHANGED <<lock, lapsed, up, failed, task, expired, orphaned, faults>>
<1>1. mem' \in [Procs -> Stores] /\ UNCHANGED <<lock, lapsed, up, failed, task, expired, orphaned, faults>>
  BY DEF TypeOK, Change, Stores, Token
<1>2. file' \in Files /\ stale' \in BOOLEAN
  BY Types DEF TypeOK, Change, Persist, Current, GetLock, NoLock, Files
<1> QED
  BY <1>1, <1>2

\* The token that a provider issues next.
LEMMA IssueType ==
  ASSUME TypeOK, NEW v \in Providers, NEW taken, Issue(v, taken)
  PROVE  /\ New(v) \in Tokens /\ New(v) = issued[v] + 1
         /\ issued' \in [Providers -> 0 .. MaxTokens] /\ issued'[v] = New(v)
         /\ \A w \in Providers : issued[w] <= issued'[w]
         /\ valid' \subseteq Grants
BY BoundsAssumption DEF TypeOK, Issue, New, Tokens, Grants

\* The token of a lost answer.
LEMMA LostType ==
  ASSUME TInv, NEW p \in Procs, NEW v \in Providers
  PROVE  Lost(v, task[<<p, v>>]) \subseteq Grants
<1>1. task[<<p, v>>].phase = "granted" => task[<<p, v>>].token \in Tokens
  BY DEF TInv, Asking, Busy
<1> QED
  BY <1>1 DEF Lost, Grants

\* The lock is released, or was lost before.
LEMMA ReleaseType ==
  ASSUME TypeOK, NEW p \in Procs, NEW v \in Providers, Release(p, v) \/ Noticed(p, v)
  PROVE  lock' \subseteq Tasks /\ stale' \in BOOLEAN /\ lapsed' \subseteq Tasks
<1>1. CASE Release(p, v)
  BY <1>1 DEF TypeOK, Release
<1>2. CASE Noticed(p, v)
  BY <1>2 DEF TypeOK, Noticed
<1> QED
  BY <1>1, <1>2

\* A process dies.
LEMMA DiesType ==
  ASSUME TInv, NEW p \in Procs, Dies(p)
  PROVE  /\ up' \in [Procs -> {"off", "creating", "loading", "on"}]
         /\ mem' \in [Procs -> Stores] /\ failed' \in [Procs -> BOOLEAN]
         /\ task' \in [Tasks -> Refreshes] /\ lapsed' \subseteq Tasks
         /\ orphaned \subseteq orphaned' /\ orphaned' \subseteq Grants
         /\ faults' \in 0 .. MaxFaults /\ UNCHANGED serverVars
<1>1. orphaned' \subseteq Grants
  <2>1. UNION {Lost(v, task[<<p, v>>]) : v \in Providers} \subseteq Grants
    BY LostType
  <2> QED
    BY <2>1 DEF TInv, TypeOK, Dies
<1>2. task' \in [Tasks -> Refreshes]
  BY Types DEF TInv, TypeOK, Dies
<1>3. faults' \in 0 .. MaxFaults
  BY BoundsAssumption DEF TInv, TypeOK, Dies, Fault
<1>4. up' \in [Procs -> {"off", "creating", "loading", "on"}] /\ failed' \in [Procs -> BOOLEAN]
  BY DEF TInv, TypeOK, Dies
<1>5. mem' \in [Procs -> Stores]
  BY Types DEF TInv, TypeOK, Dies
<1> QED
  BY <1>1, <1>2, <1>3, <1>4, <1>5 DEF TInv, TypeOK, Dies

\* The refreshes that ask keep their token when another goes on.
LEMMA AskingKept ==
  ASSUME TInv, NEW p \in Procs, NEW v \in Providers, NEW s, Becomes(p, v, s),
         s.phase \in {"asking", "granted"} => s.token \in Tokens
  PROVE  Asking'
BY DEF TInv, TypeOK, Asking, Busy, Becomes, Tasks

\* At first no refresh is under way.
LEMMA InitType == Init => TInv
<1> SUFFICES ASSUME Init PROVE TInv
  OBVIOUS
<1>1. task \in [Tasks -> Refreshes] /\ mem \in [Procs -> Stores] /\ file \in Files
  BY Types DEF Init, Files
<1>2. issued \in [Providers -> 0 .. MaxTokens] /\ faults \in 0 .. MaxFaults
  BY BoundsAssumption DEF Init
<1>3. Asking
  BY DEF Init, Asking, Busy, Idle, Tasks
<1> QED
  BY <1>1, <1>2, <1>3 DEF Init, TInv, TypeOK

\* Every step keeps the types.
LEMMA TypePreserved == TInv /\ [Next]_vars => TInv'
<1> SUFFICES ASSUME TInv, [Next]_vars PROVE TInv'
  OBVIOUS
<1>t. TypeOK
  BY DEF TInv
<1>r. \A p \in Procs, v \in Providers : task[<<p, v>>] \in Refreshes
  BY <1>t DEF TypeOK, Tasks
<1>1. ASSUME NEW p \in Procs, Launch(p) PROVE TInv'
  BY <1>1, <1>t, ReloadType DEF TInv, TypeOK, Asking, Busy, Launch, lockVars, serverVars
<1>2. ASSUME NEW p \in Procs, Create(p) PROVE TInv'
  BY <1>2, <1>t, Types DEF TInv, TypeOK, Asking, Busy, Create, lockVars, serverVars
<1>3. ASSUME NEW p \in Procs, Load(p) PROVE TInv'
  BY <1>3, <1>t, ReloadType DEF TInv, TypeOK, Asking, Busy, Load, serverVars
<1>4. ASSUME NEW p \in Procs, Crash(p) PROVE TInv'
  <2>1. Asking'
    BY <1>4 DEF TInv, TypeOK, Asking, Busy, Crash, Dies, Tasks, Idle, serverVars
  <2> QED
    BY <1>4, <1>t, <2>1, DiesType DEF TInv, TypeOK, Crash, serverVars
<1>5. ASSUME NEW p \in Procs, CrashInWrite(p) PROVE TInv'
  <2>1. Asking'
    BY <1>5 DEF TInv, TypeOK, Asking, Busy, CrashInWrite, Dies, Tasks, Idle, serverVars
  <2>2. file' \in Files
    BY <1>5, Types DEF CrashInWrite, Files, Whole
  <2> QED
    BY <1>5, <1>t, <2>1, <2>2, DiesType DEF TInv, TypeOK, CrashInWrite, serverVars
<1>6. ASSUME NEW p \in Procs, NEW v \in Providers, Login(p, v) PROVE TInv'
  <2>1. New(v) \in Token /\ issued' \in [Providers -> 0 .. MaxTokens] /\ valid' \subseteq Grants
    BY <1>6, <1>t, IssueType DEF Login, Token
  <2>2. Change(p, v, New(v))
    BY <1>6 DEF Login
  <2> QED
    BY <1>t, <2>1, <2>2, ChangeType DEF TInv, TypeOK, Asking, Busy
<1>7. ASSUME NEW p \in Procs, NEW v \in Providers, Logout(p, v) PROVE TInv'
  <2>1. None \in Token /\ Change(p, v, None) /\ UNCHANGED <<issued, valid>>
    BY <1>7 DEF Logout, Token
  <2> QED
    BY <1>t, <2>1, ChangeType DEF TInv, TypeOK, Asking, Busy
<1>8. ASSUME NEW p \in Procs, NEW v \in Providers, Want(p, v) PROVE TInv'
  <2>1. Asking'
    BY <1>8, <1>r, AskingKept DEF Want, Goes, Refreshes
  <2> QED
    BY <1>8, <1>t, <2>1, GoesType DEF TInv, TypeOK, Want, lockVars, procVars, serverVars
<1>9. ASSUME NEW p \in Procs, NEW v \in Providers, Acquire(p, v) PROVE TInv'
  <2> DEFINE s == [Idle EXCEPT !.phase = "asking", !.base = file.creds, !.token = file.creds[v]]
  <2>1. file.creds \in Stores /\ Idle \in Refreshes /\ s \in Refreshes
    BY <1>t, Types DEF TypeOK, Files, Idle, Refreshes, Stores
  <2>2. CASE <<v, file.creds[v]>> \in expired
    <3>1. Becomes(p, v, s) /\ lock' = {<<p, v>>}
      BY <1>9, <2>2 DEF Acquire, Current
    <3>2. s.token \in Tokens
      BY <2>1, <2>2, <1>t DEF TypeOK, Grants, Idle
    <3>3. Asking' /\ task' \in [Tasks -> Refreshes]
      BY <3>1, <3>2, <2>1, <1>t, AskingKept, BecomesType
    <3> QED
      BY <3>1, <3>3, <2>1, <1>t, <1>9 DEF TInv, TypeOK, Acquire, Current, GetLock, serverVars, Tasks
  <2>3. CASE <<v, file.creds[v]>> \notin expired
    <3>1. Becomes(p, v, Idle) /\ lock' = lock
      BY <1>9, <2>3 DEF Acquire, Current
    <3>2. Asking' /\ task' \in [Tasks -> Refreshes]
      BY <3>1, <2>1, <1>t, AskingKept, BecomesType DEF Idle
    <3> QED
      BY <3>1, <3>2, <2>1, <1>t, <1>9 DEF TInv, TypeOK, Acquire, Current, GetLock, serverVars
  <2> QED
    BY <2>2, <2>3
<1>10. ASSUME NEW p \in Procs, NEW v \in Providers, GiveUp(p, v) PROVE TInv'
  <2>1. Asking'
    BY <1>10, <1>r, AskingKept DEF GiveUp, Goes, Refreshes
  <2> QED
    BY <1>10, <1>t, <2>1, GoesType DEF TInv, TypeOK, GiveUp, GetLock, NoLock, procVars, serverVars
<1>11. ASSUME NEW p \in Procs, NEW v \in Providers, Serve(p, v) PROVE TInv'
  <2> DEFINE s == [task[<<p, v>>] EXCEPT !.phase = "granted", !.next = New(v)]
  <2>1. /\ New(v) \in Tokens /\ issued' \in [Providers -> 0 .. MaxTokens] /\ valid' \subseteq Grants
    BY <1>11, <1>t, IssueType DEF Serve
  <2>2. s \in Refreshes /\ Becomes(p, v, s)
    BY <2>1, <1>11, <1>r DEF Serve, Refreshes
  <2>3. s.token \in Tokens
    BY <1>11, <1>r DEF Serve, Refreshes, TInv, Asking, Busy, At
  <2>4. Asking' /\ task' \in [Tasks -> Refreshes]
    BY <2>2, <2>3, <1>t, AskingKept, BecomesType
  <2> QED
    BY <1>11, <1>t, <2>1, <2>4 DEF TInv, TypeOK, Serve, lockVars, procVars
<1>12. ASSUME NEW p \in Procs, NEW v \in Providers, Answer(p, v) PROVE TInv'
  <2> DEFINE merged == [task[<<p, v>>].base EXCEPT ![v] = task[<<p, v>>].next]
  <2>1. merged \in Stores
    BY <1>r, Types DEF Refreshes, Token
  <2>2. Whole(merged) \in Files /\ InStore(merged) \subseteq Grants /\ Idle \in Refreshes
    BY <2>1, Types
  <2>3. Asking' /\ task' \in [Tasks -> Refreshes]
    BY <1>12, <2>2, <1>t, AskingKept, BecomesType DEF Answer, Idle
  <2> QED
    BY <1>12, <1>t, <2>1, <2>2, <2>3 DEF TInv, TypeOK, Answer, Release, serverVars
<1>13. ASSUME NEW p \in Procs, NEW v \in Providers, Compromised(p, v) PROVE TInv'
  <2>1. Asking'
    BY <1>13, <1>r, AskingKept DEF Compromised, Goes, Refreshes
  <2>2. [task[<<p, v>>].base EXCEPT ![v] = task[<<p, v>>].next] \in Stores
    BY <1>r, Types DEF Refreshes, Token
  <2>3. orphaned' \subseteq Grants
    BY <1>13, <1>t, LostType DEF Compromised, TypeOK
  <2> QED
    BY <1>13, <1>t, <2>1, <2>2, <2>3, GoesType DEF TInv, TypeOK, Compromised, Noticed, serverVars
<1>14. ASSUME NEW p \in Procs, NEW v \in Providers, Refused(p, v) PROVE TInv'
  <2>1. Asking'
    BY <1>14, <1>r, AskingKept DEF Refused, Goes, Refreshes
  <2> QED
    BY <1>14, <1>t, <2>1, GoesType, ReleaseType, BoundsAssumption
       DEF TInv, TypeOK, Refused, Fault, procVars, serverVars
<1>15. ASSUME NEW p \in Procs, NEW v \in Providers, AnswerLost(p, v) PROVE TInv'
  <2>1. Asking'
    BY <1>15, <1>r, AskingKept DEF AnswerLost, Goes, Refreshes
  <2>2. orphaned' \subseteq Grants
    BY <1>15, <1>t, LostType DEF AnswerLost, TypeOK
  <2> QED
    BY <1>15, <1>t, <2>1, <2>2, GoesType, ReleaseType, BoundsAssumption
       DEF TInv, TypeOK, AnswerLost, Fault, procVars, serverVars
<1>16. ASSUME NEW p \in Procs, NEW v \in Providers, Again(p, v) PROVE TInv'
  <2>1. Asking' /\ task' \in [Tasks -> Refreshes]
    BY <1>16, <1>t, Types, AskingKept, BecomesType DEF Again, Idle
  <2> QED
    BY <1>16, <1>t, <2>1, ReloadType DEF TInv, TypeOK, Again, serverVars
<1>17. ASSUME NEW v \in Providers, Expire(v) PROVE TInv'
  BY <1>17 DEF TInv, TypeOK, Asking, Busy, Expire, lockVars, procVars
<1>18. ASSUME NEW p \in Procs, NEW v \in Providers, Lapse(p, v) PROVE TInv'
  BY <1>18, BoundsAssumption DEF TInv, TypeOK, Asking, Busy, Lapse, Fault, procVars, serverVars
<1>19. CASE UNCHANGED vars
  BY <1>19 DEF TInv, TypeOK, Asking, Busy, vars, lockVars, procVars, serverVars
<1> QED
  BY <1>1, <1>2, <1>3, <1>4, <1>5, <1>6, <1>7, <1>8, <1>9, <1>10, <1>11, <1>12, <1>13, <1>14,
     <1>15, <1>16, <1>17, <1>18, <1>19 DEF Next, Step

-----------------------------------------------------------------------------
(* The invariant.                                                          *)

\* The refreshes of D stop, and their lost tokens are on record; others may lose the
\* lock, not get it; the file may be made anew.
Drops(D) ==
  /\ UNCHANGED <<issued, valid>> /\ file'.creds \in {file.creds, Empty}
  /\ \A t \in Tasks \ D : task'[t] = task[t]
  /\ \A t \in D : /\ task'[t].phase \notin {"asking", "granted"}
                  /\ task'[t].base \in {task[t].base, Empty}
                  /\ task'[t].token \in {task[t].token, None}
                  /\ task'[t].next \in {task[t].next, None}
  /\ lock' \subseteq lock \ D
  /\ (lock \cup lapsed) \ D \subseteq lock' \cup lapsed'
  /\ \A p \in Procs, v \in Providers :
       <<p, v>> \notin D /\ Busy(p, v) /\ up[p] = "on" => up'[p] = "on"
  /\ orphaned \subseteq orphaned'
  /\ \A p \in Procs, v \in Providers :
       <<p, v>> \in D /\ task[<<p, v>>].phase = "granted" => <<v, task[<<p, v>>].token>> \in orphaned'

\* Such a step keeps the invariant.
LEMMA DropsKeeps ==
  ASSUME IInv, TInv', NEW D \in SUBSET Tasks, Drops(D)
  PROVE  IInv'
<1>p. \A p \in Procs, v \in Providers : <<p, v>> \in Tasks
  BY DEF Tasks
<1>0. \A v \in Providers : file.creds[v] \in Nat /\ issued[v] \in Nat /\ Empty[v] = None
  BY BoundsAssumption DEF IInv, TInv, TypeOK, Files, Stores, Tokens, None, Empty
<1>1. \A p \in Procs, v \in Providers :
        Busy(p, v)' => <<p, v>> \notin D /\ task'[<<p, v>>] = task[<<p, v>>] /\ Busy(p, v)
  BY <1>p DEF Drops, Busy
<1>2. LockInv'
  <2>1. ASSUME NEW p \in Procs, NEW v \in Providers, Busy(p, v)'
        PROVE  up'[p] = "on" /\ <<p, v>> \in lock' \cup lapsed'
    BY <2>1, <1>1 DEF IInv, LockInv, Drops
  <2>2. ASSUME NEW p \in Procs, NEW v \in Providers, <<p, v>> \in lock'
        PROVE  Busy(p, v)' /\ file'.creds \in {task'[<<p, v>>].base, Empty}
    BY <2>2, <1>p DEF IInv, LockInv, Drops, Busy
  <2>3. \A p, q \in Procs, v, w \in Providers :
          <<p, v>> \in lock' /\ <<q, w>> \in lock' => p = q /\ v = w
    BY DEF IInv, LockInv, Drops
  <2> QED
    BY <2>1, <2>2, <2>3 DEF LockInv
<1>3. \A t \in Tasks : task'[t].base \in {task[t].base, Empty}
  BY DEF Drops
<1>4. \A t \in Tasks : task'[t].token \in {task[t].token, None} /\ task'[t].next \in {task[t].next, None}
  BY DEF Drops
<1>5. Known'
  BY <1>0, <1>3, <1>4, <1>p DEF IInv, Known, Drops, None
<1>6. Private'
  <2> SUFFICES ASSUME NEW p \in Procs, NEW v \in Providers, task'[<<p, v>>].phase = "granted"
               PROVE  LET n == task'[<<p, v>>].next
                      IN  /\ <<v, n>> \in valid'
                          /\ n # file'.creds[v]
                          /\ \A t \in Tasks : task'[t].base[v] # n
                          /\ \A q \in Procs : task'[<<q, v>>].token # n
                          /\ \A q \in Procs : q # p /\ task'[<<q, v>>].phase = "granted"
                                                => task'[<<q, v>>].next # n
    BY DEF Private
  <2> DEFINE n == task[<<p, v>>].next
  <2>1. task'[<<p, v>>] = task[<<p, v>>] /\ task[<<p, v>>].phase = "granted"
    BY <1>1 DEF Busy
  <2>2. /\ <<v, n>> \in valid /\ n # file.creds[v]
        /\ \A t \in Tasks : task[t].base[v] # n
        /\ \A q \in Procs : task[<<q, v>>].token # n
        /\ \A q \in Procs : q # p /\ task[<<q, v>>].phase = "granted" => task[<<q, v>>].next # n
    BY <2>1 DEF IInv, Private
  <2>3. n # None
    BY <2>2 DEF IInv, TInv, TypeOK, Grants, Tokens, None
  <2>4. n # file'.creds[v] /\ \A t \in Tasks : task'[t].base[v] # n
    BY <2>2, <2>3, <1>0, <1>3 DEF Drops
  <2>5. \A q \in Procs : task'[<<q, v>>].token # n
    BY <2>2, <2>3, <1>4, <1>p
  <2>6. ASSUME NEW q \in Procs, q # p, task'[<<q, v>>].phase = "granted"
        PROVE  task'[<<q, v>>].next # n
    BY <2>2, <2>6, <1>1 DEF Busy
  <2> QED
    BY <2>1, <2>2, <2>4, <2>5, <2>6 DEF Drops
<1>7. ASSUME NEW v \in Providers, NEW t, Usable(v, t) PROVE Usable(v, t)'
  <2>1. ASSUME NEW p \in Procs, At(p, v, "granted"), task[<<p, v>>].token = t
        PROVE  Usable(v, t)'
    <3>1. CASE <<p, v>> \in D
      BY <3>1, <2>1 DEF Drops, At, Usable
    <3>2. CASE <<p, v>> \notin D
      BY <3>2, <2>1, <1>p DEF Drops, At, Usable, Busy
    <3> QED
      BY <3>1, <3>2
  <2> QED
    BY <1>7, <2>1 DEF Usable, Drops
<1>8. UsableInv'
  <2>1. ASSUME NEW v \in Providers, NEW t \in Token, t = file'.creds[v] PROVE Usable(v, t)'
    <3>1. CASE t = file.creds[v]
      BY <3>1, <1>7 DEF IInv, UsableInv
    <3>2. CASE t = None
      BY <3>2 DEF Usable
    <3> QED
      BY <3>1, <3>2, <2>1, <1>0 DEF Drops
  <2>2. ASSUME NEW p \in Procs, NEW v \in Providers, NEW w \in Providers, <<p, v>> \in lock',
               NEW t \in Token, t = task'[<<p, v>>].base[w]
        PROVE  Usable(w, t)'
    <3>1. <<p, v>> \in lock /\ task'[<<p, v>>] = task[<<p, v>>]
      BY <2>2, <1>p DEF Drops
    <3> QED
      BY <3>1, <2>2, <1>7 DEF IInv, UsableInv
  <2> QED
    BY <2>1, <2>2 DEF UsableInv
<1> QED
  BY <1>2, <1>5, <1>6, <1>8 DEF IInv

\* The initial state.
LEMMA InitInv == Init => IInv
<1> SUFFICES ASSUME Init PROVE IInv
  OBVIOUS
<1>1. TInv
  BY InitType
<1>2. \A p \in Procs, v \in Providers : task[<<p, v>>] = Idle
  BY DEF Init, Tasks
<1>3. LockInv /\ Private
  BY <1>2 DEF Init, LockInv, Private, Busy, Idle
<1>4. Known
  BY <1>2 DEF Init, Known, Idle, Empty, None, Tasks
<1>5. UsableInv
  BY DEF Init, UsableInv, Usable, Empty
<1> QED
  BY <1>1, <1>3, <1>4, <1>5 DEF IInv

\* What is usable stays so, when no token is taken and no answer written.
LEMMA UsableKept ==
  ASSUME valid \subseteq valid', orphaned \subseteq orphaned', UNCHANGED <<up, task>>
  PROVE  \A v, t : Usable(v, t) => Usable(v, t)'
BY DEF Usable, At

\* A login or a logout keeps the invariant: no refresh has the lock, or the file stays.
LEMMA ChangeKeeps ==
  ASSUME IInv, TInv', NEW p \in Procs, NEW v \in Providers, NEW t \in Token, Change(p, v, t),
         valid \subseteq valid', \A w \in Providers : issued[w] <= issued'[w],
         t = None \/ (issued[v] < t /\ t <= issued'[v] /\ <<v, t>> \in valid')
  PROVE  IInv'
<1>0. /\ file.creds \in Stores /\ file'.creds \in Stores
      /\ \A w \in Providers : issued[w] \in Nat /\ issued'[w] \in Nat /\ file.creds[w] \in Nat
      /\ \A x \in Tasks : x \in Procs \X Providers /\ task[x] \in Refreshes
  BY BoundsAssumption DEF IInv, TInv, TypeOK, Files, Stores, Tokens, Tasks, None
<1>p. \A q \in Procs, w \in Providers : <<q, w>> \in Tasks
  BY DEF Tasks
<1>1. UNCHANGED <<lock, lapsed, up, task, orphaned>>
  BY DEF Change
<1>2. \/ file'.creds = file.creds
      \/ lock = {} /\ file'.creds = [file.creds EXCEPT ![v] = t]
  BY DEF Change, Persist, Current, GetLock, Whole
<1>3. LockInv'
  BY <1>1, <1>2 DEF IInv, LockInv, Busy
<1>4. \A w \in Providers : file'.creds[w] = file.creds[w] \/ (w = v /\ file'.creds[w] = t)
  BY <1>0, <1>2 DEF Stores
<1>5. Known'
  <2>1. \A w \in Providers : file'.creds[w] <= issued'[w]
    BY <1>0, <1>4 DEF IInv, Known, None
  <2>2. \A w \in Providers, x \in Tasks : task[x].base[w] \in Nat
    BY <1>0 DEF Refreshes, Stores, Tokens, None
  <2>3. \A w \in Providers, q \in Procs : task[<<q, w>>].token \in Nat /\ task[<<q, w>>].next \in Nat
    BY <1>0, <1>p DEF Refreshes, Tokens, None
  <2> QED
    BY <1>0, <1>1, <2>1, <2>2, <2>3 DEF IInv, Known
<1>6. Private'
  <2>1. ASSUME NEW q \in Procs, NEW w \in Providers, task[<<q, w>>].phase = "granted"
        PROVE  <<w, task[<<q, w>>].next>> \in valid' /\ task[<<q, w>>].next # file'.creds[w]
    <3>1. <<w, task[<<q, w>>].next>> \in valid /\ task[<<q, w>>].next # file.creds[w]
      BY <2>1 DEF IInv, Private
    <3>2. task[<<q, w>>].next \in Tokens /\ task[<<q, w>>].next <= issued[w]
      BY <3>1 DEF IInv, TInv, TypeOK, Grants, Known
    <3> QED
      BY <3>1, <3>2, <1>0, <1>4 DEF Tokens, None
  <2>2. ASSUME NEW q \in Procs, NEW w \in Providers, task[<<q, w>>].phase = "granted"
        PROVE  LET n == task[<<q, w>>].next
               IN  /\ \A x \in Tasks : task[x].base[w] # n
                   /\ \A r \in Procs : task[<<r, w>>].token # n
                   /\ \A r \in Procs : r # q /\ task[<<r, w>>].phase = "granted" => task[<<r, w>>].next # n
    BY <2>2 DEF IInv, Private
  <2> QED
    BY <1>1, <2>1, <2>2 DEF Private
<1>7. UsableInv'
  <2>1. \A w, x : Usable(w, x) => Usable(w, x)'
    BY <1>1, UsableKept
  <2>2. Usable(v, t)'
    BY DEF Usable
  <2>3. \A w \in Providers, x \in Token : x = file'.creds[w] => Usable(w, x)'
    BY <1>4, <2>1, <2>2 DEF IInv, UsableInv
  <2>4. \A q \in Procs, u, w \in Providers, x \in Token :
          <<q, u>> \in lock' /\ x = task'[<<q, u>>].base[w] => Usable(w, x)'
    BY <1>1, <2>1 DEF IInv, UsableInv
  <2> QED
    BY <2>3, <2>4 DEF UsableInv
<1> QED
  BY <1>3, <1>5, <1>6, <1>7 DEF IInv

\* A refresh that takes the lock has read what is in the file.
LEMMA AcquireKeeps ==
  ASSUME IInv, TInv', NEW p \in Procs, NEW v \in Providers, Acquire(p, v),
         <<v, file.creds[v]>> \in expired
  PROVE  IInv'
<1> DEFINE s == [Idle EXCEPT !.phase = "asking", !.base = file.creds, !.token = file.creds[v]]
<1>p. \A q \in Procs, w \in Providers : <<q, w>> \in Tasks
  BY DEF Tasks
<1>1. /\ lock = {} /\ lock' = {<<p, v>>} /\ up[p] = "on" /\ ~ Busy(p, v)
      /\ UNCHANGED <<file, lapsed, up, issued, valid, orphaned>>
  BY DEF Acquire, Current, GetLock, serverVars, At, Busy
<1>2. task' = [task EXCEPT ![<<p, v>>] = s]
  BY DEF Acquire, Current, Becomes
<1>3. /\ s.phase = "asking" /\ s.base = file.creds /\ s.token = file.creds[v] /\ s.next = None
  BY DEF Idle
<1>4. /\ task'[<<p, v>>] = s
      /\ \A x \in Tasks : x # <<p, v>> => task'[x] = task[x]
  BY <1>2, <1>p DEF IInv, TInv, TypeOK
<1> HIDE DEF s
<1>5. LockInv'
  <2>1. \A q \in Procs, w \in Providers : <<q, w>> \in lock' => q = p /\ w = v
    BY <1>1
  <2>2. Busy(p, v)' /\ file'.creds = task'[<<p, v>>].base
    BY <1>1, <1>3, <1>4 DEF Busy
  <2>3. ASSUME NEW q \in Procs, NEW w \in Providers, Busy(q, w)'
        PROVE  up'[q] = "on" /\ <<q, w>> \in lock' \cup lapsed'
    BY <2>3, <1>1, <1>4, <1>p DEF IInv, LockInv, Busy
  <2> QED
    BY <2>1, <2>2, <2>3 DEF LockInv
<1>6. Known'
  <2>1. \A w \in Providers : issued[w] \in Nat
    BY BoundsAssumption DEF IInv, TInv, TypeOK
  <2> QED
    BY <1>1, <1>3, <1>4, <1>p, <2>1 DEF IInv, Known, None
<1>7. Private'
  <2> SUFFICES ASSUME NEW q \in Procs, NEW w \in Providers, task'[<<q, w>>].phase = "granted"
               PROVE  LET n == task'[<<q, w>>].next
                      IN  /\ <<w, n>> \in valid'
                          /\ n # file'.creds[w]
                          /\ \A t \in Tasks : task'[t].base[w] # n
                          /\ \A r \in Procs : task'[<<r, w>>].token # n
                          /\ \A r \in Procs : r # q /\ task'[<<r, w>>].phase = "granted"
                                                => task'[<<r, w>>].next # n
    BY DEF Private
  <2> DEFINE n == task[<<q, w>>].next
  <2>1. <<q, w>> # <<p, v>> /\ task'[<<q, w>>] = task[<<q, w>>] /\ task[<<q, w>>].phase = "granted"
    BY <1>3, <1>4, <1>p
  <2>2. /\ <<w, n>> \in valid /\ n # file.creds[w]
        /\ \A t \in Tasks : task[t].base[w] # n
        /\ \A r \in Procs : task[<<r, w>>].token # n
        /\ \A r \in Procs : r # q /\ task[<<r, w>>].phase = "granted" => task[<<r, w>>].next # n
    BY <2>1 DEF IInv, Private
  <2>3. \A t \in Tasks : task'[t].base[w] # n
    BY <2>2, <1>3, <1>4
  <2>4. \A r \in Procs : task'[<<r, w>>].token # n
    BY <2>2, <1>3, <1>4, <1>p
  <2>5. ASSUME NEW r \in Procs, r # q, task'[<<r, w>>].phase = "granted"
        PROVE  task'[<<r, w>>].next # n
    BY <2>2, <2>5, <1>3, <1>4, <1>p
  <2> QED
    BY <2>1, <2>2, <2>3, <2>4, <2>5, <1>1
<1>8. UsableInv'
  <2>1. \A w \in Providers : \A t : Usable(w, t) => Usable(w, t)'
    BY <1>1, <1>4, <1>p DEF Usable, At, Busy
  <2>2. \A w \in Providers, t \in Token : t = file'.creds[w] => Usable(w, t)'
    BY <1>1, <2>1 DEF IInv, UsableInv
  <2>3. \A q \in Procs, u, w \in Providers, t \in Token :
          <<q, u>> \in lock' /\ t = task'[<<q, u>>].base[w] => Usable(w, t)'
    BY <1>1, <1>3, <1>4, <2>2
  <2> QED
    BY <2>2, <2>3 DEF UsableInv
<1> QED
  BY <1>5, <1>6, <1>7, <1>8 DEF IInv

\* The provider exchanges the token that a refresh has asked with.
LEMMA ServeKeeps ==
  ASSUME IInv, TInv', NEW p \in Procs, NEW v \in Providers, Serve(p, v)
  PROVE  IInv'
<1> DEFINE old == task[<<p, v>>]
           s == [old EXCEPT !.phase = "granted", !.next = New(v)]
<1>p. \A q \in Procs, w \in Providers : <<q, w>> \in Tasks
  BY DEF Tasks
<1>t. TypeOK /\ old \in Refreshes /\ \A w \in Providers : issued[w] \in Nat
  BY <1>p, BoundsAssumption DEF IInv, TInv, TypeOK
<1>1. /\ up[p] = "on" /\ old.phase = "asking"
      /\ UNCHANGED <<file, lock, lapsed, up, orphaned>>
  BY DEF Serve, lockVars, procVars, At
<1>2. /\ New(v) = issued[v] + 1 /\ issued'[v] = New(v) /\ New(v) \in Tokens
      /\ \A w \in Providers : issued[w] <= issued'[w] /\ issued'[w] \in Nat
  BY <1>t, IssueType, BoundsAssumption DEF Serve
<1>3. valid' = (valid \ {<<v, old.token>>}) \cup {<<v, New(v)>>}
  BY DEF Serve, Issue
<1>4. task' = [task EXCEPT ![<<p, v>>] = s]
  BY DEF Serve, Becomes
<1>5. s.phase = "granted" /\ s.base = old.base /\ s.token = old.token /\ s.next = New(v)
  BY <1>t DEF Refreshes
<1>6. /\ task'[<<p, v>>] = s
      /\ \A x \in Tasks : x # <<p, v>> => task'[x] = task[x]
  BY <1>4, <1>p, <1>t DEF TypeOK
<1> HIDE DEF s
<1>7. \A x \in Tasks : task'[x].base = task[x].base
  BY <1>5, <1>6
<1>8. \A q \in Procs, w \in Providers :
        /\ task'[<<q, w>>].token = task[<<q, w>>].token
        /\ <<q, w>> # <<p, v>> => task'[<<q, w>>] = task[<<q, w>>]
        /\ Busy(q, w)' <=> Busy(q, w)
  BY <1>1, <1>5, <1>6, <1>p DEF Busy
<1>9. LockInv'
  <2>1. \A q \in Procs, w \in Providers : task'[<<q, w>>].base = task[<<q, w>>].base
    BY <1>7, <1>p
  <2> QED
    BY <2>1, <1>1, <1>8 DEF IInv, LockInv
<1>k. /\ \A w \in Providers, x \in Tasks : task[x].base[w] \in Nat /\ task[x].base[w] <= issued[w]
      /\ \A w \in Providers, q \in Procs :
           /\ task[<<q, w>>].token \in Nat /\ task[<<q, w>>].token <= issued[w]
           /\ task[<<q, w>>].next \in Nat /\ task[<<q, w>>].next <= issued[w]
      /\ \A w \in Providers : file.creds[w] \in Nat /\ file.creds[w] <= issued[w]
  <2>1. \A w \in Providers, x \in Tasks : task[x].base[w] \in Nat
    BY <1>t DEF TypeOK, Refreshes, Stores, Tokens, None
  <2>2. \A w \in Providers, q \in Procs : task[<<q, w>>].token \in Nat /\ task[<<q, w>>].next \in Nat
    BY <1>t, <1>p DEF TypeOK, Refreshes, Tokens, None
  <2>3. \A w \in Providers : file.creds[w] \in Nat
    BY <1>t DEF TypeOK, Files, Stores, Tokens, None
  <2> QED
    BY <2>1, <2>2, <2>3 DEF IInv, Known
<1>10. Known'
  <2>1. \A w \in Providers, x \in Tasks : task'[x].base[w] <= issued'[w]
    BY <1>k, <1>2, <1>t, <1>7
  <2>2. ASSUME NEW w \in Providers, NEW q \in Procs
        PROVE  task'[<<q, w>>].token <= issued'[w] /\ task'[<<q, w>>].next <= issued'[w]
    <3>1. task'[<<q, w>>].token = task[<<q, w>>].token
      BY <1>8
    <3>2. task'[<<q, w>>].token <= issued'[w]
      BY <3>1, <1>k, <1>2, <1>t
    <3>3. CASE <<q, w>> = <<p, v>>
      BY <3>2, <3>3, <1>2, <1>5, <1>6, <1>t
    <3>4. CASE <<q, w>> # <<p, v>>
      <4>1. task'[<<q, w>>].next = task[<<q, w>>].next
        BY <3>4, <1>8
      <4> QED
        BY <4>1, <3>2, <1>k, <1>2, <1>t
    <3> QED
      BY <3>3, <3>4
  <2> QED
    BY <2>1, <2>2, <1>k, <1>1, <1>2, <1>t DEF Known
<1>11. Private'
  <2>1. ASSUME NEW q \in Procs, NEW w \in Providers, task'[<<q, w>>].phase = "granted",
               <<q, w>> # <<p, v>>, NEW n, n = task[<<q, w>>].next
        PROVE  /\ <<w, n>> \in valid'
               /\ n # file'.creds[w]
               /\ \A t \in Tasks : task'[t].base[w] # n
               /\ \A r \in Procs : task'[<<r, w>>].token # n
               /\ \A r \in Procs : r # q /\ task'[<<r, w>>].phase = "granted"
                                     => task'[<<r, w>>].next # n
    <3>1. task[<<q, w>>].phase = "granted"
      BY <2>1, <1>8
    <3>2. /\ <<w, n>> \in valid /\ n # file.creds[w]
          /\ \A t \in Tasks : task[t].base[w] # n
          /\ \A r \in Procs : task[<<r, w>>].token # n
          /\ \A r \in Procs : r # q /\ task[<<r, w>>].phase = "granted" => task[<<r, w>>].next # n
      BY <2>1, <3>1 DEF IInv, Private
    <3>3. <<w, n>> \in valid'
      BY <3>2, <1>3
    <3>4. n \in Nat /\ n <= issued[w]
      BY <1>k, <2>1
    <3>5. ASSUME NEW r \in Procs, r # q, task'[<<r, w>>].phase = "granted"
          PROVE  task'[<<r, w>>].next # n
      <4>1. CASE <<r, w>> = <<p, v>>
        BY <4>1, <1>5, <1>6, <1>2, <3>4, <1>t
      <4>2. CASE <<r, w>> # <<p, v>>
        BY <4>2, <3>5, <3>2, <1>8
      <4> QED
        BY <4>1, <4>2
    <3> QED
      BY <3>2, <3>3, <3>5, <1>1, <1>7, <1>8
  <2>2. /\ <<v, New(v)>> \in valid' /\ New(v) # file'.creds[v]
        /\ \A t \in Tasks : task'[t].base[v] # New(v)
        /\ \A r \in Procs : task'[<<r, v>>].token # New(v)
        /\ \A r \in Procs : r # p /\ task'[<<r, v>>].phase = "granted" => task'[<<r, v>>].next # New(v)
    <3>1. \A r \in Procs : r # p => task'[<<r, v>>].next <= issued[v] /\ task'[<<r, v>>].next \in Nat
      BY <1>k, <1>8
    <3>2. \A r \in Procs : r # p => task'[<<r, v>>].next # New(v)
      BY <3>1, <1>2, <1>t
    <3>3. \A t \in Tasks : task'[t].base[v] # New(v)
      BY <1>k, <1>2, <1>t, <1>7
    <3>4. \A r \in Procs : task'[<<r, v>>].token # New(v)
      BY <1>k, <1>2, <1>t, <1>8
    <3> QED
      BY <3>2, <3>3, <3>4, <1>1, <1>2, <1>3, <1>k, <1>t
  <2>3. task'[<<p, v>>].next = New(v)
    BY <1>5, <1>6
  <2>4. ASSUME NEW q \in Procs, NEW w \in Providers, task'[<<q, w>>].phase = "granted",
               NEW n, n = task'[<<q, w>>].next
        PROVE  /\ <<w, n>> \in valid'
               /\ n # file'.creds[w]
               /\ \A t \in Tasks : task'[t].base[w] # n
               /\ \A r \in Procs : task'[<<r, w>>].token # n
               /\ \A r \in Procs : r # q /\ task'[<<r, w>>].phase = "granted"
                                     => task'[<<r, w>>].next # n
    <3>1. CASE <<q, w>> = <<p, v>>
      BY <3>1, <2>2, <2>3, <2>4
    <3>2. CASE <<q, w>> # <<p, v>>
      <4>1. n = task[<<q, w>>].next
        BY <3>2, <2>4, <1>8
      <4> QED
        BY <3>2, <4>1, <2>1, <2>4
    <3> QED
      BY <3>1, <3>2
  <2> QED
    BY <2>4 DEF Private
<1>12. UsableInv'
  <2>1. ASSUME NEW w \in Providers, NEW t, Usable(w, t) PROVE Usable(w, t)'
    <3>1. CASE <<w, t>> = <<v, old.token>>
      BY <3>1, <1>1, <1>5, <1>6 DEF Usable, At
    <3>2. CASE <<w, t>> # <<v, old.token>>
      BY <3>2, <2>1, <1>1, <1>3, <1>8 DEF Usable, At
    <3> QED
      BY <3>1, <3>2
  <2>2. \A w \in Providers, t \in Token : t = file'.creds[w] => Usable(w, t)'
    BY <1>1, <2>1 DEF IInv, UsableInv
  <2>3. \A q \in Procs, u, w \in Providers, t \in Token :
          <<q, u>> \in lock' /\ t = task'[<<q, u>>].base[w] => Usable(w, t)'
    BY <1>1, <1>7, <1>p, <2>1 DEF IInv, UsableInv
  <2> QED
    BY <2>2, <2>3 DEF UsableInv
<1> QED
  BY <1>9, <1>10, <1>11, <1>12 DEF IInv

\* An answer is written: what was read with it is still usable, if the lock held.
LEMMA AnswerKeeps ==
  ASSUME IInv, TInv', NEW p \in Procs, NEW v \in Providers, Answer(p, v)
  PROVE  IInv'
<1> DEFINE old == task[<<p, v>>]
           merged == [old.base EXCEPT ![v] = old.next]
<1>p. \A q \in Procs, w \in Providers : <<q, w>> \in Tasks
  BY DEF Tasks
<1>t. TypeOK /\ old \in Refreshes /\ \A w \in Providers : issued[w] \in Nat /\ Empty[w] = None
  BY <1>p, BoundsAssumption DEF IInv, TInv, TypeOK, Empty
<1>1. /\ up[p] = "on" /\ old.phase = "granted" /\ file'.creds = merged
      /\ lock' = {} /\ lapsed' = (lapsed \cup lock) \ {<<p, v>>}
      /\ orphaned' = orphaned \cup IF <<p, v>> \in lapsed THEN InStore(merged) ELSE {}
      /\ UNCHANGED <<up, valid, issued>>
  BY DEF Answer, Release, At, Whole, serverVars
<1>2. /\ task'[<<p, v>>] = Idle
      /\ \A x \in Tasks : x # <<p, v>> => task'[x] = task[x]
  BY <1>p, <1>t DEF Answer, Becomes, TypeOK
<1>3. merged[v] = old.next /\ \A w \in Providers : w # v => merged[w] = old.base[w]
  BY <1>t DEF Refreshes, Stores
<1>4. \A w \in Providers : merged[w] \in Token
  BY <1>3, <1>t DEF Refreshes, Stores, Token
<1> HIDE DEF merged
<1>5. Idle.phase = "idle" /\ Idle.base = Empty /\ Idle.token = None /\ Idle.next = None
  BY DEF Idle
<1>6. LockInv'
  <2>1. \A q \in Procs, w \in Providers : Busy(q, w)' => <<q, w>> # <<p, v>> /\ Busy(q, w)
    BY <1>2, <1>5, <1>p DEF Busy
  <2> QED
    BY <1>1, <2>1 DEF IInv, LockInv
<1>7. Known'
  <2>1. \A w \in Providers : merged[w] <= issued[w]
    BY <1>3, <1>p DEF IInv, Known
  <2>2. \A w \in Providers, x \in Tasks : task'[x].base[w] <= issued[w]
    BY <1>2, <1>5, <1>t DEF IInv, Known, None
  <2>3. ASSUME NEW w \in Providers, NEW q \in Procs
        PROVE  task'[<<q, w>>].token <= issued[w] /\ task'[<<q, w>>].next <= issued[w]
    <3>1. CASE <<q, w>> = <<p, v>>
      BY <3>1, <1>2, <1>5, <1>t DEF None
    <3>2. CASE <<q, w>> # <<p, v>>
      <4>1. task'[<<q, w>>] = task[<<q, w>>]
        BY <3>2, <1>2, <1>p
      <4> QED
        BY <4>1 DEF IInv, Known
    <3> QED
      BY <3>1, <3>2
  <2> QED
    BY <1>1, <2>1, <2>2, <2>3 DEF Known
<1>8. Private'
  <2>1. ASSUME NEW q \in Procs, NEW w \in Providers, task'[<<q, w>>].phase = "granted",
               NEW n, n = task'[<<q, w>>].next
        PROVE  /\ <<w, n>> \in valid'
               /\ n # file'.creds[w]
               /\ \A t \in Tasks : task'[t].base[w] # n
               /\ \A r \in Procs : task'[<<r, w>>].token # n
               /\ \A r \in Procs : r # q /\ task'[<<r, w>>].phase = "granted"
                                     => task'[<<r, w>>].next # n
    <3>0. <<q, w>> # <<p, v>>
      BY <2>1, <1>2, <1>5
    <3>1. task[<<q, w>>].phase = "granted" /\ n = task[<<q, w>>].next
      BY <3>0, <2>1, <1>2, <1>p
    <3>2. /\ <<w, n>> \in valid /\ n # file.creds[w]
          /\ \A t \in Tasks : task[t].base[w] # n
          /\ \A r \in Procs : task[<<r, w>>].token # n
          /\ \A r \in Procs : r # q /\ task[<<r, w>>].phase = "granted" => task[<<r, w>>].next # n
      BY <3>1 DEF IInv, Private
    <3>3. n # None
      BY <3>2, <1>t DEF TypeOK, Grants, Tokens, None
    <3>4. n # merged[w]
      <4>1. CASE w = v
        BY <4>1, <3>0, <3>2, <1>1, <1>3
      <4>2. CASE w # v
        BY <4>2, <3>2, <1>3, <1>p
      <4> QED
        BY <4>1, <4>2
    <3>5. \A t \in Tasks : task'[t].base[w] # n
      BY <3>2, <3>3, <1>2, <1>5, <1>t
    <3>6. \A r \in Procs : task'[<<r, w>>].token # n
      BY <3>2, <3>3, <1>2, <1>5, <1>p
    <3>7. ASSUME NEW r \in Procs, r # q, task'[<<r, w>>].phase = "granted"
          PROVE  task'[<<r, w>>].next # n
      BY <3>7, <3>2, <1>2, <1>5, <1>p
    <3> QED
      BY <3>2, <3>4, <3>5, <3>6, <3>7, <1>1
  <2> QED
    BY <2>1 DEF Private
<1>9. UsableInv'
  <2>1. ASSUME NEW w \in Providers, w # v, NEW t, Usable(w, t) PROVE Usable(w, t)'
    <3>1. \A q \in Procs : <<q, w>> # <<p, v>> /\ task'[<<q, w>>] = task[<<q, w>>]
      BY <2>1, <1>2, <1>p
    <3> QED
      BY <2>1, <3>1, <1>1 DEF Usable, At
  <2>2. Usable(v, merged[v])
    BY <1>1, <1>3 DEF IInv, Private, Usable
  <2>3. ASSUME NEW w \in Providers, NEW t \in Token, t = merged[w] PROVE Usable(w, t)'
    <3>1. CASE w = v
      BY <3>1, <2>3, <1>1, <1>3 DEF IInv, Private, Usable
    <3>2. CASE w # v /\ <<p, v>> \in lapsed
      BY <3>2, <2>3, <1>1 DEF InStore, Usable
    <3>3. CASE w # v /\ <<p, v>> \notin lapsed
      <4>1. <<p, v>> \in lock
        BY <3>3, <1>1 DEF IInv, LockInv, Busy
      <4>2. Usable(w, t)
        BY <4>1, <3>3, <2>3, <1>3 DEF IInv, UsableInv
      <4> QED
        BY <4>2, <3>3, <2>1
    <3> QED
      BY <3>1, <3>2, <3>3
  <2> QED
    BY <2>3, <1>1 DEF UsableInv
<1> QED
  BY <1>6, <1>7, <1>8, <1>9 DEF IInv

\* Every step keeps the invariant.
LEMMA InvPreserved == IInv /\ [Next]_vars => IInv'
<1> SUFFICES ASSUME IInv, [Next]_vars PROVE IInv'
  OBVIOUS
<1>t. TInv /\ TypeOK /\ TInv'
  BY TypePreserved DEF IInv, TInv
<1>p. \A p \in Procs, v \in Providers : <<p, v>> \in Tasks /\ task[<<p, v>>] \in Refreshes
  BY <1>t DEF Tasks, TypeOK
<1>b. \A p \in Procs, v \in Providers : <<p, v>> \in lock => Busy(p, v)
  BY DEF IInv, LockInv
<1>l. \A x \in lock : x \in Tasks
  BY <1>t DEF TypeOK
<1>n. \A p \in Procs, v \in Providers : ~ Busy(p, v) => <<p, v>> \notin lock
  BY <1>b
<1> DEFINE none == {}
<1>e. none \in SUBSET Tasks /\ none = {}
  OBVIOUS
<1> HIDE DEF none
<1>1. ASSUME NEW p \in Procs, Launch(p) PROVE IInv'
  <2>1. Drops(none)
    <3>1. UNCHANGED <<file, lock, lapsed, task, issued, valid, orphaned>>
      BY <1>1 DEF Launch, Reload, lockVars, serverVars
    <3>2. \A q \in Procs : up[q] = "on" => up'[q] = "on"
      BY <1>1, <1>t DEF Launch, TypeOK
    <3> QED
      BY <3>1, <3>2, <1>e DEF Drops
  <2> QED
    BY <2>1, <1>e, <1>t, DropsKeeps
<1>2. ASSUME NEW p \in Procs, Create(p) PROVE IInv'
  <2>1. Drops(none)
    BY <1>2, <1>e DEF Drops, Create, Whole, lockVars, serverVars
  <2> QED
    BY <2>1, <1>e, <1>t, DropsKeeps
<1>3. ASSUME NEW p \in Procs, Load(p) PROVE IInv'
  <2>1. Drops(none)
    BY <1>3, <1>e DEF Drops, Load, Reload, serverVars
  <2> QED
    BY <2>1, <1>e, <1>t, DropsKeeps
<1>d. ASSUME NEW p \in Procs, Dies(p), file'.creds \in {file.creds, Empty},
             lock' = {t \in lock : t[1] # p}
      PROVE  IInv'
  <2> DEFINE D == {t \in Tasks : t[1] = p}
  <2>1. \A t \in D : task'[t] = Idle
    BY <1>d DEF Dies
  <2>2. \A t \in Tasks \ D : task'[t] = task[t]
    BY <1>d, <1>t DEF Dies, TypeOK
  <2>3. \A v \in Providers : task[<<p, v>>].phase = "granted" => <<v, task[<<p, v>>].token>> \in orphaned'
    BY <1>d DEF Dies, Lost
  <2>4. UNCHANGED <<issued, valid>> /\ orphaned \subseteq orphaned' /\ lapsed' = {t \in lapsed : t[1] # p}
    BY <1>d DEF Dies, serverVars
  <2>5. \A q \in Procs : q # p => up'[q] = up[q]
    BY <1>d, <1>t DEF Dies, TypeOK
  <2>6. lock \subseteq Tasks /\ lapsed \subseteq Tasks
    BY <1>t DEF TypeOK
  <2>7. \A q \in Procs, v \in Providers : <<q, v>> \in D <=> q = p
    BY <1>p
  <2>8. lock' \subseteq lock \ D /\ (lock \cup lapsed) \ D \subseteq lock' \cup lapsed'
    BY <1>d, <2>4, <2>6
  <2>9. \A t \in D : /\ task'[t].phase \notin {"asking", "granted"} /\ task'[t].base = Empty
                     /\ task'[t].token = None /\ task'[t].next = None
    BY <2>1 DEF Idle
  <2>10. \A q \in Procs, v \in Providers : <<q, v>> \notin D /\ up[q] = "on" => up'[q] = "on"
    BY <2>5, <2>7
  <2>11. \A q \in Procs, v \in Providers :
           <<q, v>> \in D /\ task[<<q, v>>].phase = "granted" => <<v, task[<<q, v>>].token>> \in orphaned'
    BY <2>3, <2>7
  <2>12. D \in SUBSET Tasks
    OBVIOUS
  <2> HIDE DEF D
  <2>13. Drops(D)
    BY <1>d, <2>2, <2>4, <2>8, <2>9, <2>10, <2>11 DEF Drops
  <2> QED
    BY <2>12, <2>13, <1>t, DropsKeeps
<1>4. ASSUME NEW p \in Procs, Crash(p) PROVE IInv'
  BY <1>4, <1>d DEF Crash
<1>5. ASSUME NEW p \in Procs, CrashInWrite(p) PROVE IInv'
  <2>1. \A t \in lock : t[1] = p
    <3>1. CASE lock = {}
      BY <3>1
    <3>2. CASE \E v \in Providers : <<p, v>> \in lock
      BY <3>2, <1>l DEF IInv, LockInv, Tasks
    <3> QED
      BY <1>5, <3>1, <3>2 DEF CrashInWrite
  <2> QED
    BY <1>5, <2>1, <1>d DEF CrashInWrite, Whole
<1>6. ASSUME NEW p \in Procs, NEW v \in Providers, Login(p, v) PROVE IInv'
  <2>1. /\ New(v) \in Tokens /\ New(v) = issued[v] + 1 /\ issued'[v] = New(v)
        /\ \A w \in Providers : issued[w] <= issued'[w]
    BY <1>6, <1>t, IssueType DEF Login
  <2>2. valid \subseteq valid' /\ <<v, New(v)>> \in valid' /\ Change(p, v, New(v))
    BY <1>6 DEF Login, Issue
  <2>3. issued[v] < New(v) /\ New(v) <= issued'[v] /\ New(v) \in Token
    BY <2>1, <1>t, BoundsAssumption DEF TypeOK, Token
  <2> QED
    BY <2>1, <2>2, <2>3, <1>t, ChangeKeeps
<1>7. ASSUME NEW p \in Procs, NEW v \in Providers, Logout(p, v) PROVE IInv'
  <2>1. Change(p, v, None) /\ UNCHANGED <<issued, valid>> /\ None \in Token
    BY <1>7 DEF Logout, Token
  <2>2. \A w \in Providers : issued[w] <= issued'[w]
    BY <2>1, <1>t, BoundsAssumption DEF TypeOK
  <2> QED
    BY <2>1, <2>2, <1>t, ChangeKeeps
\* A refresh that stops, or goes on to a phase in which it is not busy.
<1>s. ASSUME NEW p \in Procs, NEW v \in Providers, NEW s, Becomes(p, v, s),
             UNCHANGED <<issued, valid, file, up>>,
             s.phase \notin {"asking", "granted"}, s.base \in {task[<<p, v>>].base, Empty},
             s.token \in {task[<<p, v>>].token, None}, s.next \in {task[<<p, v>>].next, None},
             lock' \subseteq lock \ {<<p, v>>}, (lock \cup lapsed) \ {<<p, v>>} \subseteq lock' \cup lapsed',
             orphaned \subseteq orphaned',
             task[<<p, v>>].phase = "granted" => <<v, task[<<p, v>>].token>> \in orphaned'
      PROVE  IInv'
  <2> DEFINE D == {<<p, v>>}
  <2>1. task'[<<p, v>>] = s /\ \A t \in Tasks \ D : task'[t] = task[t]
    BY <1>s, <1>p, <1>t DEF Becomes, TypeOK
  <2>2. \A t \in D : /\ task'[t].phase \notin {"asking", "granted"}
                     /\ task'[t].base \in {task[t].base, Empty}
                     /\ task'[t].token \in {task[t].token, None}
                     /\ task'[t].next \in {task[t].next, None}
    BY <1>s, <2>1
  <2>3. D \in SUBSET Tasks
    BY <1>p
  <2>4. \A q \in Procs, w \in Providers :
          <<q, w>> \in D /\ task[<<q, w>>].phase = "granted" => <<w, task[<<q, w>>].token>> \in orphaned'
    BY <1>s
  <2>5. lock' \subseteq lock \ D /\ (lock \cup lapsed) \ D \subseteq lock' \cup lapsed'
    BY <1>s
  <2> HIDE DEF D
  <2>6. Drops(D)
    BY <1>s, <2>1, <2>2, <2>4, <2>5 DEF Drops
  <2> QED
    BY <2>3, <2>6, <1>t, DropsKeeps
\* A refresh that ends holds no lock, and one that loses its lock to the release of
\* another has a lapsed one.
<1>f. ASSUME NEW p \in Procs, NEW v \in Providers, Release(p, v) \/ Noticed(p, v)
      PROVE  /\ lock' \subseteq lock \ {<<p, v>>}
             /\ (lock \cup lapsed) \ {<<p, v>>} \subseteq lock' \cup lapsed'
  <2>1. CASE Release(p, v)
    BY <2>1 DEF Release
  <2>2. CASE Noticed(p, v)
    BY <2>2 DEF Noticed
  <2> QED
    BY <1>f, <2>1, <2>2
<1>g. \A p \in Procs, v \in Providers, ph \in {"locking", "reload"} :
        LET s == [task[<<p, v>>] EXCEPT !.phase = ph]
        IN  /\ s.phase \notin {"asking", "granted"} /\ s.base = task[<<p, v>>].base
            /\ s.token = task[<<p, v>>].token /\ s.next = task[<<p, v>>].next
  BY <1>p DEF Refreshes
<1>8. ASSUME NEW p \in Procs, NEW v \in Providers, Want(p, v) PROVE IInv'
  <2>1. ~ Busy(p, v) /\ <<p, v>> \notin lock
    BY <1>8, <1>n DEF Want, Busy
  <2> QED
    BY <1>8, <1>s, <1>g, <2>1 DEF Want, Goes, Busy, lockVars, procVars, serverVars
<1>9. ASSUME NEW p \in Procs, NEW v \in Providers, Acquire(p, v) PROVE IInv'
  <2>1. CASE <<v, file.creds[v]>> \in expired
    BY <1>9, <2>1, <1>t, AcquireKeeps
  <2>2. CASE <<v, file.creds[v]>> \notin expired
    <3>1. /\ Becomes(p, v, Idle) /\ lock' = lock /\ lock = {}
          /\ UNCHANGED <<file, lapsed, up, valid, issued, orphaned>> /\ ~ Busy(p, v)
      BY <1>9, <2>2 DEF Acquire, Current, GetLock, serverVars, At, Busy
    <3> QED
      BY <3>1, <1>s DEF Idle, Busy
  <2> QED
    BY <2>1, <2>2
<1>10. ASSUME NEW p \in Procs, NEW v \in Providers, GiveUp(p, v) PROVE IInv'
  <2>1. ~ Busy(p, v) /\ <<p, v>> \notin lock
    BY <1>10, <1>n DEF GiveUp, Busy, At
  <2> QED
    BY <1>10, <1>s, <1>g, <2>1 DEF GiveUp, Goes, Busy, procVars, serverVars
<1>11. ASSUME NEW p \in Procs, NEW v \in Providers, Serve(p, v) PROVE IInv'
  BY <1>11, <1>t, ServeKeeps
<1>12. ASSUME NEW p \in Procs, NEW v \in Providers, Answer(p, v) PROVE IInv'
  BY <1>12, <1>t, AnswerKeeps
<1>13. ASSUME NEW p \in Procs, NEW v \in Providers, Compromised(p, v) PROVE IInv'
  <2>1. lock' \subseteq lock \ {<<p, v>>} /\ (lock \cup lapsed) \ {<<p, v>>} \subseteq lock' \cup lapsed'
    BY <1>13, <1>f DEF Compromised
  <2> QED
    BY <1>13, <1>s, <1>g, <2>1 DEF Compromised, Lost, Goes, serverVars
<1>14. ASSUME NEW p \in Procs, NEW v \in Providers, Refused(p, v) PROVE IInv'
  <2>1. lock' \subseteq lock \ {<<p, v>>} /\ (lock \cup lapsed) \ {<<p, v>>} \subseteq lock' \cup lapsed'
    BY <1>14, <1>f DEF Refused
  <2> QED
    BY <1>14, <1>s, <1>g, <2>1 DEF Refused, Goes, At, procVars, serverVars
<1>15. ASSUME NEW p \in Procs, NEW v \in Providers, AnswerLost(p, v) PROVE IInv'
  <2>1. lock' \subseteq lock \ {<<p, v>>} /\ (lock \cup lapsed) \ {<<p, v>>} \subseteq lock' \cup lapsed'
    BY <1>15, <1>f DEF AnswerLost
  <2> QED
    BY <1>15, <1>s, <1>g, <2>1 DEF AnswerLost, Lost, Goes, procVars, serverVars
<1>16. ASSUME NEW p \in Procs, NEW v \in Providers, Again(p, v) PROVE IInv'
  <2>1. ~ Busy(p, v) /\ <<p, v>> \notin lock
    BY <1>16, <1>n DEF Again, Busy, At
  <2> QED
    BY <1>16, <1>s, <2>1 DEF Again, Reload, Idle, Busy, serverVars
<1>17. ASSUME NEW v \in Providers, Expire(v) PROVE IInv'
  <2>1. Drops(none)
    BY <1>17, <1>e DEF Drops, Expire, lockVars, procVars
  <2> QED
    BY <2>1, <1>e, <1>t, DropsKeeps
<1>18. ASSUME NEW p \in Procs, NEW v \in Providers, Lapse(p, v) PROVE IInv'
  <2>1. lock \subseteq {<<p, v>>}
    BY <1>18, <1>l DEF Lapse, IInv, LockInv, Tasks
  <2>2. Drops(none)
    BY <1>18, <2>1, <1>e DEF Drops, Lapse, procVars, serverVars
  <2> QED
    BY <2>2, <1>e, <1>t, DropsKeeps
<1>19. CASE UNCHANGED vars
  <2>1. Drops(none)
    BY <1>19, <1>e DEF Drops, vars, lockVars, procVars, serverVars
  <2> QED
    BY <2>1, <1>e, <1>t, DropsKeeps
<1> QED
  BY <1>1, <1>2, <1>3, <1>4, <1>5, <1>6, <1>7, <1>8, <1>9, <1>10, <1>11, <1>12, <1>13, <1>14,
     <1>15, <1>16, <1>17, <1>18, <1>19 DEF Next, Step

-----------------------------------------------------------------------------
(* The theorems.                                                           *)

\* Every state is well typed: a refresh is in one of its phases, and what is stored
\* are tokens (auth-storage.ts).
THEOREM TypeCorrect == Spec => []TypeOK
<1>1. TInv => TypeOK
  BY DEF TInv
<1> QED
  BY <1>1, InitType, TypePreserved, PTL DEF Spec

\* The token in auth.json is one the provider takes or that is about to be replaced,
\* unless an answer was lost or a lock had lapsed: no race logs a user out.
THEOREM FileIsUsable == Spec => []FileUsable
<1>1. IInv => FileUsable
  <2>1. ASSUME IInv PROVE FileUsable
    <3>1. \A v \in Providers : file.creds[v] \in Token
      BY <2>1 DEF IInv, TInv, TypeOK, Files, Stores, Token
    <3> QED
      BY <2>1, <3>1 DEF IInv, UsableInv, Usable, FileUsable
  <2> QED
    BY <2>1
<1> QED
  BY <1>1, InitInv, InvPreserved, PTL DEF Spec

\* A write changes the credentials of one provider: a refresh never writes back what
\* another process has changed since it read the file, unless its own lock was lost.
THEOREM WritesChangeOne == Spec => ChangesOne
<1> DEFINE A == \/ \E v \in Providers : \A w \in Providers \ {v} : file'.creds[w] = file.creds[w]
                \/ file.creds = Empty \/ (\E t \in lapsed : Answer(t[1], t[2]))
                \/ \E p \in Procs : Create(p) \/ CrashInWrite(p)
<1>1. IInv /\ [Next]_vars => [A]_vars
  <2> SUFFICES ASSUME IInv, Next PROVE A
    OBVIOUS
  <2>1. ASSUME NEW p \in Procs, NEW v \in Providers, NEW t, Change(p, v, t) PROVE A
    <3>1. \A w \in Providers \ {v} : file'.creds[w] = file.creds[w]
      BY <2>1 DEF IInv, TInv, TypeOK, Files, Stores, Change, Persist, Current, Whole
    <3> QED
      BY <3>1
  <2>2. ASSUME NEW p \in Procs, NEW v \in Providers, Answer(p, v) PROVE A
    <3>1. CASE <<p, v>> \notin lapsed
      <4>1. file.creds \in {task[<<p, v>>].base, Empty}
        BY <2>2, <3>1 DEF IInv, LockInv, Busy, Answer, At
      <4>2. CASE file.creds = task[<<p, v>>].base
        <5>1. \A w \in Providers \ {v} : file'.creds[w] = file.creds[w]
          BY <2>2, <4>2 DEF Answer, Whole, IInv, TInv, TypeOK, Files, Stores
        <5> QED
          BY <5>1
      <4> QED
        BY <4>1, <4>2
    <3>2. CASE <<p, v>> \in lapsed
      BY <2>2, <3>2
    <3> QED
      BY <3>1, <3>2
  <2>3. ASSUME UNCHANGED file, NEW v \in Providers PROVE A
    BY <2>3
  <2>4. CASE \E p \in Procs, v \in Providers : Login(p, v) \/ Logout(p, v) \/ Answer(p, v)
    BY <2>4, <2>1, <2>2 DEF Login, Logout
  <2>5. CASE \E p \in Procs : Create(p) \/ CrashInWrite(p)
    BY <2>5
  <2>6. CASE UNCHANGED file
    <3>1. CASE Providers = {}
      BY <3>1 DEF IInv, TInv, TypeOK, Files, Stores, Empty
    <3> QED
      BY <3>1, <2>6, <2>3
  <2>7. ASSUME NEW p \in Procs, Launch(p) \/ Load(p) \/ Crash(p) PROVE UNCHANGED file
    BY <2>7 DEF Launch, Load, Crash
  <2>8. ASSUME NEW p \in Procs, NEW v \in Providers,
               \/ Want(p, v) \/ Acquire(p, v) \/ GiveUp(p, v) \/ Serve(p, v) \/ Compromised(p, v)
               \/ Refused(p, v) \/ AnswerLost(p, v) \/ Again(p, v) \/ Lapse(p, v)
        PROVE  UNCHANGED file
    BY <2>8 DEF Want, Acquire, GiveUp, Serve, Compromised, Refused, AnswerLost, Again, Lapse
  <2>9. ASSUME NEW v \in Providers, Expire(v) PROVE UNCHANGED file
    BY <2>9 DEF Expire
  <2> QED
    BY <2>4, <2>5, <2>6, <2>7, <2>8, <2>9 DEF Next, Step
<1> QED
  BY <1>1, InitInv, InvPreserved, PTL DEF Spec, ChangesOne
=============================================================================
