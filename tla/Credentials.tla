---------------------------- MODULE Credentials ----------------------------
(***************************************************************************)
(* Stored credentials: packages/coding-agent/src/core/auth-storage.ts.     *)
(*                                                                         *)
(* All processes share auth.json, and each keeps a copy in memory.  Every  *)
(* access takes a lock on the file: for a moment, by code that blocks its  *)
(* process, or for as long as a request to a server takes, when an OAuth   *)
(* token is refreshed.  The server takes a refresh token once and answers  *)
(* with the next one.  Processes may die, requests and answers may be      *)
(* lost, and the lock of a process that was suspended may be taken over.   *)
(***************************************************************************)
EXTENDS Naturals

CONSTANTS
  Procs,      \* the processes
  Providers,  \* the OAuth providers
  MaxTokens,  \* bound: tokens that each provider issues
  MaxFaults   \* bound: processes that die, requests and locks that are lost

ASSUME BoundsAssumption == MaxTokens \in Nat /\ MaxFaults \in Nat

Tokens == 1 .. MaxTokens
None   == 0
Grants == Providers \X Tokens
Tasks  == Procs \X Providers
Stores == [Providers -> Tokens \cup {None}]
Empty  == [v \in Providers |-> None]

VARIABLES
  file,      \* auth.json: absent, ok or broken, and the credentials in it
  lock,      \* the refresh that holds the lock, if one does
  stale,     \* whether a dead process has left a lock
  lapsed,    \* refreshes whose lock was taken over, or removed by another
  up,        \* what each process is at: off, creating, loading, on
  mem,       \* data
  failed,    \* loadError
  task,      \* each process' refresh for each provider
  valid,     \* tokens that their provider takes, with the provider
  expired,   \* tokens whose access has expired
  issued,    \* how many tokens each provider has issued
  orphaned,  \* history: tokens taken whose answer was lost, or written without a lock
  faults

procVars   == <<up, mem, failed>>
serverVars == <<valid, expired, issued>>
lockVars   == <<lock, stale, lapsed>>
vars == <<file, lockVars, procVars, task, serverVars, orphaned, faults>>

Whole(creds) == [state |-> "ok", creds |-> creds]
Idle == [phase |-> "idle", base |-> Empty, token |-> None, next |-> None]

Init ==
  /\ file = [state |-> "absent", creds |-> Empty]
  /\ lock = {} /\ stale = FALSE /\ lapsed = {}
  /\ up = [p \in Procs |-> "off"]
  /\ mem = [p \in Procs |-> Empty] /\ failed = [p \in Procs |-> FALSE]
  /\ task = [t \in Tasks |-> Idle]
  /\ valid = {} /\ expired = {} /\ issued = [v \in Providers |-> 0]
  /\ orphaned = {} /\ faults = 0

Fault == faults < MaxFaults /\ faults' = faults + 1

-----------------------------------------------------------------------------
(* Starting and loading.                                                   *)

\* A blocking access tries ten times, for 200 ms: it gets the lock when no refresh
\* holds it, and may fail when one does or a dead process has left it.
Locked == lock # {} \/ stale

\* The lock of a dead process is removed by the next that gets it.
GetLock == lock = {} /\ stale' = FALSE
NoLock == Locked /\ UNCHANGED stale

\* reload(): an error, of the lock or of the file, is kept in loadError.
Reload(p) ==
  /\ UNCHANGED <<lock, lapsed>>
  /\ \/ /\ GetLock /\ file.state = "ok"
        /\ mem' = [mem EXCEPT ![p] = file.creds]
        /\ failed' = [failed EXCEPT ![p] = FALSE]
     \/ /\ NoLock \/ (GetLock /\ file.state = "broken")
        /\ failed' = [failed EXCEPT ![p] = TRUE]
        /\ UNCHANGED mem

\* ensureFileExists() looks for the file, ...
Launch(p) ==
  /\ up[p] = "off"
  /\ IF file.state = "absent"
       THEN up' = [up EXCEPT ![p] = "creating"] /\ UNCHANGED <<lockVars, mem, failed>>
       ELSE up' = [up EXCEPT ![p] = "on"] /\ Reload(p)
  /\ UNCHANGED <<file, task, serverVars, orphaned, faults>>

\* ... and makes it, without the lock.
Create(p) ==
  /\ up[p] = "creating"
  /\ file' = Whole(Empty)
  /\ up' = [up EXCEPT ![p] = "loading"]
  /\ UNCHANGED <<lockVars, mem, failed, task, serverVars, orphaned, faults>>

Load(p) ==
  /\ up[p] = "loading"
  /\ Reload(p)
  /\ up' = [up EXCEPT ![p] = "on"]
  /\ UNCHANGED <<file, task, serverVars, orphaned, faults>>

-----------------------------------------------------------------------------
(* set(), remove(): memory first, then the file.                           *)

\* Bug: what is in memory is written, not what is in the file.
FromMemory(creds, data) == data
Current(creds, data) == creds

\* persistProviderChange(): nothing is written after a failed load, without the
\* lock, or over a file that cannot be parsed; the caller does not learn of it.
Persist(p, v, t) ==
  \/ /\ ~ failed[p] /\ GetLock /\ file.state = "ok"
     /\ file' = Whole([Current(file.creds, mem[p]) EXCEPT ![v] = t])
  \/ /\ \/ failed[p] /\ UNCHANGED stale
        \/ ~ failed[p] /\ (NoLock \/ (GetLock /\ file.state = "broken"))
     /\ UNCHANGED file

Change(p, v, t) ==
  /\ up[p] = "on"
  /\ mem' = [mem EXCEPT ![p][v] = t]
  /\ Persist(p, v, t)
  /\ UNCHANGED <<lock, lapsed, up, failed, task, expired, orphaned, faults>>

\* A provider issues its next token.
New(v) == issued[v] + 1
Issue(v, taken) ==
  /\ New(v) \in Tokens
  /\ issued' = [issued EXCEPT ![v] = New(v)]
  /\ valid' = (valid \ taken) \cup {<<v, New(v)>>}

Login(p, v) == Issue(v, {}) /\ Change(p, v, New(v))

Logout(p, v) ==
  /\ mem[p][v] # None
  /\ Change(p, v, None)
  /\ UNCHANGED <<issued, valid>>

-----------------------------------------------------------------------------
(* getApiKey(), refreshOAuthTokenWithLock().                               *)

Becomes(p, v, s) == task' = [task EXCEPT ![<<p, v>>] = s]
Goes(p, v, phase) == Becomes(p, v, [task[<<p, v>>] EXCEPT !.phase = phase])
At(p, v, phase) == up[p] = "on" /\ task[<<p, v>>].phase = phase

\* The token in memory has expired: a refresh is begun.  Bound: one at a time in a
\* process, as its requests to a model are.
Want(p, v) ==
  /\ up[p] = "on"
  /\ \A w \in Providers : task[<<p, w>>].phase = "idle"
  /\ <<v, mem[p][v]>> \in expired
  /\ Goes(p, v, "locking")
  /\ UNCHANGED <<file, lockVars, procVars, serverVars, orphaned, faults>>

\* The lock is taken and the file read again.  If the token in it is gone or has
\* been refreshed by another process, that is all, else the server is asked.
Acquire(p, v) ==
  LET creds == Current(file.creds, mem[p])
  IN  /\ At(p, v, "locking")
      /\ GetLock /\ file.state = "ok"
      /\ mem' = [mem EXCEPT ![p] = creds]
      /\ failed' = [failed EXCEPT ![p] = FALSE]
      /\ IF <<v, creds[v]>> \in expired
           THEN /\ lock' = {<<p, v>>}
                /\ Becomes(p, v, [Idle EXCEPT !.phase = "asking", !.base = creds, !.token = creds[v]])
           ELSE /\ Becomes(p, v, Idle)
                /\ UNCHANGED lock
      /\ UNCHANGED <<file, lapsed, up, serverVars, orphaned, faults>>

\* The lock is not to be had, or the file cannot be parsed.
GiveUp(p, v) ==
  /\ At(p, v, "locking")
  /\ NoLock \/ (GetLock /\ file.state = "broken")
  /\ Goes(p, v, "reload")
  /\ UNCHANGED <<file, lock, lapsed, procVars, serverVars, orphaned, faults>>

\* The server takes the token, which cannot be used again, and issues the next.
Serve(p, v) ==
  LET t == <<v, task[<<p, v>>].token>>
  IN  /\ At(p, v, "asking")
      /\ t \in valid
      /\ Issue(v, {t})
      /\ Becomes(p, v, [task[<<p, v>>] EXCEPT !.phase = "granted", !.next = New(v)])
      /\ UNCHANGED <<file, lockVars, procVars, expired, orphaned, faults>>

\* The finally of withLockAsync(), on success and on errors alike.  It removes whatever
\* lock is there: the refresh's own, or, when that has lapsed and the refresh has not
\* noticed, the one of whoever took it over.
Release(p, v) ==
  /\ lock' = {} /\ stale' = FALSE
  /\ lapsed' = (lapsed \cup lock) \ {<<p, v>>}

\* When onCompromised was called before, nothing is removed.
Noticed(p, v) ==
  /\ <<p, v>> \in lapsed \ lock
  /\ lapsed' = lapsed \ {<<p, v>>}
  /\ UNCHANGED <<lock, stale>>

InStore(creds) == {<<v, creds[v]>> : v \in {w \in Providers : creds[w] # None}}

\* The answer arrives: it goes into memory, then into the file, also when the lock has
\* lapsed and that was not noticed yet.
Answer(p, v) ==
  LET merged == [task[<<p, v>>].base EXCEPT ![v] = task[<<p, v>>].next]
  IN  /\ At(p, v, "granted")
      /\ mem' = [mem EXCEPT ![p] = merged]
      /\ failed' = [failed EXCEPT ![p] = FALSE]
      /\ file' = Whole(merged)
      /\ Release(p, v)
      /\ orphaned' = orphaned \cup IF <<p, v>> \in lapsed THEN InStore(merged) ELSE {}
      /\ Becomes(p, v, Idle)
      /\ UNCHANGED <<up, serverVars, faults>>

\* The token that a lost answer would have replaced.
Lost(v, s) == IF s.phase = "granted" THEN {<<v, s.token>>} ELSE {}

\* onCompromised was called before the answer: it goes into memory alone.
Compromised(p, v) ==
  LET s == task[<<p, v>>]
  IN  /\ At(p, v, "granted")
      /\ Noticed(p, v)
      /\ mem' = [mem EXCEPT ![p] = [s.base EXCEPT ![v] = s.next]]
      /\ failed' = [failed EXCEPT ![p] = FALSE]
      /\ orphaned' = orphaned \cup Lost(v, s)
      /\ Goes(p, v, "reload")
      /\ UNCHANGED <<file, up, serverVars, faults>>

\* The server refuses the token, or is not reached, or its answer is lost.
Refused(p, v) ==
  /\ At(p, v, "asking")
  /\ \/ <<v, task[<<p, v>>].token>> \notin valid /\ UNCHANGED faults
     \/ Fault
  /\ Release(p, v) \/ Noticed(p, v)
  /\ Goes(p, v, "reload")
  /\ UNCHANGED <<file, procVars, serverVars, orphaned>>

AnswerLost(p, v) ==
  /\ At(p, v, "granted")
  /\ Fault
  /\ Release(p, v) \/ Noticed(p, v)
  /\ orphaned' = orphaned \cup Lost(v, task[<<p, v>>])
  /\ Goes(p, v, "reload")
  /\ UNCHANGED <<file, procVars, serverVars>>

\* After an error the file is read again, for a token of another process.
Again(p, v) ==
  /\ At(p, v, "reload")
  /\ Reload(p)
  /\ Becomes(p, v, Idle)
  /\ UNCHANGED <<file, up, serverVars, orphaned, faults>>

-----------------------------------------------------------------------------
(* The world.                                                              *)

\* Bound: only of what is in the file, for a refresh looks at nothing else.
Expire(v) ==
  /\ <<v, file.creds[v]>> \in Grants \ expired
  /\ expired' = expired \cup {<<v, file.creds[v]>>}
  /\ UNCHANGED <<file, lockVars, procVars, task, valid, issued, orphaned, faults>>

\* The lock is taken for stale: its process was suspended, or the refresh takes so
\* long that a blocking access, less patient than a refresh, takes it over.
Lapse(p, v) ==
  /\ <<p, v>> \in lock
  /\ Fault
  /\ lock' = {} /\ lapsed' = lapsed \cup {<<p, v>>}
  /\ UNCHANGED <<file, stale, procVars, task, serverVars, orphaned>>

Dies(p) ==
  /\ up[p] # "off"
  /\ Fault
  /\ up' = [up EXCEPT ![p] = "off"]
  /\ mem' = [mem EXCEPT ![p] = Empty] /\ failed' = [failed EXCEPT ![p] = FALSE]
  /\ task' = [t \in Tasks |-> IF t[1] = p THEN Idle ELSE task[t]]
  /\ lapsed' = {t \in lapsed : t[1] # p}
  /\ orphaned' = orphaned \cup UNION {Lost(v, task[<<p, v>>]) : v \in Providers}
  /\ UNCHANGED serverVars

Crash(p) ==
  /\ Dies(p)
  /\ lock' = {t \in lock : t[1] # p}
  /\ stale' = (stale \/ lock' # lock)
  /\ UNCHANGED file

\* The file is truncated and written in place: what is left cannot be parsed, or
\* is empty, which reads as no credentials.
CrashInWrite(p) ==
  /\ up[p] = "on" /\ file.state = "ok"
  /\ \/ lock = {} /\ ~ failed[p]
     \/ \E v \in Providers : <<p, v>> \in lock /\ At(p, v, "granted")
  /\ Dies(p)
  /\ lock' = {} /\ stale' = TRUE
  /\ file' \in {[state |-> "broken", creds |-> Empty], Whole(Empty)}

-----------------------------------------------------------------------------
\* What a refresh does by itself.
Step(p, v) ==
  \/ Acquire(p, v) \/ GiveUp(p, v) \/ Serve(p, v) \/ Answer(p, v) \/ Compromised(p, v)
  \/ Refused(p, v) \/ AnswerLost(p, v) \/ Again(p, v)

Next ==
  \/ \E p \in Procs : Launch(p) \/ Create(p) \/ Load(p) \/ Crash(p) \/ CrashInWrite(p)
  \/ \E p \in Procs, v \in Providers :
       Login(p, v) \/ Logout(p, v) \/ Want(p, v) \/ Step(p, v) \/ Lapse(p, v)
  \/ \E v \in Providers : Expire(v)

Spec == Init /\ [][Next]_vars

-----------------------------------------------------------------------------
Files == [state : {"absent", "ok", "broken"}, creds : Stores]
Refreshes == [phase : {"idle", "locking", "asking", "granted", "reload"}, base : Stores,
              token : Tokens \cup {None}, next : Tokens \cup {None}]

TypeOK ==
  /\ file \in Files
  /\ lock \subseteq Tasks /\ stale \in BOOLEAN /\ lapsed \subseteq Tasks
  /\ up \in [Procs -> {"off", "creating", "loading", "on"}]
  /\ mem \in [Procs -> Stores] /\ failed \in [Procs -> BOOLEAN]
  /\ task \in [Tasks -> Refreshes]
  /\ valid \subseteq Grants /\ expired \subseteq Grants /\ orphaned \subseteq Grants
  /\ issued \in [Providers -> 0 .. MaxTokens]
  /\ faults \in 0 .. MaxFaults

\* A refresh token is taken once.  However many processes find it expired at once,
\* log in and out, give up and die, the token in the file is one that the provider
\* takes, or one that a refresh has just exchanged and is about to replace; it is
\* useless only if the answer to a refresh was lost, or a refresh wrote after its
\* lock had lapsed, or had been removed by another whose lock had.  So a race for a
\* lock that works never logs a user out.
FileUsable ==
  \A v \in Providers :
    LET t == file.creds[v]
    IN  \/ t = None
        \/ <<v, t>> \in valid \cup orphaned
        \/ \E p \in Procs : At(p, v, "granted") /\ task[<<p, v>>].token = t

\* No write undoes another: a change of the file is one of one provider, although
\* a refresh writes the whole file long after it was read, and each process has
\* its own old copy.  The file may be lost when a process dies in the midst of
\* writing it, or made anew under the eyes of a refresh, which then brings back
\* what it read.  And an answer whose lock has lapsed, or was removed by the release of
\* another that did not notice that its own had, may undo a login: no other write may.
ChangesOne ==
  [][\/ \E v \in Providers : \A w \in Providers \ {v} : file'.creds[w] = file.creds[w]
     \/ file.creds = Empty \/ (\E t \in lapsed : Answer(t[1], t[2]))
     \/ \E p \in Procs : Create(p) \/ CrashInWrite(p)]_vars
=============================================================================
