---------------------------- MODULE JobScheduler ----------------------------
(***************************************************************************)
(* Background jobs: packages/coding-agent/src/core/job-scheduler.ts.       *)
(*                                                                         *)
(* A scheduler reads its jobs from a file when it is made and writes all   *)
(* of them after every change.  Each /jobs command of the interactive mode *)
(* makes one of its own.  Most commands load, change and save at once;     *)
(* runDueJobs() walks over the jobs it has loaded and awaits the execution *)
(* of each due one.  Meanwhile other commands enqueue, cancel, resume and  *)
(* remove jobs in the file and other calls of runDueJobs() work on their   *)
(* copies of it; each save writes a whole copy, however old it is.  The    *)
(* process may die.                                                        *)
(***************************************************************************)
EXTENDS Naturals

CONSTANTS
  MaxJobs,      \* bound: jobs enqueued
  MaxRuns,      \* bound: calls of runDueJobs()
  MaxRetries,   \* maxRetries of every job
  MaxCommands,  \* bound: cancels, resumes, removals and crashes
  MaxCrashes    \* bound: crashes among them

ASSUME BoundsAssumption == {MaxJobs, MaxRuns, MaxRetries, MaxCommands, MaxCrashes} \subseteq Nat

Jobs     == 1 .. MaxJobs   \* in the order in which they are enqueued
Runners  == 1 .. MaxRuns   \* the calls of runDueJobs(), in their order
NoJob    == 0
Finished == {"completed", "failed", "cancelled"}
States   == Finished \cup {"queued", "scheduled", "running"}

\* A record: its state, attempt, whether nextRunAt is defined, whether it is
\* recurring.  Times are abstracted: a scheduled job may be due or not.
Records  == [state : States, attempt : Nat, next : BOOLEAN, recurring : BOOLEAN]
Stores   == [present : SUBSET Jobs, job : [Jobs -> Records]]

VARIABLES
  disk,      \* the file
  mem,       \* the store of the instance on which runDueJobs() was called
  pc,        \* where each runDueJobs() stands
  todo,      \* the jobs of its snapshot that it has not reached
  cur,       \* the job it executes
  count,     \* jobs enqueued so far
  behind,      \* history: jobs changed in the file since the copy was its content
  overwritten, \* history: jobs of which an old copy was written over a change
  restarted,   \* history: jobs resumed while they were being executed
  interrupted, \* history: jobs whose execution a crash has cut, until cancelled
  gone,        \* history: jobs removed, or lost with a file cut off by a crash
  commands, crashes

runnerVars  == <<mem, pc, todo, cur>>
historyVars == <<behind, overwritten, restarted, interrupted, gone>>
vars == <<disk, runnerVars, count, historyVars, commands, crashes>>

Fresh(s, n, r) == [state |-> s, attempt |-> 0, next |-> n, recurring |-> r]
EmptyStore == [present |-> {}, job |-> [j \in Jobs |-> Fresh("queued", FALSE, FALSE)]]

Init ==
  /\ disk = EmptyStore
  /\ mem = [r \in Runners |-> EmptyStore]
  /\ pc = [r \in Runners |-> "off"]
  /\ todo = [r \in Runners |-> {}]
  /\ cur = [r \in Runners |-> NoJob]
  /\ count = 0
  /\ behind = [r \in Runners |-> {}]
  /\ overwritten = {} /\ restarted = {} /\ interrupted = {} /\ gone = {}
  /\ commands = 0 /\ crashes = 0

-----------------------------------------------------------------------------
Active(r) == pc[r] \in {"walking", "executing"}

\* The copies of all calls but those in R miss the change of the jobs in J.
Missed(R, J) ==
  behind' = [q \in Runners |->
               IF q \in R THEN {} ELSE IF Active(q) THEN behind[q] \cup J ELSE behind[q]]

\* save() of the instance of r, which has changed job j: what the others have
\* changed since is gone.
Save(r, j, s) ==
  /\ disk' = s
  /\ mem' = [mem EXCEPT ![r] = s]
  /\ Missed({r}, behind[r] \cup {j})
  /\ overwritten' = overwritten \cup behind[r]

With(s, j, rec) == [s EXCEPT !.job[j] = rec]

InFlight(j) == \E r \in Runners : pc[r] = "executing" /\ cur[r] = j

\* No runDueJobs() is between two awaits.
Quiet == \A r \in Runners : pc[r] # "walking"

\* enqueue(): due at once, or scheduled; a schedule without a next run (an
\* interval of 0, a malformed cron expression) leaves nextRunAt undefined.
NewRecords ==
  {Fresh("queued", FALSE, FALSE), Fresh("scheduled", FALSE, FALSE)}
    \cup {Fresh("scheduled", TRUE, r) : r \in BOOLEAN}

Enqueue ==
  /\ Quiet
  /\ count < MaxJobs
  /\ count' = count + 1
  /\ \E rec \in NewRecords :
       disk' = [present |-> disk.present \cup {count + 1}, job |-> [disk.job EXCEPT ![count + 1] = rec]]
  /\ Missed({}, {count + 1})
  /\ UNCHANGED <<runnerVars, overwritten, restarted, interrupted, gone, commands, crashes>>

\* A command on one job: it loads, changes and saves with nothing in between.
Command(j) ==
  /\ Quiet
  /\ commands + crashes < MaxCommands
  /\ commands' = commands + 1
  /\ j \in disk.present
  /\ Missed({}, {j})
  /\ UNCHANGED <<runnerVars, count, overwritten, crashes>>

\* cancel(): the executor of a running job is not told.
Cancel(j) ==
  /\ Command(j)
  /\ disk.job[j].state \notin Finished
  /\ disk' = With(disk, j, [disk.job[j] EXCEPT !.state = "cancelled"])
  /\ interrupted' = interrupted \ {j}
  /\ UNCHANGED <<restarted, gone>>

Resumed(rec) == [rec EXCEPT !.state = "queued", !.next = FALSE, !.attempt = 0]

Resume(j) ==
  /\ Command(j)
  /\ disk.job[j].state \in Finished
  /\ disk' = With(disk, j, Resumed(disk.job[j]))
  /\ restarted' = IF InFlight(j) THEN restarted \cup {j} ELSE restarted
  /\ UNCHANGED <<interrupted, gone>>

\* remove(): a call that has loaded the job goes on with it.
Remove(j) ==
  /\ Command(j)
  /\ disk' = [disk EXCEPT !.present = @ \ {j}]
  /\ gone' = gone \cup {j}
  /\ UNCHANGED <<restarted, interrupted>>

-----------------------------------------------------------------------------
(* runDueJobs() and run().                                                 *)

\* Bug: finished jobs are not read.
LoadedUnfinished ==
  [disk EXCEPT !.present = {j \in disk.present : disk.job[j].state \notin Finished}]
Loaded == disk

\* The instance is made, which loads the file, and runDueJobs() is called.
RunDueStarts(r) ==
  /\ Quiet
  /\ pc[r] = "off"
  /\ \A q \in Runners : q < r => pc[q] # "off"
  /\ pc' = [pc EXCEPT ![r] = "walking"]
  /\ mem' = [mem EXCEPT ![r] = Loaded]
  /\ todo' = [todo EXCEPT ![r] = Loaded.present]
  /\ UNCHANGED <<disk, cur, count, historyVars, commands, crashes>>

\* Bug: a job that runs already is taken as well.
QueuedOrRunning(rec) == rec.state \in {"queued", "running"}
Queued(rec) == rec.state = "queued"

\* A scheduled job whose time has come; it becomes queued first.
MayBeDue(rec) == rec.state = "scheduled" /\ rec.next

\* Bug: the walk does not leave the job it has run.
RestWithCurrent(S, j) == {i \in S : i >= j}
Rest(S, j) == {i \in S : i > j}

\* The first job of the walk that is queued, or found to be due.
IsNext(r, j) ==
  /\ j \in todo[r]
  /\ Queued(mem[r].job[j]) \/ MayBeDue(mem[r].job[j])
  /\ \A i \in todo[r] : i < j => ~ Queued(mem[r].job[i])

\* nextRunAt is cleared when a scheduled job becomes queued.
MadeQueued(rec) == [rec EXCEPT !.state = "queued", !.next = @ /\ Queued(rec)]

Begun(rec) == [rec EXCEPT !.state = "running", !.attempt = @ + 1]

\* run(), up to the await of the executor.  It finds the job: the copy of a call
\* is changed by that call alone.
Execute(r, j) ==
  /\ pc[r] = "walking"
  /\ IsNext(r, j)
  /\ Save(r, j, With(mem[r], j, Begun(MadeQueued(mem[r].job[j]))))
  /\ pc' = [pc EXCEPT ![r] = "executing"]
  /\ cur' = [cur EXCEPT ![r] = j]
  /\ todo' = [todo EXCEPT ![r] = Rest(@, j)]
  /\ UNCHANGED <<count, restarted, interrupted, gone, commands, crashes>>

\* Its instance is dropped.
RunDueReturns(r) ==
  /\ pc[r] = "walking"
  /\ \A i \in todo[r] : ~ Queued(mem[r].job[i])
  /\ pc' = [pc EXCEPT ![r] = "returned"]
  /\ mem' = [mem EXCEPT ![r] = EmptyStore]
  /\ todo' = [todo EXCEPT ![r] = {}]
  /\ behind' = [behind EXCEPT ![r] = {}]
  /\ UNCHANGED <<disk, cur, count, overwritten, restarted, interrupted, gone, commands, crashes>>

\* Bug: one retry too many.
OneMoreRetry(rec) == MaxRetries >= rec.attempt
RetriesLeft(rec) == MaxRetries > rec.attempt

\* Bug: an exception of the executor leaves the state as it is.
FailedStaysRunning(rec) ==
  IF RetriesLeft(rec) THEN [rec EXCEPT !.state = "queued"] ELSE rec

\* A non-zero exit code, and an exception of the executor.
Failed(rec) == [rec EXCEPT !.state = IF RetriesLeft(rec) THEN "queued" ELSE "failed"]

\* Exit code 0; a recurring job is scheduled again if it has a next run.
Completed(rec) ==
  {[rec EXCEPT !.state = "completed"]}
    \cup IF rec.recurring
           THEN {[rec EXCEPT !.state = "scheduled", !.next = TRUE, !.attempt = 0]}
           ELSE {}

\* The executor settles: the record gets its new state and the copy of the
\* whole store is saved, whatever the file has become.
Settle(r) ==
  /\ Quiet
  /\ pc[r] = "executing"
  /\ LET rec == mem[r].job[cur[r]] IN
       \E new \in Completed(rec) \cup {Failed(rec)} : Save(r, cur[r], With(mem[r], cur[r], new))
  /\ pc' = [pc EXCEPT ![r] = "walking"]
  /\ cur' = [cur EXCEPT ![r] = NoJob]
  /\ UNCHANGED <<todo, count, restarted, interrupted, gone, commands, crashes>>

\* The process dies and the next one reads the file.  A save() that is cut off
\* leaves a file that cannot be parsed: load() starts with an empty store.
Crash ==
  /\ Quiet
  /\ crashes < MaxCrashes
  /\ commands + crashes < MaxCommands
  /\ crashes' = crashes + 1
  /\ \/ disk' = disk /\ UNCHANGED gone
     \/ disk' = EmptyStore /\ gone' = 1 .. count
  /\ interrupted' = interrupted \cup {j \in Jobs : InFlight(j)}
  /\ pc' = [r \in Runners |-> IF pc[r] = "executing" THEN "dead" ELSE pc[r]]
  /\ cur' = [r \in Runners |-> NoJob]
  /\ mem' = [r \in Runners |-> EmptyStore]
  /\ todo' = [r \in Runners |-> {}]
  /\ behind' = [r \in Runners |-> {}]
  /\ UNCHANGED <<count, overwritten, restarted, commands>>

-----------------------------------------------------------------------------
Walk(r) == (\E j \in Jobs : Execute(r, j)) \/ RunDueReturns(r)

Next ==
  \/ Enqueue
  \/ \E j \in Jobs : Cancel(j) \/ Resume(j) \/ Remove(j)
  \/ \E r \in Runners : RunDueStarts(r) \/ Walk(r) \/ Settle(r)
  \/ Crash

Spec == Init /\ [][Next]_vars

\* The commands of the jobs end, and promise reactions run.
FairSpec == Spec /\ \A r \in Runners : WF_vars(Walk(r)) /\ WF_vars(Settle(r))

-----------------------------------------------------------------------------
TypeOK ==
  /\ disk \in Stores
  /\ mem \in [Runners -> Stores]
  /\ pc \in [Runners -> {"off", "walking", "executing", "returned", "dead"}]
  /\ todo \in [Runners -> SUBSET Jobs]
  /\ cur \in [Runners -> Jobs \cup {NoJob}]
  /\ count \in 0 .. MaxJobs
  /\ behind \in [Runners -> SUBSET Jobs]
  /\ overwritten \subseteq Jobs /\ restarted \subseteq Jobs
  /\ interrupted \subseteq Jobs /\ gone \subseteq Jobs
  /\ commands \in 0 .. MaxCommands /\ crashes \in 0 .. MaxCrashes

Attempts == IF MaxRetries = 0 THEN 1 ELSE MaxRetries

\* The attempt counter of every record in the file stays within maxRetries (one
\* attempt in any case), through failures, old copies, cancels and reschedules.
\* It does not bound the executions: an old copy has an old counter.
AttemptsBounded == \A j \in Jobs : disk.job[j].attempt <= Attempts

\* A job stays in state "running" without being executed only if its process has
\* died or an old copy was saved over it: neither failures nor cancels, resumes
\* and overlapping calls alone leave one running for ever (job-scheduler.ts:303).
RunningIsLive ==
  \A j \in disk.present \ overwritten :
    disk.job[j].state = "running" => InFlight(j) \/ j \in interrupted

\* A job is executed twice at once only if it was resumed while its first
\* execution went on, or an old copy was saved over it: a call that has loaded
\* it in state "running" never takes it (job-scheduler.ts:397).
OneExecution ==
  \A r, s \in Runners :
    /\ r # s
    /\ pc[r] = "executing" /\ pc[s] = "executing"
    /\ cur[r] = cur[s]
    => cur[r] \in restarted \cup overwritten

\* A job that was enqueued is in the file until it is removed, and not after
\* that, unless a call of runDueJobs() that had loaded the file before a change
\* of the job saved its copy later (job-scheduler.ts:236).
JobsKept == \A j \in (1 .. count) \ overwritten : j \in disk.present <=> j \notin gone

\* runDueJobs() returns, also with recurring and retried jobs.
RunReturns == \A r \in Runners : pc[r] # "off" ~> pc[r] \in {"returned", "dead"}
=============================================================================
