------------------------ MODULE JobScheduler_proofs ------------------------
(***************************************************************************)
(* The scheduler's types and the bound on the attempts it stores; and what *)
(* stays true of each job as long as no old copy of it is saved over a     *)
(* change: a running job is live, it is executed once, and it is neither   *)
(* lost nor back after its removal.  For any number of jobs and calls.     *)
(***************************************************************************)
EXTENDS JobScheduler, TLAPS

\* A record that can be tried again has an attempt left.
Sound(rec) ==
  /\ rec.attempt <= Attempts
  /\ rec.state = "queued" => rec.attempt < Attempts
  /\ rec.state = "scheduled" => rec.attempt = 0

SoundRecords == {rec \in Records : Sound(rec)}
SoundStores  == [present : SUBSET Jobs, job : [Jobs -> SoundRecords]]

AttemptInv == disk \in SoundStores /\ mem \in [Runners -> SoundStores]

\* Who executes, executes a job.
CursorInv == \A r \in Runners : pc[r] = "executing" => cur[r] \in Jobs

IInv == TypeOK /\ AttemptInv /\ CursorInv

-----------------------------------------------------------------------------
(* The operators.                                                          *)

\* There is at least one attempt.
LEMMA AttemptsType == Attempts \in Nat /\ Attempts >= 1
BY BoundsAssumption DEF Attempts

\* A sound store stays sound when a record becomes another sound one.
LEMMA WithSound ==
  ASSUME NEW s \in SoundStores, NEW j \in Jobs, NEW rec \in SoundRecords
  PROVE  With(s, j, rec) \in SoundStores
BY DEF With, SoundStores

\* A sound store is a store.
LEMMA SoundIsStore == \A s \in SoundStores : s \in Stores
BY DEF SoundStores, SoundRecords, Stores

\* Saving a sound store leaves all stores sound.
LEMMA SaveSound ==
  ASSUME AttemptInv, NEW r \in Runners, NEW j \in Jobs, NEW s \in SoundStores, Save(r, j, s)
  PROVE  AttemptInv'
BY DEF AttemptInv, Save

\* New and resumed records have all their attempts.
LEMMA FreshSound ==
  /\ NewRecords \subseteq SoundRecords
  /\ Fresh("queued", FALSE, FALSE) \in SoundRecords
  /\ \A rec \in SoundRecords : Resumed(rec) \in SoundRecords
<1>1. \A rec \in Records : rec.attempt = 0 => rec \in SoundRecords
  BY AttemptsType DEF SoundRecords, Sound
<1>2. \A s \in {"queued", "scheduled"}, n, b \in BOOLEAN :
        Fresh(s, n, b) \in Records /\ Fresh(s, n, b).attempt = 0
  BY DEF Fresh, Records, States, Finished
<1>3. NewRecords \subseteq SoundRecords
  BY <1>1, <1>2 DEF NewRecords
<1>4. Fresh("queued", FALSE, FALSE) \in SoundRecords
  BY <1>1, <1>2
<1>5. ASSUME NEW rec \in SoundRecords PROVE Resumed(rec) \in SoundRecords
  <2>1. Resumed(rec) \in Records /\ Resumed(rec).attempt = 0
    BY DEF Resumed, SoundRecords, Records, States, Finished
  <2> QED
    BY <1>1, <2>1
<1> QED
  BY <1>3, <1>4, <1>5

\* A cancelled record is sound.
LEMMA CancelledSound ==
  \A rec \in SoundRecords : [rec EXCEPT !.state = "cancelled"] \in SoundRecords
BY DEF SoundRecords, Records, Sound, States, Finished

\* A due job has an attempt left when it becomes queued.
LEMMA MadeQueuedSound ==
  ASSUME NEW rec \in SoundRecords, rec.state \in {"queued", "scheduled"}
  PROVE  MadeQueued(rec) \in SoundRecords /\ MadeQueued(rec).state = "queued"
<1>0. rec \in Records /\ (rec.next /\ Queued(rec)) \in BOOLEAN
  BY DEF SoundRecords
<1>1. /\ MadeQueued(rec) \in Records /\ MadeQueued(rec).state = "queued"
      /\ MadeQueued(rec).attempt = rec.attempt
  BY <1>0 DEF MadeQueued, Records, States, Finished
<1>2. rec.attempt < Attempts
  BY AttemptsType DEF SoundRecords, Records, Sound
<1> QED
  BY <1>1, <1>2, AttemptsType DEF SoundRecords, Sound, Records

\* An execution begins with an attempt that was left.
LEMMA BegunSound ==
  ASSUME NEW rec \in SoundRecords, rec.state = "queued"
  PROVE  Begun(rec) \in SoundRecords
<1>0. rec \in Records /\ rec.attempt + 1 \in Nat
  BY DEF SoundRecords, Records
<1>1. /\ Begun(rec) \in Records /\ Begun(rec).state = "running"
      /\ Begun(rec).attempt = rec.attempt + 1
  BY <1>0 DEF Begun, Records, States
<1>2. rec.attempt + 1 <= Attempts
  BY AttemptsType DEF SoundRecords, Records, Sound
<1>3. Sound(Begun(rec))
  BY <1>1, <1>2 DEF Sound
<1> QED
  BY <1>1, <1>3 DEF SoundRecords

\* An execution ends with an attempt left, or for good.
LEMMA SettledSound ==
  ASSUME NEW rec \in SoundRecords
  PROVE  Completed(rec) \cup {Failed(rec)} \subseteq SoundRecords
<1>1. Failed(rec) \in SoundRecords
  <2>1. /\ Failed(rec) \in Records /\ Failed(rec).attempt = rec.attempt
        /\ Failed(rec).state = IF RetriesLeft(rec) THEN "queued" ELSE "failed"
    BY DEF Failed, SoundRecords, Records, States, Finished
  <2>2. RetriesLeft(rec) => rec.attempt < Attempts
    BY BoundsAssumption DEF RetriesLeft, Attempts, SoundRecords, Records
  <2> QED
    BY <2>1, <2>2 DEF SoundRecords, Sound
<1>2. [rec EXCEPT !.state = "completed"] \in SoundRecords
  BY DEF SoundRecords, Records, Sound, States, Finished
<1>3. [rec EXCEPT !.state = "scheduled", !.next = TRUE, !.attempt = 0] \in SoundRecords
  <2> DEFINE new == [rec EXCEPT !.state = "scheduled", !.next = TRUE, !.attempt = 0]
  <2>1. new \in Records /\ new.attempt = 0 /\ new.state = "scheduled"
    BY DEF SoundRecords, Records, States, Finished
  <2> HIDE DEF new
  <2>2. new \in SoundRecords
    BY <2>1, AttemptsType DEF SoundRecords, Sound
  <2> QED
    BY <2>2 DEF new
<1> QED
  BY <1>1, <1>2, <1>3 DEF Completed

-----------------------------------------------------------------------------
(* Types and attempts.                                                     *)

\* Every step leaves all records sound.
LEMMA AttemptInductive == IInv /\ [Next]_vars => AttemptInv'
<1> SUFFICES ASSUME IInv, [Next]_vars PROVE AttemptInv'
  OBVIOUS
<1>0. TypeOK /\ AttemptInv /\ CursorInv /\ disk \in SoundStores
  BY DEF IInv, AttemptInv
<1>1. CASE Enqueue
  <2>1. count + 1 \in Jobs
    BY <1>0, <1>1, BoundsAssumption DEF Enqueue, TypeOK, Jobs
  <2>2. disk' \in SoundStores
    BY <1>0, <1>1, <2>1, FreshSound DEF Enqueue, SoundStores
  <2> QED
    BY <1>0, <1>1, <2>2 DEF Enqueue, AttemptInv, runnerVars
<1>2. ASSUME NEW j \in Jobs, Cancel(j) PROVE AttemptInv'
  <2>1. disk.job[j] \in SoundRecords
    BY <1>0 DEF SoundStores
  <2>2. disk' \in SoundStores
    BY <1>0, <1>2, <2>1, CancelledSound, WithSound DEF Cancel
  <2> QED
    BY <1>0, <1>2, <2>2 DEF Cancel, Command, AttemptInv, runnerVars
<1>3. ASSUME NEW j \in Jobs, Resume(j) PROVE AttemptInv'
  <2>1. disk.job[j] \in SoundRecords
    BY <1>0 DEF SoundStores
  <2>2. disk' \in SoundStores
    BY <1>0, <1>3, <2>1, FreshSound, WithSound DEF Resume
  <2> QED
    BY <1>0, <1>3, <2>2 DEF Resume, Command, AttemptInv, runnerVars
<1>4. ASSUME NEW j \in Jobs, Remove(j) PROVE AttemptInv'
  <2>1. disk' \in SoundStores
    BY <1>0, <1>4 DEF Remove, SoundStores
  <2> QED
    BY <1>0, <1>4, <2>1 DEF Remove, Command, AttemptInv, runnerVars
<1>5. ASSUME NEW r \in Runners, RunDueStarts(r) PROVE AttemptInv'
  BY <1>0, <1>5 DEF RunDueStarts, Loaded, AttemptInv
<1>6. ASSUME NEW r \in Runners, NEW j \in Jobs, Execute(r, j) PROVE AttemptInv'
  <2> DEFINE rec == mem[r].job[j]
  <2>1. mem[r] \in SoundStores /\ rec \in SoundRecords
    BY <1>0 DEF AttemptInv, SoundStores
  <2>2. rec.state \in {"queued", "scheduled"}
    BY <1>6 DEF Execute, IsNext, Queued, MayBeDue
  <2>3. With(mem[r], j, Begun(MadeQueued(rec))) \in SoundStores
    BY <2>1, <2>2, MadeQueuedSound, BegunSound, WithSound
  <2> QED
    BY <1>0, <1>6, <2>3, SaveSound DEF Execute
<1>8. ASSUME NEW r \in Runners, RunDueReturns(r) PROVE AttemptInv'
  <2>1. EmptyStore \in SoundStores
    BY FreshSound DEF EmptyStore, SoundStores
  <2> QED
    BY <1>0, <1>8, <2>1 DEF RunDueReturns, AttemptInv
<1>9. ASSUME NEW r \in Runners, Settle(r) PROVE AttemptInv'
  <2> DEFINE rec == mem[r].job[cur[r]]
  <2>0. cur[r] \in Jobs
    BY <1>0, <1>9 DEF Settle, CursorInv
  <2>1. mem[r] \in SoundStores /\ rec \in SoundRecords
    BY <1>0, <2>0 DEF AttemptInv, SoundStores
  <2>2. PICK new \in Completed(rec) \cup {Failed(rec)} : Save(r, cur[r], With(mem[r], cur[r], new))
    BY <1>9 DEF Settle
  <2>3. With(mem[r], cur[r], new) \in SoundStores
    BY <2>0, <2>1, <2>2, SettledSound, WithSound
  <2> QED
    BY <1>0, <2>0, <2>2, <2>3, SaveSound
<1>10. CASE Crash
  <2>1. EmptyStore \in SoundStores
    BY FreshSound DEF EmptyStore, SoundStores
  <2> QED
    BY <1>0, <1>10, <2>1 DEF Crash, AttemptInv
<1>11. CASE UNCHANGED vars
  BY <1>0, <1>11 DEF vars, runnerVars, AttemptInv
<1> QED
  BY <1>1, <1>2, <1>3, <1>4, <1>5, <1>6, <1>8, <1>9, <1>10, <1>11 DEF Next, Walk

\* The sets of jobs that the history holds stay sets of jobs.
LEMMA MissedType ==
  ASSUME behind \in [Runners -> SUBSET Jobs], NEW R, NEW J \in SUBSET Jobs, Missed(R, J)
  PROVE  behind' \in [Runners -> SUBSET Jobs]
BY DEF Missed

\* The other variables keep their types, and executing calls have a job.
LEMMA TypeInductive == IInv /\ [Next]_vars => TypeOK' /\ CursorInv'
<1> SUFFICES ASSUME IInv, [Next]_vars PROVE TypeOK' /\ CursorInv'
  OBVIOUS
<1>0. TypeOK /\ CursorInv
  BY DEF IInv
<1>1. disk' \in Stores /\ mem' \in [Runners -> Stores]
  BY AttemptInductive, SoundIsStore DEF AttemptInv
<1> USE DEF TypeOK, CursorInv
<1>2. CASE Enqueue
  <2>1. count + 1 \in Jobs /\ count' = count + 1
    BY <1>0, <1>2, BoundsAssumption DEF Enqueue, Jobs
  <2>2. behind' \in [Runners -> SUBSET Jobs]
    BY <1>0, <1>2, <2>1, MissedType DEF Enqueue
  <2> QED
    BY <1>0, <1>1, <1>2, <2>1, <2>2, BoundsAssumption DEF Enqueue, runnerVars
<1>3. ASSUME NEW j \in Jobs, Cancel(j) \/ Resume(j) \/ Remove(j) PROVE TypeOK' /\ CursorInv'
  <2>1. Command(j)
    BY <1>3 DEF Cancel, Resume, Remove
  <2>2. commands' \in 0 .. MaxCommands
    BY <1>0, <2>1, BoundsAssumption DEF Command
  <2>3. behind' \in [Runners -> SUBSET Jobs]
    BY <1>0, <2>1, MissedType DEF Command
  <2>4. restarted' \subseteq Jobs /\ interrupted' \subseteq Jobs /\ gone' \subseteq Jobs
    BY <1>0, <1>3 DEF Cancel, Resume, Remove
  <2>5. UNCHANGED <<runnerVars, count, overwritten, crashes>>
    BY <2>1 DEF Command
  <2> QED
    BY <1>0, <1>1, <2>2, <2>3, <2>4, <2>5 DEF runnerVars
<1>4. ASSUME NEW r \in Runners, RunDueStarts(r) PROVE TypeOK' /\ CursorInv'
  <2>1. disk.present \subseteq Jobs
    BY <1>0 DEF Stores
  <2> QED
    BY <1>0, <1>1, <1>4, <2>1 DEF RunDueStarts, Loaded, historyVars
<1>5. ASSUME NEW r \in Runners, NEW j \in Jobs, Execute(r, j) PROVE TypeOK' /\ CursorInv'
  <2>1. behind' \in [Runners -> SUBSET Jobs] /\ overwritten' \subseteq Jobs
    BY <1>0, <1>5, MissedType DEF Execute, Save
  <2> QED
    BY <1>0, <1>1, <1>5, <2>1 DEF Execute, Rest
<1>7. ASSUME NEW r \in Runners, RunDueReturns(r) PROVE TypeOK' /\ CursorInv'
  BY <1>0, <1>1, <1>7 DEF RunDueReturns
<1>8. ASSUME NEW r \in Runners, Settle(r) PROVE TypeOK' /\ CursorInv'
  <2>1. cur[r] \in Jobs
    BY <1>0, <1>8 DEF Settle
  <2>2. behind' \in [Runners -> SUBSET Jobs] /\ overwritten' \subseteq Jobs
    BY <1>0, <1>8, <2>1, MissedType DEF Settle, Save
  <2> QED
    BY <1>0, <1>1, <1>8, <2>2 DEF Settle
<1>9. CASE Crash
  <2>0. 1 .. count \subseteq Jobs
    BY <1>0, BoundsAssumption DEF Jobs
  <2>1. gone' \subseteq Jobs
    BY <1>0, <1>9, <2>0 DEF Crash
  <2> QED
    BY <1>0, <1>1, <1>9, <2>1, BoundsAssumption DEF Crash
<1>10. CASE UNCHANGED vars
  BY <1>0, <1>1, <1>10 DEF vars, runnerVars, historyVars
<1> QED
  BY <1>2, <1>3, <1>4, <1>5, <1>7, <1>8, <1>9, <1>10 DEF Next, Walk

\* The inductive invariant holds in every reachable state.
THEOREM Invariance == Spec => []IInv
<1>1. Init => IInv
  <2> SUFFICES ASSUME Init PROVE IInv
    OBVIOUS
  <2>1. EmptyStore \in SoundStores /\ EmptyStore \in Stores
    BY FreshSound, SoundIsStore DEF EmptyStore, SoundStores
  <2> QED
    BY <2>1, BoundsAssumption DEF Init, IInv, TypeOK, AttemptInv, CursorInv
<1>2. IInv /\ [Next]_vars => IInv'
  BY AttemptInductive, TypeInductive DEF IInv
<1> QED
  BY <1>1, <1>2, PTL DEF Spec

\* The scheduler is well typed.
THEOREM TypeCorrect == Spec => []TypeOK
<1>1. IInv => TypeOK
  BY DEF IInv
<1> QED
  BY <1>1, Invariance, PTL

\* The attempt counter of every record in the file stays within maxRetries,
\* however many copies of the file are saved, in any order with cancels, resumes,
\* removals and crashes.
THEOREM AttemptsBoundedHolds == Spec => []AttemptsBounded
<1>1. IInv => AttemptsBounded
  BY DEF IInv, AttemptInv, SoundStores, SoundRecords, Sound, AttemptsBounded
<1> QED
  BY <1>1, Invariance, PTL

-----------------------------------------------------------------------------
(* Jobs of which no old copy was saved over a change.                      *)

\* All jobs that are anywhere have been enqueued.
CountInv ==
  /\ disk.present \subseteq 1 .. count /\ gone \subseteq 1 .. count
  /\ \A r \in Runners : todo[r] \subseteq 1 .. count /\ mem[r].present \subseteq 1 .. count
  /\ \A r \in Runners : pc[r] = "executing" => cur[r] \in 1 .. count

\* Copy s has of job j what copy t has.
Agree(s, t, j) == s.job[j] = t.job[j] /\ (j \in s.present <=> j \in t.present)

\* A call has of every job what is in the file, but for those changed since.
CopyInv ==
  \A r \in Runners : Active(r) => \A j \in Jobs \ behind[r] : Agree(mem[r], disk, j)

\* A job in flight that was not resumed meanwhile is running or cancelled in the
\* file, so that no call that loads it takes it.
FlightInv ==
  \A r \in Runners :
    pc[r] = "executing" /\ cur[r] \notin restarted \cup overwritten
      => disk.job[cur[r]].state \in {"running", "cancelled"}

FInv == CountInv /\ CopyInv /\ FlightInv /\ OneExecution /\ RunningIsLive /\ JobsKept

\* What an execution leaves behind is not running.
LEMMA SettledNotRunning ==
  ASSUME NEW rec \in Records, NEW new \in Completed(rec) \cup {Failed(rec)}
  PROVE  new \in Records /\ new.state # "running"
<1>1. Failed(rec) \in Records /\ Failed(rec).state # "running"
  BY DEF Failed, Records, States, Finished
<1>2. \A x \in Completed(rec) : x \in Records /\ x.state # "running"
  <2>1. [rec EXCEPT !.state = "completed"] \in Records
    BY DEF Records, States, Finished
  <2>2. [rec EXCEPT !.state = "scheduled", !.next = TRUE, !.attempt = 0] \in Records
    BY DEF Records, States
  <2>3. [rec EXCEPT !.state = "completed"].state = "completed"
    BY DEF Records
  <2>4. [rec EXCEPT !.state = "scheduled", !.next = TRUE, !.attempt = 0].state = "scheduled"
    BY DEF Records
  <2> QED
    BY <2>1, <2>2, <2>3, <2>4 DEF Completed
<1> QED
  BY <1>1, <1>2

\* Changing one record changes neither the others nor who is present.
LEMMA WithFields ==
  ASSUME NEW s \in Stores, NEW j \in Jobs, NEW rec \in Records
  PROVE  /\ With(s, j, rec).present = s.present
         /\ With(s, j, rec).job[j] = rec
         /\ \A i \in Jobs : i # j => With(s, j, rec).job[i] = s.job[i]
BY DEF With, Stores

\* An execution begins with a record in state running.
LEMMA BegunRuns ==
  ASSUME NEW rec \in Records
  PROVE  Begun(MadeQueued(rec)) \in Records /\ Begun(MadeQueued(rec)).state = "running"
<1>1. (rec.next /\ Queued(rec)) \in BOOLEAN
  BY DEF Queued, Records
<1>2. MadeQueued(rec) \in Records
  BY <1>1 DEF MadeQueued, Records, States
<1>3. MadeQueued(rec).attempt + 1 \in Nat
  BY <1>2 DEF Records
<1> QED
  BY <1>2, <1>3 DEF Begun, Records, States

\* A call that saves its copy with one record changed leaves the file as it was
\* for all jobs but that one and those that are overwritten.
LEMMA SaveFrame ==
  ASSUME TypeOK, CopyInv, NEW r \in Runners, Active(r), NEW j \in Jobs, NEW rec \in Records,
         Save(r, j, With(mem[r], j, rec))
  PROVE  /\ disk'.job[j] = rec /\ disk'.present = mem[r].present
         /\ overwritten \subseteq overwritten'
         /\ j \notin overwritten' => mem[r].job[j] = disk.job[j]
         /\ \A i \in Jobs \ overwritten' : i # j => disk'.job[i] = disk.job[i]
         /\ \A i \in Jobs \ overwritten' : i \in disk'.present <=> i \in disk.present
         /\ \A q \in Runners : q = r \/ Active(q) =>
              \A i \in Jobs \ behind'[q] : Agree(mem'[q], disk', i)
<1> DEFINE s == With(mem[r], j, rec)
<1>1. /\ mem[r] \in Stores /\ disk' = s /\ mem' = [mem EXCEPT ![r] = s]
      /\ overwritten' = overwritten \cup behind[r]
      /\ behind' = [q \in Runners |-> IF q \in {r} THEN {}
                      ELSE IF Active(q) THEN behind[q] \cup (behind[r] \cup {j}) ELSE behind[q]]
  BY DEF TypeOK, Save, Missed
<1>2. /\ s.present = mem[r].present /\ s.job[j] = rec
      /\ \A i \in Jobs : i # j => s.job[i] = mem[r].job[i]
  BY <1>1, WithFields
<1> HIDE DEF s
<1>3. \A i \in Jobs \ overwritten' : Agree(mem[r], disk, i)
  BY <1>1 DEF CopyInv
<1>4. ASSUME NEW q \in Runners, q = r \/ Active(q), NEW i \in Jobs \ behind'[q]
      PROVE  Agree(mem'[q], disk', i)
  <2>1. CASE q = r
    BY <1>1, <2>1 DEF TypeOK, Agree
  <2>2. CASE q # r
    <3>1. i \notin behind[q] /\ i \notin behind[r] /\ i # j /\ mem'[q] = mem[q]
      BY <1>1, <1>4, <2>2 DEF TypeOK
    <3>2. Agree(mem[q], disk, i) /\ Agree(mem[r], disk, i)
      BY <1>4, <2>2, <3>1 DEF CopyInv
    <3> QED
      BY <1>1, <1>2, <3>1, <3>2 DEF Agree
  <2> QED
    BY <2>1, <2>2
<1> QED
  BY <1>1, <1>2, <1>3, <1>4 DEF Agree

\* A command that changes one job leaves it to the others to be behind.
LEMMA CommandCopies ==
  ASSUME TypeOK, CopyInv, NEW j \in Jobs, Missed({}, {j}), UNCHANGED <<mem, pc>>,
         \A i \in Jobs : i # j => Agree(disk', disk, i)
  PROVE  CopyInv'
<1> SUFFICES ASSUME NEW r \in Runners, Active(r)', NEW i \in Jobs \ behind'[r]
             PROVE  Agree(mem'[r], disk', i)
  BY DEF CopyInv
<1>1. Active(r) /\ behind'[r] = behind[r] \cup {j}
  BY DEF Missed, Active
<1>2. i # j /\ Agree(mem[r], disk, i)
  BY <1>1 DEF CopyInv
<1> QED
  BY <1>2 DEF Agree

\* No step but the saving of an old copy takes a job in flight, loses a job, or
\* leaves one running.
LEMMA FlightInductive == IInv /\ FInv /\ [Next]_vars => FInv'
<1> SUFFICES ASSUME IInv, FInv, [Next]_vars PROVE FInv'
  OBVIOUS
<1>0. /\ TypeOK /\ TypeOK' /\ CursorInv /\ CopyInv /\ disk \in Stores /\ disk' \in Stores
      /\ mem \in [Runners -> Stores] /\ \A j \in Jobs : disk.job[j] \in Records
  BY TypeInductive DEF IInv, TypeOK, Stores, FInv
<1> USE DEF FInv, CountInv, FlightInv, OneExecution, RunningIsLive, InFlight, JobsKept
<1>1. CASE Enqueue
  <2>1. /\ disk'.present = disk.present \cup {count + 1} /\ count' = count + 1
        /\ \A i \in Jobs : i # count + 1 => disk'.job[i] = disk.job[i]
    BY <1>0, <1>1 DEF Enqueue, Stores
  <2>2. count + 1 \in Jobs /\ count \in Nat
    BY <1>0, <1>1, BoundsAssumption DEF Enqueue, TypeOK, Jobs
  <2>3. disk'.job[count + 1].state # "running"
    BY <1>0, <1>1, <2>2 DEF Enqueue, Stores, NewRecords, Fresh
  <2>4. /\ UNCHANGED <<mem, pc, todo, cur, overwritten, restarted, interrupted, gone>>
        /\ Missed({}, {count + 1})
    BY <1>1 DEF Enqueue, runnerVars
  <2>5. CountInv' /\ JobsKept'
    BY <2>1, <2>2, <2>4
  <2>6. CopyInv'
    BY <1>0, <2>1, <2>2, <2>4, CommandCopies DEF Agree
  <2>7. FlightInv' /\ OneExecution'
    BY <1>0, <2>1, <2>2, <2>4 DEF CursorInv
  <2>8. RunningIsLive'
    BY <1>0, <2>1, <2>3, <2>4 DEF Stores
  <2> QED
    BY <2>5, <2>6, <2>7, <2>8
<1>2. ASSUME NEW j \in Jobs, Cancel(j) PROVE FInv'
  <2>1. [disk.job[j] EXCEPT !.state = "cancelled"] \in Records
    BY <1>0 DEF Records, States, Finished
  <2>2. /\ disk'.present = disk.present /\ disk'.job[j].state = "cancelled"
        /\ \A i \in Jobs : i # j => disk'.job[i] = disk.job[i]
    BY <1>0, <1>2, <2>1, WithFields DEF Cancel, Records
  <2>3. /\ UNCHANGED <<mem, pc, todo, cur, count, overwritten, restarted, gone>>
        /\ Missed({}, {j}) /\ interrupted' = interrupted \ {j}
    BY <1>2 DEF Cancel, Command, runnerVars
  <2>4. CopyInv'
    BY <1>0, <2>2, <2>3, CommandCopies DEF Agree
  <2>5. RunningIsLive'
    BY <1>0, <2>2, <2>3 DEF Stores
  <2> QED
    BY <1>0, <2>2, <2>3, <2>4, <2>5 DEF CursorInv, Stores
<1>3. ASSUME NEW j \in Jobs, Resume(j) PROVE FInv'
  <2>1. Resumed(disk.job[j]) \in Records /\ Resumed(disk.job[j]).state = "queued"
    BY <1>0 DEF Resumed, Records, States
  <2>2. /\ disk'.present = disk.present /\ disk'.job[j].state = "queued"
        /\ \A i \in Jobs : i # j => disk'.job[i] = disk.job[i]
    BY <1>0, <1>3, <2>1, WithFields DEF Resume
  <2>3. /\ UNCHANGED <<mem, pc, todo, cur, count, overwritten, interrupted, gone>>
        /\ Missed({}, {j}) /\ restarted \subseteq restarted'
        /\ InFlight(j) => j \in restarted'
    BY <1>3 DEF Resume, Command, runnerVars
  <2>4. CopyInv'
    BY <1>0, <2>2, <2>3, CommandCopies DEF Agree
  <2>5. RunningIsLive'
    BY <1>0, <2>2, <2>3 DEF Stores
  <2> QED
    BY <1>0, <2>2, <2>3, <2>4, <2>5 DEF CursorInv, Stores
<1>4. ASSUME NEW j \in Jobs, Remove(j) PROVE FInv'
  <2>1. disk'.present = disk.present \ {j} /\ disk'.job = disk.job /\ j \in disk.present
    BY <1>0, <1>4 DEF Remove, Command, Stores
  <2>2. /\ UNCHANGED <<mem, pc, todo, cur, count, overwritten, restarted, interrupted>>
        /\ Missed({}, {j}) /\ gone' = gone \cup {j}
    BY <1>4 DEF Remove, Command, runnerVars
  <2>3. CopyInv'
    BY <1>0, <2>1, <2>2, CommandCopies DEF Agree
  <2> QED
    BY <2>1, <2>2, <2>3
<1>5. ASSUME NEW r \in Runners, RunDueStarts(r) PROVE FInv'
  <2>1. /\ UNCHANGED <<disk, cur, count, behind, overwritten, restarted, interrupted, gone>>
        /\ pc[r] = "off" /\ pc' = [pc EXCEPT ![r] = "walking"]
        /\ mem' = [mem EXCEPT ![r] = disk] /\ todo' = [todo EXCEPT ![r] = disk.present]
    BY <1>5 DEF RunDueStarts, Loaded, historyVars
  <2>2. CopyInv'
    BY <1>0, <2>1 DEF CopyInv, Agree, Active, TypeOK
  <2> QED
    BY <1>0, <2>1, <2>2 DEF TypeOK
<1>6. ASSUME NEW r \in Runners, NEW j \in Jobs, Execute(r, j) PROVE FInv'
  <2> DEFINE new == Begun(MadeQueued(mem[r].job[j]))
  <2>1. new \in Records /\ new.state = "running"
    BY <1>0, BegunRuns DEF Stores
  <2>2. Save(r, j, With(mem[r], j, new)) /\ Active(r) /\ pc[r] = "walking"
    BY <1>6 DEF Execute, Active
  <2> HIDE DEF new
  <2>3. /\ disk'.job[j] = new /\ disk'.present = mem[r].present
        /\ overwritten \subseteq overwritten'
        /\ j \notin overwritten' => mem[r].job[j] = disk.job[j]
        /\ \A i \in Jobs \ overwritten' : i # j => disk'.job[i] = disk.job[i]
        /\ \A i \in Jobs \ overwritten' : i \in disk'.present <=> i \in disk.present
        /\ \A q \in Runners : q = r \/ Active(q) =>
             \A i \in Jobs \ behind'[q] : Agree(mem'[q], disk', i)
    BY <1>0, <2>1, <2>2, SaveFrame
  <2>4. mem[r].job[j].state \in {"queued", "scheduled"} /\ j \in todo[r]
    BY <1>6 DEF Execute, IsNext, Queued, MayBeDue
  <2>5. /\ pc' = [pc EXCEPT ![r] = "executing"] /\ cur' = [cur EXCEPT ![r] = j]
        /\ todo' = [todo EXCEPT ![r] = Rest(@, j)]
        /\ UNCHANGED <<count, restarted, interrupted, gone>>
    BY <1>6 DEF Execute
  <2>6. \A q \in Runners : pc[q] = "executing" /\ cur[q] = j => j \in restarted \cup overwritten'
    BY <2>3, <2>4
  <2>7. CountInv'
    <3>1. \A q \in Runners : mem'[q] = IF q = r THEN disk' ELSE mem[q]
      BY <1>0, <2>2 DEF Save
    <3>2. j \in 1 .. count /\ \A q \in Runners : todo'[q] \subseteq todo[q]
      BY <1>0, <2>4, <2>5 DEF TypeOK, Rest
    <3>3. \A q \in Runners : pc'[q] = "executing" => cur'[q] \in 1 .. count
      BY <1>0, <2>5, <3>2 DEF TypeOK
    <3> QED
      BY <2>3, <2>5, <3>1, <3>2, <3>3
  <2>8. CopyInv'
    BY <1>0, <2>3, <2>5 DEF CopyInv, Active, TypeOK
  <2>9. OneExecution'
    BY <1>0, <2>3, <2>5, <2>6 DEF TypeOK
  <2>10. FlightInv'
    BY <1>0, <2>1, <2>3, <2>5, <2>6 DEF TypeOK, CursorInv
  <2>11. RunningIsLive'
    <3> SUFFICES ASSUME NEW i \in disk'.present \ overwritten', disk'.job[i].state = "running",
                        i \notin interrupted
                 PROVE  \E q \in Runners : pc'[q] = "executing" /\ cur'[q] = i
      BY <2>5
    <3>0. i \in Jobs
      BY <1>0 DEF Stores
    <3>1. CASE i = j
      BY <1>0, <2>5, <3>1 DEF TypeOK
    <3>2. CASE i # j
      <4>1. PICK q \in Runners : pc[q] = "executing" /\ cur[q] = i
        BY <2>3, <3>0, <3>2
      <4> QED
        BY <1>0, <2>2, <2>5, <4>1 DEF TypeOK
    <3> QED
      BY <3>1, <3>2
  <2>12. JobsKept'
    BY <1>0, <2>3, <2>5, BoundsAssumption DEF TypeOK, Jobs
  <2> QED
    BY <2>7, <2>8, <2>9, <2>10, <2>11, <2>12
<1>7. ASSUME NEW r \in Runners, RunDueReturns(r) PROVE FInv'
  <2>1. /\ UNCHANGED <<disk, cur, count, overwritten, restarted, interrupted, gone>>
        /\ pc[r] = "walking" /\ pc' = [pc EXCEPT ![r] = "returned"]
        /\ mem' = [mem EXCEPT ![r] = EmptyStore] /\ todo' = [todo EXCEPT ![r] = {}]
        /\ behind' = [behind EXCEPT ![r] = {}]
    BY <1>7 DEF RunDueReturns
  <2>2. CopyInv'
    BY <1>0, <2>1 DEF CopyInv, Active, TypeOK
  <2>3. CountInv'
    BY <1>0, <2>1 DEF TypeOK, EmptyStore
  <2> QED
    BY <1>0, <2>1, <2>2, <2>3 DEF TypeOK
<1>8. ASSUME NEW r \in Runners, Settle(r) PROVE FInv'
  <2> DEFINE j == cur[r]
  <2>1. j \in Jobs /\ pc[r] = "executing" /\ Active(r)
    BY <1>0, <1>8 DEF Settle, CursorInv, Active
  <2>2. PICK new \in Completed(mem[r].job[j]) \cup {Failed(mem[r].job[j])} :
          Save(r, j, With(mem[r], j, new))
    BY <1>8 DEF Settle
  <2>3. new \in Records /\ new.state # "running"
    <3>1. mem[r].job[j] \in Records
      BY <1>0, <2>1 DEF Stores
    <3> QED
      BY <2>2, <3>1, SettledNotRunning
  <2>4. /\ disk'.job[j] = new /\ disk'.present = mem[r].present
        /\ overwritten \subseteq overwritten'
        /\ \A i \in Jobs \ overwritten' : i # j => disk'.job[i] = disk.job[i]
        /\ \A i \in Jobs \ overwritten' : i \in disk'.present <=> i \in disk.present
        /\ \A q \in Runners : q = r \/ Active(q) =>
             \A i \in Jobs \ behind'[q] : Agree(mem'[q], disk', i)
    BY <1>0, <2>1, <2>2, <2>3, SaveFrame
  <2>5. /\ pc' = [pc EXCEPT ![r] = "walking"] /\ cur' = [cur EXCEPT ![r] = NoJob]
        /\ UNCHANGED <<todo, count, restarted, interrupted, gone>>
    BY <1>8 DEF Settle
  <2>6. \A q \in Runners : pc'[q] = "executing" =>
          pc[q] = "executing" /\ cur'[q] = cur[q] /\ q # r
    BY <1>0, <2>5 DEF TypeOK
  <2>7. CountInv'
    <3>1. \A q \in Runners : mem'[q] = IF q = r THEN disk' ELSE mem[q]
      BY <1>0, <2>2 DEF Save
    <3> QED
      BY <2>4, <2>5, <2>6, <3>1
  <2>8. CopyInv'
    BY <1>0, <2>4, <2>5 DEF CopyInv, Active, TypeOK
  <2>9. OneExecution'
    BY <2>4, <2>5, <2>6
  <2>10. FlightInv'
    BY <1>0, <2>1, <2>4, <2>5, <2>6 DEF CursorInv
  <2>11. RunningIsLive'
    <3> SUFFICES ASSUME NEW i \in disk'.present \ overwritten', disk'.job[i].state = "running",
                        i \notin interrupted
                 PROVE  \E q \in Runners : pc'[q] = "executing" /\ cur'[q] = i
      BY <2>5
    <3>1. i # j /\ i \in Jobs
      BY <1>0, <2>3, <2>4 DEF Stores
    <3>2. PICK q \in Runners : pc[q] = "executing" /\ cur[q] = i
      BY <2>4, <3>1
    <3> QED
      BY <1>0, <2>5, <3>1, <3>2 DEF TypeOK
  <2>12. JobsKept'
    BY <1>0, <2>4, <2>5, BoundsAssumption DEF TypeOK, Jobs
  <2> QED
    BY <2>7, <2>8, <2>9, <2>10, <2>11, <2>12
<1>9. CASE Crash
  <2>1. \A r \in Runners : pc'[r] # "executing" /\ ~ Active(r)'
    BY <1>0, <1>9 DEF Crash, TypeOK, Active, Quiet
  <2>2. /\ UNCHANGED <<count, overwritten>> /\ todo' = [r \in Runners |-> {}]
        /\ mem' = [r \in Runners |-> EmptyStore]
        /\ interrupted' = interrupted \cup {i \in Jobs : InFlight(i)}
    BY <1>9 DEF Crash
  <2>3. CopyInv' /\ FlightInv' /\ OneExecution'
    BY <2>1 DEF CopyInv
  <2>4. CASE disk' = disk /\ UNCHANGED gone
    <3>1. CountInv'
      BY <2>1, <2>2, <2>4 DEF EmptyStore
    <3>2. RunningIsLive'
      BY <1>0, <2>1, <2>2, <2>4 DEF Stores
    <3> QED
      BY <2>2, <2>3, <2>4, <3>1, <3>2
  <2>5. CASE disk' = EmptyStore /\ gone' = 1 .. count
    BY <2>1, <2>2, <2>3, <2>5 DEF EmptyStore
  <2> QED
    BY <1>9, <2>4, <2>5 DEF Crash
<1>10. CASE UNCHANGED vars
  BY <1>10 DEF vars, runnerVars, historyVars, CopyInv, Active
<1> QED
  BY <1>1, <1>2, <1>3, <1>4, <1>5, <1>6, <1>7, <1>8, <1>9, <1>10 DEF Next, Walk

\* FInv holds in every reachable state.
LEMMA FlightInvariance == Spec => []FInv
<1>1. Init => FInv
  <2> SUFFICES ASSUME Init PROVE FInv
    OBVIOUS
  <2>1. CountInv
    BY DEF Init, EmptyStore, CountInv
  <2> QED
    BY <2>1 DEF Init, EmptyStore, FInv, CopyInv, Active, FlightInv, OneExecution, RunningIsLive,
                JobsKept
<1> QED
  BY <1>1, FlightInductive, Invariance, PTL DEF Spec

\* No job stays running without being executed, but for those that a crash has
\* cut off or of which an old copy was saved.
THEOREM RunningIsLiveHolds == Spec => []RunningIsLive
<1>1. FInv => RunningIsLive
  BY DEF FInv
<1> QED
  BY <1>1, FlightInvariance, PTL

\* A job is never executed twice at once unless it was resumed during its
\* execution or an old copy of it was saved.
THEOREM OneExecutionHolds == Spec => []OneExecution
<1>1. FInv => OneExecution
  BY DEF FInv
<1> QED
  BY <1>1, FlightInvariance, PTL

\* A job is in the file from its enqueueing to its removal, unless an old copy
\* was saved after one of them.
THEOREM JobsAreKept == Spec => []JobsKept
<1>1. FInv => JobsKept
  BY DEF FInv
<1> QED
  BY <1>1, FlightInvariance, PTL
=============================================================================
