------------------------------ MODULE Missions ------------------------------
(***************************************************************************)
(* Verified missions: packages/coding-agent/src/core/verified-autonomy.    *)
(*                                                                         *)
(* A mission is approved, which grants it a capability lease for a time,   *)
(* and then verified: its commands run one after the other, and evidence   *)
(* and a verdict are written.  Mission, evidence, leases and failures are  *)
(* files.  Each is written as a whole and without a lock, and every        *)
(* command of the user is a process of its own, so that another process    *)
(* may act between any two accesses to a file.  There is one mission here; *)
(* its commands are numbered in their order.                               *)
(***************************************************************************)
EXTENDS Naturals

CONSTANTS
  Procs,        \* the processes
  Workspaces,   \* the states of the working tree that its hash tells apart
  Errors,       \* the exit codes and messages that a fingerprint tells apart
  Commands,     \* number of commands of the mission
  Optional,     \* those that are not mandatory: git status, git diff
  MaxLeases,    \* bound: leases granted
  MaxOps,       \* bound: revocations and verifications
  MaxEdits,     \* bound: changes of the working tree
  MaxCrashes    \* bound: processes that die

ASSUME BoundsAssumption ==
  {Commands, MaxLeases, MaxOps, MaxEdits, MaxCrashes} \subseteq Nat

Leases == 1 .. MaxLeases
None   == 0

\* A criterion that is mandatory and manual stays unverified: no verdict is
\* "completed".
Verdicts == {"failed", "partially_completed"}
Statuses == {"draft", "approved", "running"} \cup Verdicts

Fingerprints == (1 .. Commands) \X Workspaces \X Errors

VARIABLES
  mission,   \* the status in the mission's file
  evidence,  \* the status in the file of its evidence, if there is one
  leases,    \* the file of leases: those in it, and which of them are revoked
  failures,  \* the failure records: none, open or resolved, by fingerprint
  tree,      \* the state of the working tree
  expired,   \* leases whose time has passed
  issued,    \* identifiers of leases made
  proc,      \* what each process does and remembers
  granted, revoked,    \* history: leases whose grant, or revocation, was written
  failed, passed,      \* history: failures on record, commands that have passed
  raced, overlapped,   \* history: two at once changed the leases, or verified
  ops, edits, crashes

disk    == <<mission, evidence, leases, failures>>
world   == <<tree, expired, issued, edits>>
history == <<granted, revoked, failed, passed, raced, overlapped>>
vars    == <<disk, world, proc, history, ops, crashes>>

LeaseFiles == [held : SUBSET Leases, revoked : SUBSET Leases]
NoLeases   == [held |-> {}, revoked |-> {}]

Run     == {"begin", "lease", "criterion", "command", "record", "verdict"}
Phases  == {"idle", "grant", "granting", "approve", "revoking"} \cup Run
Records == Fingerprints \X {"open", "resolved"}

Idle == [phase |-> "idle", copy |-> NoLeases, target |-> None, lease |-> None,
         tree |-> None, at |-> 1, bad |-> FALSE, aborted |-> FALSE, writes |-> {}]

Init ==
  /\ mission = "draft" /\ evidence = "none" /\ leases = NoLeases
  /\ failures = [f \in Fingerprints |-> "none"]
  /\ tree \in Workspaces /\ expired = {} /\ issued = 0
  /\ proc = [p \in Procs |-> Idle]
  /\ granted = {} /\ revoked = {} /\ failed = {} /\ passed = {}
  /\ raced = FALSE /\ overlapped = FALSE
  /\ ops = 0 /\ edits = 0 /\ crashes = 0

In(p, phase) == proc[p].phase = phase
Becomes(p, s) == proc' = [proc EXCEPT ![p] = s]
Goes(p, phase) == Becomes(p, [proc[p] EXCEPT !.phase = phase])
Op == ops < MaxOps /\ ops' = ops + 1

-----------------------------------------------------------------------------
(* Leases.                                                                 *)

Active == leases.held \ (leases.revoked \cup expired)

\* A second process has read the file, and will write what it read.
Racing(p) == \E q \in Procs \ {p} : proc[q].phase \in {"granting", "revoking"}

\* approveMission(): the mission is read.
Approve(p) ==
  /\ In(p, "idle")
  /\ mission \in {"draft", "approved"} \cup Verdicts
  /\ issued < MaxLeases
  /\ issued' = issued + 1
  /\ Becomes(p, [Idle EXCEPT !.phase = "grant", !.target = issued + 1])
  /\ UNCHANGED <<disk, tree, expired, edits, history, ops, crashes>>

\* createLeaseForMission(): the leases are read, ...
ReadToGrant(p) ==
  /\ In(p, "grant")
  /\ Becomes(p, [proc[p] EXCEPT !.phase = "granting", !.copy = leases])
  /\ raced' = (raced \/ Racing(p))
  /\ UNCHANGED <<disk, world, granted, revoked, failed, passed, overlapped, ops, crashes>>

\* Bug: the leases that were there before are dropped.
OnlyThis(file, l) == [held |-> {l}, revoked |-> {}]
WithLease(file, l) == [file EXCEPT !.held = @ \cup {l}]

\* ... and written with the new one, ...
Grant(p) ==
  /\ In(p, "granting")
  /\ leases' = WithLease(proc[p].copy, proc[p].target)
  /\ granted' = granted \cup {proc[p].target}
  /\ Goes(p, "approve")
  /\ UNCHANGED <<mission, evidence, failures, world, revoked, failed, passed, raced,
                 overlapped, ops, crashes>>

\* ... and the mission is approved, whatever it has become.
Approved(p) ==
  /\ In(p, "approve")
  /\ mission' = "approved"
  /\ Becomes(p, Idle)
  /\ UNCHANGED <<evidence, leases, failures, world, history, ops, crashes>>

\* revokeLease(): the leases are read, and the one is there, ...
ReadToRevoke(p, l) ==
  /\ In(p, "idle")
  /\ Op
  /\ l \in leases.held
  /\ Becomes(p, [Idle EXCEPT !.phase = "revoking", !.target = l, !.copy = leases])
  /\ raced' = (raced \/ Racing(p))
  /\ UNCHANGED <<disk, world, granted, revoked, failed, passed, overlapped, crashes>>

\* ... and written.
Revoke(p) ==
  /\ In(p, "revoking")
  /\ leases' = [proc[p].copy EXCEPT !.revoked = @ \cup {proc[p].target}]
  /\ revoked' = revoked \cup {proc[p].target}
  /\ Becomes(p, Idle)
  /\ UNCHANGED <<mission, evidence, failures, world, granted, failed, passed, raced,
                 overlapped, ops, crashes>>

-----------------------------------------------------------------------------
(* Verification.                                                           *)

\* verifyMission(): the mission is read, ...
Verify(p) ==
  /\ In(p, "idle")
  /\ Op
  /\ mission \in {"approved", "running", "partially_completed"}
  /\ Becomes(p, [Idle EXCEPT !.phase = "begin"])
  /\ overlapped' = (overlapped \/ \E q \in Procs \ {p} : proc[q].phase \in Run)
  /\ UNCHANGED <<disk, world, granted, revoked, failed, passed, raced, crashes>>

\* ... and written as running; ...
Begin(p) ==
  /\ In(p, "begin")
  /\ mission' = "running"
  /\ Goes(p, "lease")
  /\ UNCHANGED <<evidence, leases, failures, world, history, ops, crashes>>

\* ... an active lease of the mission, if there is one, and the hash of the
\* working tree are taken once for the whole run.  All leases have the scope of
\* the mission: which of them is found is of no consequence.
TakeLease(p) ==
  /\ In(p, "lease")
  /\ \E l \in IF Active = {} THEN {None} ELSE Active :
       Becomes(p, [proc[p] EXCEPT !.phase = "criterion", !.lease = l, !.tree = tree])
  /\ UNCHANGED <<disk, world, history, ops, crashes>>

\* The next criterion.
After(s) == [s EXCEPT !.phase = "criterion", !.at = @ + 1, !.writes = {}]

Command(p) == proc[p].at
Blocked(p) == \E e \in Errors : failures[<<Command(p), proc[p].tree, e>>] = "open"
Verdict(s, ok) == [After(s) EXCEPT !.bad = @ \/ (~ ok /\ s.at \notin Optional)]

\* A criterion that needs no run of its command: the run was aborted, there is no
\* lease, or the command failed before in this working tree.
Skip(p) ==
  /\ In(p, "criterion") /\ Command(p) <= Commands
  /\ \/ /\ proc[p].aborted \/ (proc[p].lease # None /\ Blocked(p))
        /\ Becomes(p, After(proc[p]))
     \/ /\ ~ proc[p].aborted /\ proc[p].lease = None
        /\ Becomes(p, Verdict(proc[p], FALSE))
  /\ UNCHANGED <<disk, world, history, ops, crashes>>

\* runCommand()
Start(p) ==
  /\ In(p, "criterion") /\ Command(p) <= Commands
  /\ ~ proc[p].aborted /\ proc[p].lease # None /\ ~ Blocked(p)
  /\ Goes(p, "command")
  /\ UNCHANGED <<disk, world, history, ops, crashes>>

\* Bug: what has passed resolves the failures of other commands, too.
AllFailures(c) == {f \in Fingerprints : failures[f] = "open"}
FailuresOf(c) == {f \in Fingerprints : f[1] = c /\ failures[f] = "open"}

\* The command passes; resolveFailuresForCommand() reads the records.
Passes(p) ==
  LET open == FailuresOf(Command(p))
      s == [proc[p] EXCEPT !.phase = "record", !.writes = {<<f, "resolved">> : f \in open}]
  IN  /\ In(p, "command") /\ ~ proc[p].aborted
      /\ Becomes(p, IF open = {} THEN After(s) ELSE s)
      /\ passed' = passed \cup {Command(p)}
      /\ UNCHANGED <<disk, world, granted, revoked, failed, raced, overlapped, ops, crashes>>

\* The command fails, takes too long, or is killed as the run is aborted;
\* recordFailure() reads the record there is.  A resolved one stays resolved.
Fails(p) ==
  /\ In(p, "command")
  /\ \E e \in Errors :
       LET f == <<Command(p), proc[p].tree, e>>
           r == IF failures[f] = "none" THEN "open" ELSE failures[f]
       IN  Becomes(p, [proc[p] EXCEPT !.phase = "record", !.writes = {<<f, r>>},
                         !.bad = @ \/ Command(p) \notin Optional])
  /\ UNCHANGED <<disk, world, history, ops, crashes>>

\* The records are written one by one.
Record(p) ==
  /\ In(p, "record")
  /\ \E r \in proc[p].writes :
       /\ failures' = [failures EXCEPT ![r[1]] = r[2]]
       /\ failed' = IF r[2] = "open" THEN failed \cup {r[1]} ELSE failed
       /\ LET s == [proc[p] EXCEPT !.writes = @ \ {r}]
          IN  Becomes(p, IF s.writes = {} THEN After(s) ELSE s)
  /\ UNCHANGED <<mission, evidence, leases, world, granted, revoked, passed, raced,
                 overlapped, ops, crashes>>

\* computeMissionStatus()
Outcome(s) == IF s.bad THEN "failed" ELSE "partially_completed"

\* Bug: a run that was aborted writes no evidence.
NoneIfAborted(s) == IF s.aborted THEN evidence ELSE Outcome(s)
Evidence(s) == Outcome(s)

\* After the last criterion, the manual one, evidence and then the mission is written.
WriteEvidence(p) ==
  /\ In(p, "criterion") /\ Command(p) > Commands
  /\ evidence' = Evidence(proc[p])
  /\ Goes(p, "verdict")
  /\ UNCHANGED <<mission, leases, failures, world, history, ops, crashes>>

WriteVerdict(p) ==
  /\ In(p, "verdict")
  /\ mission' = Outcome(proc[p])
  /\ Becomes(p, Idle)
  /\ UNCHANGED <<evidence, leases, failures, world, history, ops, crashes>>

-----------------------------------------------------------------------------
(* The world.                                                              *)

\* SIGINT is heard of while a command is awaited; a second one ends the process.
Abort(p) ==
  /\ In(p, "command") /\ ~ proc[p].aborted
  /\ Becomes(p, [proc[p] EXCEPT !.aborted = TRUE])
  /\ UNCHANGED <<disk, world, history, ops, crashes>>

Crash(p) ==
  /\ ~ In(p, "idle")
  /\ crashes < MaxCrashes /\ crashes' = crashes + 1
  /\ Becomes(p, Idle)
  /\ UNCHANGED <<disk, world, history, ops>>

Expire(l) ==
  /\ l \in granted \ expired
  /\ expired' = expired \cup {l}
  /\ UNCHANGED <<disk, tree, issued, edits, proc, history, ops, crashes>>

Edit ==
  /\ edits < MaxEdits /\ edits' = edits + 1
  /\ tree' \in Workspaces \ {tree}
  /\ UNCHANGED <<disk, expired, issued, proc, history, ops, crashes>>

-----------------------------------------------------------------------------
\* What a process does once it has begun.
Step(p) ==
  \/ ReadToGrant(p) \/ Grant(p) \/ Approved(p) \/ Revoke(p)
  \/ Begin(p) \/ TakeLease(p) \/ Skip(p) \/ Start(p) \/ Passes(p) \/ Fails(p)
  \/ Record(p) \/ WriteEvidence(p) \/ WriteVerdict(p)

Next ==
  \/ \E p \in Procs :
       \/ Step(p) \/ Approve(p) \/ Verify(p) \/ Abort(p) \/ Crash(p)
       \/ \E l \in Leases : ReadToRevoke(p, l)
  \/ \E l \in Leases : Expire(l)
  \/ Edit

Spec == Init /\ [][Next]_vars

-----------------------------------------------------------------------------
Processes ==
  [phase : Phases, copy : LeaseFiles, target : Leases \cup {None},
   lease : Leases \cup {None}, tree : Workspaces \cup {None}, at : 1 .. (Commands + 1),
   bad : BOOLEAN, aborted : BOOLEAN, writes : SUBSET Records]

TypeOK ==
  /\ mission \in Statuses /\ evidence \in Verdicts \cup {"none"}
  /\ leases \in LeaseFiles /\ failures \in [Fingerprints -> {"none", "open", "resolved"}]
  /\ tree \in Workspaces /\ expired \subseteq Leases /\ issued \in 0 .. MaxLeases
  /\ proc \in [Procs -> Processes]
  /\ granted \subseteq Leases /\ revoked \subseteq Leases
  /\ failed \subseteq Fingerprints /\ passed \subseteq 1 .. Commands
  /\ raced \in BOOLEAN /\ overlapped \in BOOLEAN
  /\ ops \in 0 .. MaxOps /\ edits \in 0 .. MaxEdits /\ crashes \in 0 .. MaxCrashes

\* All leases are in one file that is read, changed and written without a lock.
\* No lease that was granted is missing from it, and none that was revoked is
\* valid again, in spite of processes that die in between, unless two processes
\* were changing the file at once.
LeasesKept == ~ raced => granted \subseteq leases.held /\ revoked \subseteq leases.revoked

\* Evidence and verdict are two files, written one after the other by a run that
\* may die in between.  A mission has a verdict only with evidence, and that of the
\* same verdict, unless two runs have overlapped: approvals do not mix them up.
VerdictHasEvidence ==
  mission \in Verdicts => evidence # "none" /\ (~ overlapped => evidence = mission)

\* A command that has failed is not run again in the same working tree, by any
\* process, whatever other commands have done since; at least as long as it has
\* passed in no other tree either.
NoRepeat ==
  [][\A p \in Procs :
       Start(p) => \A e \in Errors :
         LET f == <<Command(p), proc[p].tree, e>>
         IN  f \in failed => f[1] \in passed]_vars

\* "Each command must run under an active capability lease." (compiler.ts:53)
CommandsLeased == [][\A p \in Procs : Start(p) => proc[p].lease \in Active]_vars
=============================================================================
