--------------------------- MODULE Missions_proofs ---------------------------
(***************************************************************************)
(* Leases, verdicts and failures of a mission stay consistent, for any     *)
(* number of processes, commands, working trees and crashes.               *)
(***************************************************************************)
EXTENDS Missions, TLAPS

\* A process is in the midst of changing the leases, or of a verification.
Changing(p) == proc[p].phase \in {"granting", "revoking"}
Running(p)  == proc[p].phase \in Run

\* A lease that is to be granted or revoked has a number, a command that runs is one
\* of the mission, and the tree of its run is known.
Bounded ==
  \A p \in Procs :
    /\ proc[p].phase \in {"grant", "granting", "revoking"} => proc[p].target \in Leases
    /\ proc[p].phase \in {"command", "record"} => proc[p].at <= Commands
    /\ proc[p].phase \in {"criterion", "command", "record", "verdict"} => proc[p].tree \in Workspaces

\* As long as no two processes have changed the leases at once, what the one that
\* is about to write has read is still what the file says.
LeaseInv ==
  ~ raced =>
    /\ granted \subseteq leases.held /\ revoked \subseteq leases.revoked
    /\ \A p \in Procs : Changing(p) => proc[p].copy = leases
    /\ \A p, q \in Procs : Changing(p) /\ Changing(q) => p = q

\* A run that is about to write its verdict has written its evidence; as long as
\* runs have not overlapped, no verdict stands while one is under way.
RunInv ==
  /\ mission \in Verdicts => evidence # "none"
  /\ \A p \in Procs : In(p, "verdict") => evidence # "none"
  /\ ~ overlapped =>
       /\ \A p, q \in Procs : Running(p) /\ Running(q) => p = q
       /\ mission \in Verdicts => evidence = mission
       /\ \A p \in Procs : In(p, "verdict") => evidence = Outcome(proc[p])
       /\ \A p \in Procs : Running(p) /\ ~ In(p, "begin") => mission \notin Verdicts

\* A failure on record is open, or its command has passed; no record is resolved,
\* or about to be, unless its command has passed.
FailInv ==
  /\ \A f \in failed : failures[f] = "open" \/ f[1] \in passed
  /\ \A f \in Fingerprints : failures[f] = "resolved" => f[1] \in passed
  /\ \A p \in Procs : \A r \in proc[p].writes : r[2] = "resolved" => r[1][1] \in passed

IInv == TypeOK /\ Bounded /\ LeaseInv /\ RunInv /\ FailInv

-----------------------------------------------------------------------------
\* A process that does nothing.
LEMMA IdleType == Idle \in Processes
<1>1. 1 \in 1 .. (Commands + 1)
  BY BoundsAssumption
<1>2. NoLeases \in LeaseFiles /\ "idle" \in Phases
  BY DEF NoLeases, LeaseFiles, Phases
<1> QED
  BY <1>1, <1>2 DEF Idle, Processes

\* Nothing has happened to the draft.
LEMMA InitEstablishesIInv == Init => IInv
<1> SUFFICES ASSUME Init PROVE IInv
  OBVIOUS
<1> USE BoundsAssumption DEF Init, Verdicts
<1>1. TypeOK
  <2>1. proc \in [Procs -> Processes]
    BY IdleType
  <2>2. NoLeases \in LeaseFiles
    BY DEF LeaseFiles, NoLeases
  <2>3. failures \in [Fingerprints -> {"none", "open", "resolved"}]
    OBVIOUS
  <2>4. /\ mission \in Statuses /\ evidence \in Verdicts \cup {"none"} /\ leases \in LeaseFiles
        /\ tree \in Workspaces /\ expired \subseteq Leases /\ issued \in 0 .. MaxLeases
    BY <2>2 DEF Statuses
  <2>5. ops \in 0 .. MaxOps /\ edits \in 0 .. MaxEdits /\ crashes \in 0 .. MaxCrashes
    OBVIOUS
  <2> QED
    BY <2>1, <2>3, <2>4, <2>5 DEF TypeOK
<1>2. Bounded
  BY DEF Bounded, Idle
<1>3. LeaseInv
  BY DEF LeaseInv, Changing, Idle, NoLeases
<1>4. RunInv
  BY DEF RunInv, Running, In, Run, Idle
<1>5. FailInv
  BY DEF FailInv, Idle
<1> QED
  BY <1>1, <1>2, <1>3, <1>4, <1>5 DEF IInv

\* A process that goes on to s, and the others.
Fits(s) ==
  /\ s \in Processes
  /\ s.phase \in {"grant", "granting", "revoking"} => s.target \in Leases
  /\ s.phase \in {"command", "record"} => s.at <= Commands
  /\ s.phase \in {"criterion", "command", "record", "verdict"} => s.tree \in Workspaces

\* What a process remembers has its type.
LEMMA ProcType ==
  ASSUME TypeOK, Bounded, NEW p \in Procs, NEW s, Fits(s), Becomes(p, s)
  PROVE  proc' \in [Procs -> Processes] /\ Bounded'
BY DEF TypeOK, Bounded, Becomes, Fits

\* What a step makes of a process that fits, fits.
LEMMA FitSteps ==
  ASSUME TypeOK, Bounded, NEW p \in Procs
  PROVE  /\ Fits(Idle)
         /\ \A l \in Leases : Fits([Idle EXCEPT !.phase = "grant", !.target = l])
         /\ In(p, "grant") => Fits([proc[p] EXCEPT !.phase = "granting", !.copy = leases])
         /\ \A l \in Leases : Fits([Idle EXCEPT !.phase = "revoking", !.target = l, !.copy = leases])
         /\ \A a \in {"approve", "lease"} : Fits([proc[p] EXCEPT !.phase = a])
         /\ Fits([Idle EXCEPT !.phase = "begin"])
         /\ \A l \in Leases \cup {None} :
              Fits([proc[p] EXCEPT !.phase = "criterion", !.lease = l, !.tree = tree])
         /\ In(p, "criterion") => Fits([proc[p] EXCEPT !.phase = "verdict"])
         /\ Fits([proc[p] EXCEPT !.aborted = TRUE])
<1>1. Idle \in Processes /\ proc[p] \in Processes /\ leases \in LeaseFiles /\ tree \in Workspaces
  BY IdleType DEF TypeOK
<1>2. {"grant", "granting", "approve", "revoking", "lease", "begin", "criterion", "verdict"}
        \subseteq Phases
  BY DEF Phases, Run
<1>3. Fits(proc[p])
  BY <1>1 DEF Bounded, Fits
<1>4. Idle.phase = "idle"
  BY DEF Idle
<1> QED
  BY <1>1, <1>2, <1>3, <1>4 DEF Fits, Processes, In

\* What remains of a criterion fits, when there is one.
LEMMA FitCriterion ==
  ASSUME TypeOK, Bounded, NEW p \in Procs,
         proc[p].phase \in {"criterion", "command", "record"}, proc[p].at <= Commands
  PROVE  /\ proc[p].at \in 1 .. Commands /\ proc[p].tree \in Workspaces
         /\ Fits(After(proc[p]))
         /\ \A ok \in BOOLEAN : Fits(Verdict(proc[p], ok))
         /\ Fits([proc[p] EXCEPT !.phase = "command"])
         /\ \A w \in SUBSET Records : Fits([proc[p] EXCEPT !.phase = "record", !.writes = w])
         /\ \A w \in SUBSET Records, b \in BOOLEAN :
              Fits([proc[p] EXCEPT !.phase = "record", !.writes = w, !.bad = b])
<1>1. proc[p] \in Processes /\ {"criterion", "command", "record"} \subseteq Phases
  BY DEF TypeOK, Phases, Run
<1>2. proc[p].at \in 1 .. Commands /\ proc[p].tree \in Workspaces
  BY <1>1, BoundsAssumption DEF Processes, Bounded
<1>3. proc[p].at + 1 \in 1 .. (Commands + 1) /\ proc[p].bad \in BOOLEAN
  BY <1>1, <1>2, BoundsAssumption DEF Processes
<1>4. Fits(After(proc[p]))
  BY <1>1, <1>2, <1>3 DEF Fits, After, Processes
<1>5. \A b \in BOOLEAN : Fits([After(proc[p]) EXCEPT !.bad = b])
  BY <1>4, <1>1 DEF Fits, Processes
<1>6. \A ok \in BOOLEAN : Fits(Verdict(proc[p], ok))
  <2>1. After(proc[p]).bad \in BOOLEAN
    BY <1>4 DEF Fits, Processes
  <2> QED
    BY <1>5, <2>1 DEF Verdict
<1>7. Fits([proc[p] EXCEPT !.phase = "command"])
  BY <1>1, <1>2 DEF Fits, Processes
<1>8. \A w \in SUBSET Records, b \in BOOLEAN :
        Fits([proc[p] EXCEPT !.phase = "record", !.writes = w, !.bad = b])
  BY <1>1, <1>2 DEF Fits, Processes
<1>9. \A w \in SUBSET Records : Fits([proc[p] EXCEPT !.phase = "record", !.writes = w])
  BY <1>1, <1>2 DEF Fits, Processes
<1> QED
  BY <1>2, <1>4, <1>6, <1>7, <1>8, <1>9

\* The types survive every step.
LEMMA TypeStep ==
  ASSUME IInv, [Next]_vars
  PROVE  TypeOK' /\ Bounded'
<1>0. TypeOK /\ Bounded /\ LeaseInv /\ RunInv /\ FailInv
  BY DEF IInv
<1>1. ASSUME NEW p \in Procs, Approve(p) PROVE TypeOK' /\ Bounded'
  <2>1. \E s : Fits(s) /\ Becomes(p, s)
    <3>1. issued + 1 \in Leases
      BY <1>0, <1>1, BoundsAssumption DEF Approve, TypeOK, Leases
    <3> QED
      BY <1>0, <1>1, <3>1, FitSteps DEF Approve
  <2>2. proc' \in [Procs -> Processes] /\ Bounded'
    BY <1>0, <2>1, ProcType
  <2> QED
    BY <1>0, <1>1, <2>2, BoundsAssumption DEF Approve, In, disk, world, history, TypeOK, Statuses, Verdicts, LeaseFiles, Leases
<1>2. ASSUME NEW p \in Procs, ReadToGrant(p) PROVE TypeOK' /\ Bounded'
  <2>1. \E s : Fits(s) /\ Becomes(p, s)
    BY <1>0, <1>2, FitSteps, BoundsAssumption DEF ReadToGrant, In, disk, world, history, TypeOK, Leases
  <2>2. proc' \in [Procs -> Processes] /\ Bounded'
    BY <1>0, <2>1, ProcType
  <2> QED
    BY <1>0, <1>2, <2>2, BoundsAssumption DEF ReadToGrant, In, disk, world, history, TypeOK, Statuses, Verdicts, LeaseFiles, Leases
<1>3. ASSUME NEW p \in Procs, Grant(p) PROVE TypeOK' /\ Bounded'
  <2>1. \E s : Fits(s) /\ Becomes(p, s)
    BY <1>0, <1>3, FitSteps, BoundsAssumption DEF Grant, Goes, WithLease, In, disk, world, history, TypeOK, Leases
  <2>2. proc' \in [Procs -> Processes] /\ Bounded'
    BY <1>0, <2>1, ProcType
  <2>3. proc[p].copy \in LeaseFiles /\ proc[p].target \in Leases \cup {None}
    BY <1>0 DEF TypeOK, Processes
  <2>4. proc[p].target \in Leases
    BY <1>0, <1>3, <2>3 DEF Bounded, Grant, In
  <2>5. leases' \in LeaseFiles /\ granted' \subseteq Leases
    BY <1>0, <1>3, <2>3, <2>4 DEF Grant, WithLease, LeaseFiles, TypeOK
  <2> QED
    BY <1>0, <1>3, <2>2, <2>5 DEF Grant, world, TypeOK
<1>4. ASSUME NEW p \in Procs, Approved(p) PROVE TypeOK' /\ Bounded'
  <2>1. \E s : Fits(s) /\ Becomes(p, s)
    BY <1>0, <1>4, FitSteps, BoundsAssumption DEF Approved, In, disk, world, history, TypeOK, Leases
  <2>2. proc' \in [Procs -> Processes] /\ Bounded'
    BY <1>0, <2>1, ProcType
  <2> QED
    BY <1>0, <1>4, <2>2, BoundsAssumption DEF Approved, In, disk, world, history, TypeOK, Statuses, Verdicts, LeaseFiles, Leases
<1>5. ASSUME NEW p \in Procs, Revoke(p) PROVE TypeOK' /\ Bounded'
  <2>1. \E s : Fits(s) /\ Becomes(p, s)
    BY <1>0, <1>5, FitSteps, BoundsAssumption DEF Revoke, In, disk, world, history, TypeOK, Leases
  <2>2. proc' \in [Procs -> Processes] /\ Bounded'
    BY <1>0, <2>1, ProcType
  <2>3. proc[p].copy \in LeaseFiles /\ proc[p].target \in Leases
    BY <1>0, <1>5 DEF Bounded, Revoke, In, TypeOK, Processes
  <2>4. leases' \in LeaseFiles /\ revoked' \subseteq Leases
    BY <1>0, <1>5, <2>3 DEF Revoke, LeaseFiles, TypeOK
  <2> QED
    BY <1>0, <1>5, <2>2, <2>4 DEF Revoke, world, TypeOK
<1>6. ASSUME NEW p \in Procs, Verify(p) PROVE TypeOK' /\ Bounded'
  <2>1. \E s : Fits(s) /\ Becomes(p, s)
    BY <1>0, <1>6, FitSteps, BoundsAssumption DEF Verify, Op, In, disk, world, history, TypeOK, Leases
  <2>2. proc' \in [Procs -> Processes] /\ Bounded'
    BY <1>0, <2>1, ProcType
  <2> QED
    BY <1>0, <1>6, <2>2, BoundsAssumption DEF Verify, Op, In, disk, world, history, TypeOK, Statuses, Verdicts, LeaseFiles, Leases
<1>7. ASSUME NEW p \in Procs, Begin(p) PROVE TypeOK' /\ Bounded'
  <2>1. \E s : Fits(s) /\ Becomes(p, s)
    BY <1>0, <1>7, FitSteps, BoundsAssumption DEF Begin, Goes, In, disk, world, history, TypeOK, Leases
  <2>2. proc' \in [Procs -> Processes] /\ Bounded'
    BY <1>0, <2>1, ProcType
  <2> QED
    BY <1>0, <1>7, <2>2, BoundsAssumption DEF Begin, Goes, In, disk, world, history, TypeOK, Statuses, Verdicts, LeaseFiles, Leases
<1>8. ASSUME NEW p \in Procs, TakeLease(p) PROVE TypeOK' /\ Bounded'
  <2>1. \E s : Fits(s) /\ Becomes(p, s)
    <3>1. \A l \in (IF Active = {} THEN {None} ELSE Active) : l \in Leases \cup {None}
      BY <1>0 DEF Active, TypeOK, LeaseFiles
    <3> QED
      BY <1>0, <1>8, <3>1, FitSteps DEF TakeLease
  <2>2. proc' \in [Procs -> Processes] /\ Bounded'
    BY <1>0, <2>1, ProcType
  <2> QED
    BY <1>0, <1>8, <2>2, BoundsAssumption DEF TakeLease, Active, In, disk, world, history, TypeOK, Statuses, Verdicts, LeaseFiles, Leases
<1>9. ASSUME NEW p \in Procs, Skip(p) PROVE TypeOK' /\ Bounded'
  <2>1. proc[p].phase = "criterion" /\ proc[p].at <= Commands
    BY <1>9 DEF Skip, In, Command
  <2>2. \E s : Fits(s) /\ Becomes(p, s)
    BY <1>0, <1>9, <2>1, FitCriterion DEF Skip, Command
  <2>3. proc' \in [Procs -> Processes] /\ Bounded'
    BY <1>0, <2>2, ProcType
  <2> QED
    BY <1>0, <1>9, <2>3 DEF Skip, In, disk, world, history, TypeOK, Statuses, Verdicts, LeaseFiles, Leases
<1>10. ASSUME NEW p \in Procs, Start(p) PROVE TypeOK' /\ Bounded'
  <2>1. proc[p].phase = "criterion" /\ proc[p].at <= Commands
    BY <1>10 DEF Start, In, Command
  <2>2. \E s : Fits(s) /\ Becomes(p, s)
    BY <1>0, <1>10, <2>1, FitCriterion DEF Start, Goes, Command
  <2>3. proc' \in [Procs -> Processes] /\ Bounded'
    BY <1>0, <2>2, ProcType
  <2> QED
    BY <1>0, <1>10, <2>3 DEF Start, In, disk, world, history, TypeOK, Statuses, Verdicts, LeaseFiles, Leases
<1>11. ASSUME NEW p \in Procs, Passes(p) PROVE TypeOK' /\ Bounded'
  <2>1. proc[p].phase = "command" /\ proc[p].at <= Commands /\ proc[p] \in Processes
    BY <1>0, <1>11 DEF Passes, In, Bounded, TypeOK
  <2>2. {<<f, "resolved">> : f \in FailuresOf(Command(p))} \in SUBSET Records
    BY DEF Records, FailuresOf
  <2> DEFINE open == FailuresOf(Command(p))
             s == [proc[p] EXCEPT !.phase = "record", !.writes = {<<f, "resolved">> : f \in open}]
  <2>3. Becomes(p, IF open = {} THEN After(s) ELSE s)
    BY <1>11 DEF Passes
  <2>4. Fits(s)
    BY <1>0, <2>1, <2>2, FitCriterion
  <2>5. After(s) = After(proc[p]) /\ Fits(After(proc[p]))
    BY <1>0, <2>1, FitCriterion DEF After, Processes
  <2> HIDE DEF s, open
  <2>6. proc' \in [Procs -> Processes] /\ Bounded'
    BY <1>0, <2>3, <2>4, <2>5, ProcType
  <2>7. Command(p) \in 1 .. Commands
    BY <1>0, <2>1, FitCriterion DEF Command
  <2> QED
    BY <1>0, <1>11, <2>6, <2>7 DEF Passes, In, disk, world, history, TypeOK, Statuses, Verdicts, LeaseFiles, Leases
<1>12. ASSUME NEW p \in Procs, Fails(p) PROVE TypeOK' /\ Bounded'
  <2>1. proc[p].phase = "command" /\ proc[p].at <= Commands /\ proc[p] \in Processes
    BY <1>0, <1>12 DEF Fails, In, Bounded, TypeOK
  <2>2. proc[p].at \in 1 .. Commands /\ proc[p].tree \in Workspaces /\ proc[p].bad \in BOOLEAN
    BY <1>0, <2>1, FitCriterion DEF Processes
  <2>3. PICK e \in Errors :
          LET f == <<Command(p), proc[p].tree, e>>
              r == IF failures[f] = "none" THEN "open" ELSE failures[f]
          IN  Becomes(p, [proc[p] EXCEPT !.phase = "record", !.writes = {<<f, r>>},
                            !.bad = @ \/ Command(p) \notin Optional])
    BY <1>12 DEF Fails
  <2> DEFINE f == <<Command(p), proc[p].tree, e>>
             r == IF failures[f] = "none" THEN "open" ELSE failures[f]
  <2>4. {<<f, r>>} \in SUBSET Records
    <3>1. f \in Fingerprints
      BY <2>2 DEF Fingerprints, Command
    <3>2. failures[f] \in {"none", "open", "resolved"}
      BY <1>0, <3>1 DEF TypeOK
    <3> HIDE DEF f
    <3> QED
      BY <3>1, <3>2 DEF Records
  <2>5. (proc[p].bad \/ Command(p) \notin Optional) \in BOOLEAN
    BY <2>2
  <2> HIDE DEF f, r
  <2>6. Fits([proc[p] EXCEPT !.phase = "record", !.writes = {<<f, r>>},
               !.bad = proc[p].bad \/ Command(p) \notin Optional])
    BY <1>0, <2>1, <2>4, <2>5, FitCriterion
  <2>7. proc' \in [Procs -> Processes] /\ Bounded'
    BY <1>0, <2>3, <2>6, ProcType DEF f, r
  <2> QED
    BY <1>0, <1>12, <2>7 DEF Fails, In, disk, world, history, TypeOK, Statuses, Verdicts, LeaseFiles, Leases
<1>13. ASSUME NEW p \in Procs, Record(p) PROVE TypeOK' /\ Bounded'
  <2>1. proc[p].phase = "record" /\ proc[p].at <= Commands /\ proc[p] \in Processes
    BY <1>0, <1>13 DEF Record, In, Bounded, TypeOK
  <2>2. PICK r \in proc[p].writes :
          /\ failures' = [failures EXCEPT ![r[1]] = r[2]]
          /\ failed' = IF r[2] = "open" THEN failed \cup {r[1]} ELSE failed
          /\ LET s == [proc[p] EXCEPT !.writes = @ \ {r}]
             IN  Becomes(p, IF s.writes = {} THEN After(s) ELSE s)
    BY <1>13 DEF Record
  <2> DEFINE s == [proc[p] EXCEPT !.writes = @ \ {r}]
  <2>3. r \in Records /\ r[1] \in Fingerprints /\ r[2] \in {"open", "resolved"}
    BY <2>1 DEF Processes, Records
  <2>4. s = [proc[p] EXCEPT !.phase = "record", !.writes = proc[p].writes \ {r}, !.bad = proc[p].bad]
        /\ proc[p].bad \in BOOLEAN /\ proc[p].writes \ {r} \in SUBSET Records
    BY <2>1 DEF Processes
  <2>5. Fits(s)
    BY <1>0, <2>1, <2>4, FitCriterion
  <2>6. After(s) = After(proc[p])
    BY <2>1 DEF After, Processes
  <2>7. Fits(IF s.writes = {} THEN After(s) ELSE s)
    BY <1>0, <2>1, <2>5, <2>6, FitCriterion
  <2> HIDE DEF s
  <2>8. proc' \in [Procs -> Processes] /\ Bounded'
    BY <1>0, <2>2, <2>7, ProcType DEF s
  <2> QED
    BY <1>0, <1>13, <2>2, <2>3, <2>8 DEF Record, In, disk, world, history, TypeOK, Statuses, Verdicts, LeaseFiles, Leases
<1>14. ASSUME NEW p \in Procs, WriteEvidence(p) PROVE TypeOK' /\ Bounded'
  <2>1. \E s : Fits(s) /\ Becomes(p, s)
    BY <1>0, <1>14, FitSteps, BoundsAssumption DEF WriteEvidence, Goes, Evidence, Outcome, In, disk, world, history, TypeOK, Leases
  <2>2. proc' \in [Procs -> Processes] /\ Bounded'
    BY <1>0, <2>1, ProcType
  <2> QED
    BY <1>0, <1>14, <2>2, BoundsAssumption DEF WriteEvidence, Goes, Evidence, Outcome, In, disk, world, history, TypeOK, Statuses, Verdicts, LeaseFiles, Leases
<1>15. ASSUME NEW p \in Procs, WriteVerdict(p) PROVE TypeOK' /\ Bounded'
  <2>1. \E s : Fits(s) /\ Becomes(p, s)
    BY <1>0, <1>15, FitSteps, BoundsAssumption DEF WriteVerdict, Outcome, In, disk, world, history, TypeOK, Leases
  <2>2. proc' \in [Procs -> Processes] /\ Bounded'
    BY <1>0, <2>1, ProcType
  <2> QED
    BY <1>0, <1>15, <2>2, BoundsAssumption DEF WriteVerdict, Outcome, In, disk, world, history, TypeOK, Statuses, Verdicts, LeaseFiles, Leases
<1>16. ASSUME NEW p \in Procs, Abort(p) PROVE TypeOK' /\ Bounded'
  <2>1. \E s : Fits(s) /\ Becomes(p, s)
    BY <1>0, <1>16, FitSteps, BoundsAssumption DEF Abort, In, disk, world, history, TypeOK, Leases
  <2>2. proc' \in [Procs -> Processes] /\ Bounded'
    BY <1>0, <2>1, ProcType
  <2> QED
    BY <1>0, <1>16, <2>2, BoundsAssumption DEF Abort, In, disk, world, history, TypeOK, Statuses, Verdicts, LeaseFiles, Leases
<1>17. ASSUME NEW p \in Procs, Crash(p) PROVE TypeOK' /\ Bounded'
  <2>1. \E s : Fits(s) /\ Becomes(p, s)
    BY <1>0, <1>17, FitSteps, BoundsAssumption DEF Crash, In, disk, world, history, TypeOK, Leases
  <2>2. proc' \in [Procs -> Processes] /\ Bounded'
    BY <1>0, <2>1, ProcType
  <2> QED
    BY <1>0, <1>17, <2>2, BoundsAssumption DEF Crash, In, disk, world, history, TypeOK, Statuses, Verdicts, LeaseFiles, Leases
<1>18. ASSUME NEW p \in Procs, NEW l \in Leases, ReadToRevoke(p, l) PROVE TypeOK' /\ Bounded'
  <2>1. \E s : Fits(s) /\ Becomes(p, s)
    BY <1>0, <1>18, FitSteps, BoundsAssumption DEF ReadToRevoke, Op, In, disk, world, history, TypeOK, Leases
  <2>2. proc' \in [Procs -> Processes] /\ Bounded'
    BY <1>0, <2>1, ProcType
  <2> QED
    BY <1>0, <1>18, <2>2, BoundsAssumption DEF ReadToRevoke, Op, In, disk, world, history, TypeOK, Statuses, Verdicts, LeaseFiles, Leases
<1>19. ASSUME NEW l \in Leases, Expire(l) PROVE TypeOK' /\ Bounded'
  BY <1>0, <1>19, BoundsAssumption DEF Expire, TypeOK, Bounded, Statuses, Verdicts, LeaseFiles, Leases, In, disk, world, history
<1>20. ASSUME Edit PROVE TypeOK' /\ Bounded'
  BY <1>0, <1>20, BoundsAssumption DEF Edit, TypeOK, Bounded, Statuses, Verdicts, LeaseFiles, Leases, In, disk, world, history
<1>21. CASE UNCHANGED vars
  BY <1>0, <1>21 DEF vars, TypeOK, Bounded, Statuses, Verdicts, LeaseFiles, Leases, In, disk, world, history
<1> QED
  BY <1>1, <1>2, <1>3, <1>4, <1>5, <1>6, <1>7, <1>8, <1>9, <1>10, <1>11, <1>12, <1>13, <1>14, <1>15, <1>16, <1>17, <1>18, <1>19, <1>20, <1>21 DEF Next, Step

\* A criterion that is skipped is behind the process.
LEMMA SkipEffect ==
  ASSUME TypeOK, NEW p \in Procs, Skip(p)
  PROVE  /\ UNCHANGED <<disk, world, history, ops, crashes>>
         /\ proc[p].phase = "criterion" /\ proc'[p].phase = "criterion" /\ proc'[p].writes = {}
         /\ proc'[p].copy = proc[p].copy
         /\ \A q \in Procs \ {p} : proc'[q] = proc[q]
<1>1. proc[p] \in Processes
  BY DEF TypeOK
<1>2. \A s \in {After(proc[p]), Verdict(proc[p], FALSE)} :
        s.phase = "criterion" /\ s.writes = {} /\ s.copy = proc[p].copy
  BY <1>1 DEF After, Verdict, Processes
<1>3. \E s \in {After(proc[p]), Verdict(proc[p], FALSE)} : Becomes(p, s)
  BY DEF Skip
<1> QED
  BY <1>2, <1>3 DEF Skip, Becomes, In, TypeOK

\* Of two processes that change the leases at once, the later one is noticed.
LEMMA LeaseStep ==
  ASSUME IInv, [Next]_vars
  PROVE  LeaseInv'
<1>0. TypeOK /\ Bounded /\ LeaseInv /\ RunInv /\ FailInv
  BY DEF IInv
<1>1. ASSUME NEW p \in Procs, Approve(p) PROVE LeaseInv'
  BY <1>0, <1>1 DEF Approve, Becomes, Idle, NoLeases, LeaseInv, Changing, Racing, TypeOK, Processes, LeaseFiles, In, disk, world, history
<1>2. ASSUME NEW p \in Procs, ReadToGrant(p) PROVE LeaseInv'
  <2>1. /\ proc'[p].phase = "granting" /\ proc'[p].copy = leases /\ leases' = leases
        /\ \A q \in Procs \ {p} : proc'[q] = proc[q]
        /\ granted' = granted /\ revoked' = revoked
    BY <1>0, <1>2 DEF ReadToGrant, Becomes, TypeOK, Processes, disk
  <2>2. ~ raced' => ~ raced /\ \A q \in Procs \ {p} : ~ Changing(q)
    BY <1>0, <1>2 DEF ReadToGrant, Racing, Changing, TypeOK
  <2> QED
    BY <1>0, <2>1, <2>2 DEF LeaseInv, Changing
<1>3. ASSUME NEW p \in Procs, Grant(p) PROVE LeaseInv'
  BY <1>0, <1>3 DEF Grant, Goes, Becomes, WithLease, LeaseInv, Changing, Racing, TypeOK, Processes, LeaseFiles, In, disk, world, history
<1>4. ASSUME NEW p \in Procs, Approved(p) PROVE LeaseInv'
  BY <1>0, <1>4 DEF Approved, Becomes, Idle, NoLeases, LeaseInv, Changing, Racing, TypeOK, Processes, LeaseFiles, In, disk, world, history
<1>5. ASSUME NEW p \in Procs, Revoke(p) PROVE LeaseInv'
  BY <1>0, <1>5 DEF Revoke, Becomes, Idle, NoLeases, LeaseInv, Changing, Racing, TypeOK, Processes, LeaseFiles, In, disk, world, history
<1>6. ASSUME NEW p \in Procs, Verify(p) PROVE LeaseInv'
  BY <1>0, <1>6 DEF Verify, Becomes, Idle, NoLeases, Op, LeaseInv, Changing, Racing, TypeOK, Processes, LeaseFiles, In, disk, world, history
<1>7. ASSUME NEW p \in Procs, Begin(p) PROVE LeaseInv'
  BY <1>0, <1>7 DEF Begin, Goes, Becomes, LeaseInv, Changing, Racing, TypeOK, Processes, LeaseFiles, In, disk, world, history
<1>8. ASSUME NEW p \in Procs, TakeLease(p) PROVE LeaseInv'
  BY <1>0, <1>8 DEF TakeLease, Becomes, Active, LeaseInv, Changing, Racing, TypeOK, Processes, LeaseFiles, In, disk, world, history
<1>9. ASSUME NEW p \in Procs, Skip(p) PROVE LeaseInv'
  BY <1>0, <1>9, SkipEffect DEF LeaseInv, Changing, In, disk, history
<1>10. ASSUME NEW p \in Procs, Start(p) PROVE LeaseInv'
  BY <1>0, <1>10 DEF Start, Goes, Becomes, Command, LeaseInv, Changing, Racing, TypeOK, Processes, LeaseFiles, In, disk, world, history
<1>11. ASSUME NEW p \in Procs, Passes(p) PROVE LeaseInv'
  BY <1>0, <1>11 DEF Passes, Becomes, After, Command, FailuresOf, LeaseInv, Changing, Racing, TypeOK, Processes, LeaseFiles, In, disk, world, history
<1>12. ASSUME NEW p \in Procs, Fails(p) PROVE LeaseInv'
  BY <1>0, <1>12 DEF Fails, Becomes, Command, LeaseInv, Changing, Racing, TypeOK, Processes, LeaseFiles, In, disk, world, history
<1>13. ASSUME NEW p \in Procs, Record(p) PROVE LeaseInv'
  BY <1>0, <1>13 DEF Record, Becomes, After, Command, LeaseInv, Changing, Racing, TypeOK, Processes, LeaseFiles, In, disk, world, history
<1>14. ASSUME NEW p \in Procs, WriteEvidence(p) PROVE LeaseInv'
  BY <1>0, <1>14 DEF WriteEvidence, Goes, Becomes, Evidence, Outcome, LeaseInv, Changing, Racing, TypeOK, Processes, LeaseFiles, In, disk, world, history
<1>15. ASSUME NEW p \in Procs, WriteVerdict(p) PROVE LeaseInv'
  BY <1>0, <1>15 DEF WriteVerdict, Becomes, Idle, NoLeases, Outcome, LeaseInv, Changing, Racing, TypeOK, Processes, LeaseFiles, In, disk, world, history
<1>16. ASSUME NEW p \in Procs, Abort(p) PROVE LeaseInv'
  BY <1>0, <1>16 DEF Abort, Becomes, LeaseInv, Changing, Racing, TypeOK, Processes, LeaseFiles, In, disk, world, history
<1>17. ASSUME NEW p \in Procs, Crash(p) PROVE LeaseInv'
  BY <1>0, <1>17 DEF Crash, Becomes, Idle, NoLeases, LeaseInv, Changing, Racing, TypeOK, Processes, LeaseFiles, In, disk, world, history
<1>18. ASSUME NEW p \in Procs, NEW l \in Leases, ReadToRevoke(p, l) PROVE LeaseInv'
  BY <1>0, <1>18 DEF ReadToRevoke, Becomes, Idle, NoLeases, Op, LeaseInv, Changing, Racing, TypeOK, Processes, LeaseFiles, In, disk, world, history
<1>19. ASSUME NEW l \in Leases, Expire(l) PROVE LeaseInv'
  BY <1>0, <1>19 DEF Expire, LeaseInv, Changing, Racing, TypeOK, Processes, LeaseFiles, In, disk, world, history
<1>20. ASSUME Edit PROVE LeaseInv'
  BY <1>0, <1>20 DEF Edit, LeaseInv, Changing, Racing, TypeOK, Processes, LeaseFiles, In, disk, world, history
<1>21. CASE UNCHANGED vars
  BY <1>0, <1>21 DEF vars, LeaseInv, Changing, Racing, TypeOK, Processes, LeaseFiles, In, disk, world, history
<1> QED
  BY <1>1, <1>2, <1>3, <1>4, <1>5, <1>6, <1>7, <1>8, <1>9, <1>10, <1>11, <1>12, <1>13, <1>14, <1>15, <1>16, <1>17, <1>18, <1>19, <1>20, <1>21 DEF Next, Step

\* Of two runs at once, the later one is noticed.
LEMMA RunStep ==
  ASSUME IInv, [Next]_vars
  PROVE  RunInv'
<1>0. TypeOK /\ Bounded /\ LeaseInv /\ RunInv /\ FailInv
  BY DEF IInv
<1>1. ASSUME NEW p \in Procs, Approve(p) PROVE RunInv'
  BY <1>0, <1>1 DEF Approve, Becomes, Idle, NoLeases, RunInv, Running, Run, Outcome, Verdicts, TypeOK, Processes, In, disk, world, history
<1>2. ASSUME NEW p \in Procs, ReadToGrant(p) PROVE RunInv'
  BY <1>0, <1>2 DEF ReadToGrant, Becomes, RunInv, Running, Run, Outcome, Verdicts, TypeOK, Processes, In, disk, world, history
<1>3. ASSUME NEW p \in Procs, Grant(p) PROVE RunInv'
  BY <1>0, <1>3 DEF Grant, Goes, Becomes, WithLease, RunInv, Running, Run, Outcome, Verdicts, TypeOK, Processes, In, disk, world, history
<1>4. ASSUME NEW p \in Procs, Approved(p) PROVE RunInv'
  BY <1>0, <1>4 DEF Approved, Becomes, Idle, NoLeases, RunInv, Running, Run, Outcome, Verdicts, TypeOK, Processes, In, disk, world, history
<1>5. ASSUME NEW p \in Procs, Revoke(p) PROVE RunInv'
  BY <1>0, <1>5 DEF Revoke, Becomes, Idle, NoLeases, RunInv, Running, Run, Outcome, Verdicts, TypeOK, Processes, In, disk, world, history
<1>6. ASSUME NEW p \in Procs, Verify(p) PROVE RunInv'
  <2>1. /\ proc'[p].phase = "begin" /\ \A q \in Procs \ {p} : proc'[q] = proc[q]
        /\ mission' = mission /\ evidence' = evidence
    BY <1>0, <1>6 DEF Verify, Becomes, Idle, TypeOK, disk
  <2>2. ~ overlapped' => ~ overlapped /\ \A q \in Procs \ {p} : ~ Running(q)
    BY <1>0, <1>6 DEF Verify, Running, TypeOK
  <2> QED
    BY <1>0, <2>1, <2>2 DEF RunInv, Running, In, Outcome
<1>7. ASSUME NEW p \in Procs, Begin(p) PROVE RunInv'
  BY <1>0, <1>7 DEF Begin, Goes, Becomes, RunInv, Running, Run, Outcome, Verdicts, TypeOK, Processes, In, disk, world, history
<1>8. ASSUME NEW p \in Procs, TakeLease(p) PROVE RunInv'
  BY <1>0, <1>8 DEF TakeLease, Becomes, Active, RunInv, Running, Run, Outcome, Verdicts, TypeOK, Processes, In, disk, world, history
<1>9. ASSUME NEW p \in Procs, Skip(p) PROVE RunInv'
  BY <1>0, <1>9, SkipEffect DEF RunInv, Running, Run, Outcome, In, disk, history
<1>10. ASSUME NEW p \in Procs, Start(p) PROVE RunInv'
  BY <1>0, <1>10 DEF Start, Goes, Becomes, Command, RunInv, Running, Run, Outcome, Verdicts, TypeOK, Processes, In, disk, world, history
<1>11. ASSUME NEW p \in Procs, Passes(p) PROVE RunInv'
  BY <1>0, <1>11 DEF Passes, Becomes, After, Command, FailuresOf, RunInv, Running, Run, Outcome, Verdicts, TypeOK, Processes, In, disk, world, history
<1>12. ASSUME NEW p \in Procs, Fails(p) PROVE RunInv'
  BY <1>0, <1>12 DEF Fails, Becomes, Command, RunInv, Running, Run, Outcome, Verdicts, TypeOK, Processes, In, disk, world, history
<1>13. ASSUME NEW p \in Procs, Record(p) PROVE RunInv'
  BY <1>0, <1>13 DEF Record, Becomes, After, Command, RunInv, Running, Run, Outcome, Verdicts, TypeOK, Processes, In, disk, world, history
<1>14. ASSUME NEW p \in Procs, WriteEvidence(p) PROVE RunInv'
  BY <1>0, <1>14 DEF WriteEvidence, Goes, Becomes, Evidence, Outcome, RunInv, Running, Run, Outcome, Verdicts, TypeOK, Processes, In, disk, world, history
<1>15. ASSUME NEW p \in Procs, WriteVerdict(p) PROVE RunInv'
  BY <1>0, <1>15 DEF WriteVerdict, Becomes, Idle, NoLeases, Outcome, RunInv, Running, Run, Outcome, Verdicts, TypeOK, Processes, In, disk, world, history
<1>16. ASSUME NEW p \in Procs, Abort(p) PROVE RunInv'
  BY <1>0, <1>16 DEF Abort, Becomes, RunInv, Running, Run, Outcome, Verdicts, TypeOK, Processes, In, disk, world, history
<1>17. ASSUME NEW p \in Procs, Crash(p) PROVE RunInv'
  BY <1>0, <1>17 DEF Crash, Becomes, Idle, NoLeases, RunInv, Running, Run, Outcome, Verdicts, TypeOK, Processes, In, disk, world, history
<1>18. ASSUME NEW p \in Procs, NEW l \in Leases, ReadToRevoke(p, l) PROVE RunInv'
  BY <1>0, <1>18 DEF ReadToRevoke, Becomes, Idle, NoLeases, Op, RunInv, Running, Run, Outcome, Verdicts, TypeOK, Processes, In, disk, world, history
<1>19. ASSUME NEW l \in Leases, Expire(l) PROVE RunInv'
  BY <1>0, <1>19 DEF Expire, RunInv, Running, Run, Outcome, Verdicts, TypeOK, Processes, In, disk, world, history
<1>20. ASSUME Edit PROVE RunInv'
  BY <1>0, <1>20 DEF Edit, RunInv, Running, Run, Outcome, Verdicts, TypeOK, Processes, In, disk, world, history
<1>21. CASE UNCHANGED vars
  BY <1>0, <1>21 DEF vars, RunInv, Running, Run, Outcome, Verdicts, TypeOK, Processes, In, disk, world, history
<1> QED
  BY <1>1, <1>2, <1>3, <1>4, <1>5, <1>6, <1>7, <1>8, <1>9, <1>10, <1>11, <1>12, <1>13, <1>14, <1>15, <1>16, <1>17, <1>18, <1>19, <1>20, <1>21 DEF Next, Step

\* Only a pass of its command resolves a failure.
LEMMA FailStep ==
  ASSUME IInv, [Next]_vars
  PROVE  FailInv'
<1>0. TypeOK /\ Bounded /\ LeaseInv /\ RunInv /\ FailInv
  BY DEF IInv
<1>1. ASSUME NEW p \in Procs, Approve(p) PROVE FailInv'
  BY <1>0, <1>1 DEF Approve, Becomes, Idle, NoLeases, FailInv, TypeOK, Processes, Records, Fingerprints, In, disk, world, history
<1>2. ASSUME NEW p \in Procs, ReadToGrant(p) PROVE FailInv'
  BY <1>0, <1>2 DEF ReadToGrant, Becomes, FailInv, TypeOK, Processes, Records, Fingerprints, In, disk, world, history
<1>3. ASSUME NEW p \in Procs, Grant(p) PROVE FailInv'
  BY <1>0, <1>3 DEF Grant, Goes, Becomes, WithLease, FailInv, TypeOK, Processes, Records, Fingerprints, In, disk, world, history
<1>4. ASSUME NEW p \in Procs, Approved(p) PROVE FailInv'
  BY <1>0, <1>4 DEF Approved, Becomes, Idle, NoLeases, FailInv, TypeOK, Processes, Records, Fingerprints, In, disk, world, history
<1>5. ASSUME NEW p \in Procs, Revoke(p) PROVE FailInv'
  BY <1>0, <1>5 DEF Revoke, Becomes, Idle, NoLeases, FailInv, TypeOK, Processes, Records, Fingerprints, In, disk, world, history
<1>6. ASSUME NEW p \in Procs, Verify(p) PROVE FailInv'
  BY <1>0, <1>6 DEF Verify, Becomes, Idle, NoLeases, Op, FailInv, TypeOK, Processes, Records, Fingerprints, In, disk, world, history
<1>7. ASSUME NEW p \in Procs, Begin(p) PROVE FailInv'
  BY <1>0, <1>7 DEF Begin, Goes, Becomes, FailInv, TypeOK, Processes, Records, Fingerprints, In, disk, world, history
<1>8. ASSUME NEW p \in Procs, TakeLease(p) PROVE FailInv'
  BY <1>0, <1>8 DEF TakeLease, Becomes, Active, FailInv, TypeOK, Processes, Records, Fingerprints, In, disk, world, history
<1>9. ASSUME NEW p \in Procs, Skip(p) PROVE FailInv'
  BY <1>0, <1>9, SkipEffect DEF FailInv, In, disk, history
<1>10. ASSUME NEW p \in Procs, Start(p) PROVE FailInv'
  BY <1>0, <1>10 DEF Start, Goes, Becomes, Command, FailInv, TypeOK, Processes, Records, Fingerprints, In, disk, world, history
<1>11. ASSUME NEW p \in Procs, Passes(p) PROVE FailInv'
  BY <1>0, <1>11 DEF Passes, Becomes, After, Command, FailuresOf, FailInv, TypeOK, Processes, Records, Fingerprints, In, disk, world, history
<1>12. ASSUME NEW p \in Procs, Fails(p) PROVE FailInv'
  <2>1. PICK e \in Errors :
          LET f == <<Command(p), proc[p].tree, e>>
              r == IF failures[f] = "none" THEN "open" ELSE failures[f]
          IN  Becomes(p, [proc[p] EXCEPT !.phase = "record", !.writes = {<<f, r>>},
                            !.bad = @ \/ Command(p) \notin Optional])
    BY <1>12 DEF Fails
  <2> DEFINE f == <<Command(p), proc[p].tree, e>>
             r == IF failures[f] = "none" THEN "open" ELSE failures[f]
  <2>2. proc'[p].writes = {<<f, r>>} /\ \A q \in Procs \ {p} : proc'[q] = proc[q]
    BY <1>0, <2>1 DEF Becomes, TypeOK, Processes
  <2>3. r = "resolved" => f[1] \in passed
    <3>1. proc[p].at \in 1 .. Commands /\ proc[p].tree \in Workspaces
      BY <1>0, <1>12, FitCriterion DEF Fails, In, Bounded
    <3>2. f \in Fingerprints
      BY <3>1 DEF Fingerprints, Command
    <3> QED
      BY <1>0, <3>2 DEF FailInv
  <2>4. UNCHANGED <<failures, failed, passed>>
    BY <1>12 DEF Fails, disk, history
  <2> HIDE DEF f, r
  <2> QED
    BY <1>0, <2>2, <2>3, <2>4 DEF FailInv
<1>13. ASSUME NEW p \in Procs, Record(p) PROVE FailInv'
  BY <1>0, <1>13 DEF Record, Becomes, After, Command, FailInv, TypeOK, Processes, Records, Fingerprints, In, disk, world, history
<1>14. ASSUME NEW p \in Procs, WriteEvidence(p) PROVE FailInv'
  BY <1>0, <1>14 DEF WriteEvidence, Goes, Becomes, Evidence, Outcome, FailInv, TypeOK, Processes, Records, Fingerprints, In, disk, world, history
<1>15. ASSUME NEW p \in Procs, WriteVerdict(p) PROVE FailInv'
  BY <1>0, <1>15 DEF WriteVerdict, Becomes, Idle, NoLeases, Outcome, FailInv, TypeOK, Processes, Records, Fingerprints, In, disk, world, history
<1>16. ASSUME NEW p \in Procs, Abort(p) PROVE FailInv'
  BY <1>0, <1>16 DEF Abort, Becomes, FailInv, TypeOK, Processes, Records, Fingerprints, In, disk, world, history
<1>17. ASSUME NEW p \in Procs, Crash(p) PROVE FailInv'
  BY <1>0, <1>17 DEF Crash, Becomes, Idle, NoLeases, FailInv, TypeOK, Processes, Records, Fingerprints, In, disk, world, history
<1>18. ASSUME NEW p \in Procs, NEW l \in Leases, ReadToRevoke(p, l) PROVE FailInv'
  BY <1>0, <1>18 DEF ReadToRevoke, Becomes, Idle, NoLeases, Op, FailInv, TypeOK, Processes, Records, Fingerprints, In, disk, world, history
<1>19. ASSUME NEW l \in Leases, Expire(l) PROVE FailInv'
  BY <1>0, <1>19 DEF Expire, FailInv, TypeOK, Processes, Records, Fingerprints, In, disk, world, history
<1>20. ASSUME Edit PROVE FailInv'
  BY <1>0, <1>20 DEF Edit, FailInv, TypeOK, Processes, Records, Fingerprints, In, disk, world, history
<1>21. CASE UNCHANGED vars
  BY <1>0, <1>21 DEF vars, FailInv, TypeOK, Processes, Records, Fingerprints, In, disk, world, history
<1> QED
  BY <1>1, <1>2, <1>3, <1>4, <1>5, <1>6, <1>7, <1>8, <1>9, <1>10, <1>11, <1>12, <1>13, <1>14, <1>15, <1>16, <1>17, <1>18, <1>19, <1>20, <1>21 DEF Next, Step

\* Every step keeps the invariant.
LEMMA IInvHolds == Spec => []IInv
<1>1. IInv /\ [Next]_vars => IInv'
  BY TypeStep, LeaseStep, RunStep, FailStep DEF IInv
<1> QED
  BY <1>1, InitEstablishesIInv, PTL DEF Spec

-----------------------------------------------------------------------------
\* The variables keep their types.
THEOREM TypeCorrect == Spec => []TypeOK
<1>1. IInv => TypeOK
  BY DEF IInv
<1> QED
  BY <1>1, IInvHolds, PTL

\* The file of leases loses nothing unless two processes change it at once.
THEOREM LeasesAreKept == Spec => []LeasesKept
<1>1. IInv => LeasesKept
  BY DEF IInv, LeaseInv, LeasesKept
<1> QED
  BY <1>1, IInvHolds, PTL

\* No verdict is without its evidence.
THEOREM VerdictsHaveEvidence == Spec => []VerdictHasEvidence
<1>1. IInv => VerdictHasEvidence
  BY DEF IInv, RunInv, VerdictHasEvidence
<1> QED
  BY <1>1, IInvHolds, PTL

\* What has failed is not repeated.
THEOREM FailuresBlock == Spec => NoRepeat
<1>1. ASSUME IInv, NEW p \in Procs, Start(p), NEW e \in Errors,
             <<Command(p), proc[p].tree, e>> \in failed
      PROVE  <<Command(p), proc[p].tree, e>>[1] \in passed
  <2>1. failures[<<Command(p), proc[p].tree, e>>] # "open"
    BY <1>1 DEF Start, Blocked
  <2> QED
    BY <1>1, <2>1 DEF IInv, FailInv
<1>2. IInv => [\A p \in Procs :
         Start(p) => \A e \in Errors :
           LET f == <<Command(p), proc[p].tree, e>>
           IN  f \in failed => f[1] \in passed]_vars
  BY <1>1
<1> QED
  BY <1>2, IInvHolds, PTL DEF NoRepeat
=============================================================================
