------------------------ MODULE AgentSession_proofs ------------------------
(***************************************************************************)
(* Safety of the session around the agent, for any number of prompts,      *)
(* messages, bash commands, retries, compactions and aborts.               *)
(***************************************************************************)
EXTENDS AgentSession, FiniteSetTheorems, WellFoundedInduction, TLAPS

-----------------------------------------------------------------------------
(* The threads.                                                            *)

\* Where a thread stands while the turn is its own.
AtTurn == {"post", "cancelled", "check", "decide", "continue", "leave"}
PCs    == Settled \cup AtTurn \cup {"off", "preflight", "running", "backoff", "compacting"}

\* The thread that has the turn, the one that runs the agent and the one whose
\* sleep can be cancelled are told by their program counters.
ThreadInv ==
  /\ pc \in [Prompts -> PCs]
  /\ turn \in Prompts \cup {None}
  /\ stage \in [Prompts -> {"check", "before", "main"}]
  /\ DOMAIN compaction = Prompts
  /\ activeRun \in Prompts \cup {None}
  /\ phase \in Phases
  /\ phase = "idle" <=> activeRun = None
  /\ \A p \in Prompts : turn = p <=> pc[p] \in AtTurn
  /\ \A p \in Prompts : activeRun = p <=> pc[p] = "running"
  /\ retryController \in Prompts \cup {None}
  /\ retryController # None => pc[retryController] \in {"backoff", "cancelled"}

\* The initial state: all threads are off.
LEMMA InitThread == Init => ThreadInv
BY NoneAssumption DEF Init, ThreadInv, PCs, AtTurn, Settled, Phases

\* Every step keeps it.
LEMMA ThreadInductive == ThreadInv /\ [Next]_vars => ThreadInv'
<1> SUFFICES ASSUME ThreadInv, [Next]_vars PROVE ThreadInv'
  OBVIOUS
<1> USE NoneAssumption DEF ThreadInv, PCs, AtTurn, Settled, Phases
<1>1. CASE Outside /\ Announce
  BY <1>1
     DEF Announce, UserMessage, Outside, queueVars, mirrorVars, retryVars, threadVars,
         manualVars, bashVars, boundVars
<1>2. CASE Outside /\ FirstPoll
  BY <1>2
     DEF FirstPoll, UserMessage, Outside, mirrorVars, overflowVars, retryVars, threadVars,
         manualVars, bashVars, boundVars
<1>3. CASE Outside /\ PollQueues
  BY <1>3
     DEF PollQueues, AgentEnd, Outside, queueVars, mirrorVars, overflowVars, retryVars,
         threadVars, manualVars, bashVars, boundVars
<1>4. ASSUME NEW k \in Kinds, Outside, Answer(k) PROVE ThreadInv'
  BY <1>4
     DEF Answer, AssistantMessage, AgentEnd, Outside, queueVars, mirrorVars, threadVars,
         manualVars, bashVars
<1>5. CASE Outside /\ ToolEnds
  BY <1>5
     DEF ToolEnds, Outside, queueVars, mirrorVars, overflowVars, retryVars, threadVars,
         manualVars, bashVars, boundVars
<1>6. CASE Outside /\ RunEnds
  BY <1>6
     DEF RunEnds, Finishes, Outside, queueVars, mirrorVars, overflowVars, retryVars,
         manualVars, bashVars, boundVars
<1>7. ASSUME NEW p \in Prompts, Prompt(p) PROVE ThreadInv'
  <2>1. /\ pc[p] = "off" /\ turn = None
        /\ UNCHANGED <<activeRun, phase, stage, retryController, compaction>>
    BY <1>7 DEF Prompt, GoTo, Outside, retryVars
  <2>2. \/ pc' = [pc EXCEPT ![p] = "preflight"] /\ turn' = None
        \/ pc' = [pc EXCEPT ![p] = "check"] /\ turn' = p
    BY <1>7, <2>1 DEF Prompt, GoTo
  <2> QED BY <2>1, <2>2
<1>8. ASSUME NEW p \in Prompts, AcceptAndRun(p) PROVE ThreadInv'
  <2>1. /\ pc[p] = "preflight" /\ turn = None /\ stage' = [stage EXCEPT ![p] = "main"]
        /\ UNCHANGED <<turn, retryController, compaction>>
    BY <1>8 DEF AcceptAndRun, Outside, retryVars
  <2>2. CASE pc' = [pc EXCEPT ![p] = "failed"] /\ UNCHANGED <<activeRun, phase>>
    BY <2>1, <2>2
  <2>3. CASE ~ isStreaming /\ StartRun(p, p, "begin") /\ pc' = [pc EXCEPT ![p] = "running"]
    BY <2>1, <2>3 DEF StartRun, isStreaming
  <2> QED BY <1>8, <2>2, <2>3 DEF AcceptAndRun, GoTo
<1>9. ASSUME NEW p \in Prompts, Post(p) PROVE ThreadInv'
  BY <1>9
     DEF Post, GoTo, queueVars, mirrorVars, overflowVars, retryVars, manualVars, bashVars,
         boundVars
<1>10. ASSUME NEW p \in Prompts, Cancelled(p) PROVE ThreadInv'
  BY <1>10
     DEF Cancelled, GoTo, agentVars, queueVars, mirrorVars, overflowVars, manualVars,
         bashVars, boundVars
<1>11. ASSUME NEW p \in Prompts, BackoffExpires(p) PROVE ThreadInv'
  BY <1>11
     DEF BackoffExpires, GoTo, Outside, agentVars, queueVars, mirrorVars, overflowVars,
         manualVars, bashVars, boundVars
<1>12. ASSUME NEW p \in Prompts, Check(p) PROVE ThreadInv'
  BY <1>12
     DEF Check, GoTo, StartCompaction, NotCompacted, queueVars, mirrorVars, retryVars,
         manualVars, bashVars
<1>13. ASSUME NEW p \in Prompts, CompactionSucceeds(p) PROVE ThreadInv'
  BY <1>13
     DEF CompactionSucceeds, GoTo, NotCompacted, Outside, queueVars, mirrorVars, retryVars,
         manualVars, bashVars, boundVars
<1>14. ASSUME NEW p \in Prompts, CompactionFails(p) PROVE ThreadInv'
  BY <1>14
     DEF CompactionFails, GoTo, NotCompacted, Outside, agentVars, queueVars, mirrorVars,
         overflowVars, retryVars, manualVars, bashVars, boundVars
<1>15. ASSUME NEW p \in Prompts, Decide(p) PROVE ThreadInv'
  BY <1>15
     DEF Decide, GoTo, agentVars, queueVars, mirrorVars, overflowVars, retryVars, manualVars,
         bashVars, boundVars
<1>16. ASSUME NEW p \in Prompts, Continue(p) PROVE ThreadInv'
  <2>1. pc[p] = "continue" /\ turn = p /\ UNCHANGED <<retryController, compaction>>
    BY <1>16 DEF Continue, retryVars
  <2>2. CASE Throw(p)
    BY <2>1, <2>2 DEF Throw, GoTo
  <2>3. ASSUME NEW m, NEW ph \in {"poll", "inject", "begin"}, ~ isStreaming, StartRun(p, m, ph),
               pc' = [pc EXCEPT ![p] = "running"], turn' = None, stage' = stage
        PROVE  ThreadInv'
    BY <2>1, <2>3 DEF StartRun, isStreaming
  <2> QED BY <1>16, <2>2, <2>3 DEF Continue, GoTo
<1>17. ASSUME NEW p \in Prompts, Leave(p) PROVE ThreadInv'
  BY <1>17
     DEF Leave, GoTo, FlushBash, queueVars, mirrorVars, overflowVars, retryVars, manualVars,
         boundVars
<1>18. ASSUME NEW m \in Notes, Steer(m) PROVE ThreadInv'
  BY <1>18
     DEF Steer, agentVars, overflowVars, retryVars, threadVars, manualVars, bashVars,
         boundVars
<1>19. ASSUME NEW m \in Notes, FollowUp(m) PROVE ThreadInv'
  BY <1>19
     DEF FollowUp, agentVars, overflowVars, retryVars, threadVars, manualVars, bashVars,
         boundVars
<1>20. CASE ClearQueue
  BY <1>20
     DEF ClearQueue, agentVars, overflowVars, retryVars, threadVars, manualVars, bashVars
<1>21. CASE AbortRetry
  BY <1>21
     DEF AbortRetry, CancelSleep, Outside, agentVars, queueVars, mirrorVars, overflowVars,
         retryVars, manualVars, bashVars
<1>22. CASE Abort
  BY <1>22
     DEF Abort, CancelSleep, Outside, queueVars, mirrorVars, overflowVars, retryVars,
         manualVars, bashVars
<1>23. ASSUME NEW b \in Bashes, RecordBash(b) PROVE ThreadInv'
  BY <1>23
     DEF RecordBash, FlushBash, queueVars, mirrorVars, overflowVars, retryVars, threadVars,
         manualVars, boundVars
<1>24. CASE CompactCalled
  BY <1>24
     DEF CompactCalled, CancelSleep, Outside, queueVars, mirrorVars, overflowVars, retryVars,
         bashVars, boundVars
<1>25. CASE CompactBegins
  BY <1>25
     DEF CompactBegins, agentVars, queueVars, mirrorVars, overflowVars, retryVars,
         threadVars, bashVars, boundVars
<1>26. CASE CompactSucceeds
  BY <1>26
     DEF CompactSucceeds, queueVars, mirrorVars, overflowVars, retryVars, threadVars,
         bashVars, boundVars
<1>27. CASE CompactFails
  BY <1>27
     DEF CompactFails, agentVars, queueVars, mirrorVars, overflowVars, retryVars, threadVars,
         bashVars, boundVars
<1>28. CASE UNCHANGED vars
  BY <1>28
     DEF vars, agentVars, queueVars, mirrorVars, overflowVars, retryVars, threadVars,
         manualVars, bashVars, boundVars
<1> QED
  BY <1>1, <1>2, <1>3, <1>4, <1>5, <1>6, <1>7, <1>8, <1>9, <1>10, <1>11, <1>12, <1>13, <1>14,
     <1>15, <1>16, <1>17, <1>18, <1>19, <1>20, <1>21, <1>22, <1>23, <1>24, <1>25, <1>26, <1>27,
     <1>28
     DEF Next, AgentStep, Thread, Manual

\* All threads stand where they may.
LEMMA ThreadHolds == Spec => []ThreadInv
BY InitThread, ThreadInductive, PTL DEF Spec


-----------------------------------------------------------------------------
(* One prompt at a time.                                                   *)

Busy(p) == pc[p] \notin {"off"} \cup Settled
Alone   == \A p, q \in Prompts : Busy(p) /\ Busy(q) => p = q

\* No step makes a second thread busy: prompt() waits, and the others go on
\* with the thread that is busy.
LEMMA AloneInductive ==
  ASSUME Serial
  PROVE  ThreadInv /\ Alone /\ [Next]_vars => Alone'
<1> SUFFICES ASSUME ThreadInv, Alone, [Next]_vars PROVE Alone'
  OBVIOUS
<1> USE DEF Alone, Busy, Settled
<1>1. CASE UNCHANGED pc
  BY <1>1
<1>2. ASSUME NEW p \in Prompts, Prompt(p) PROVE Alone'
  BY <1>2 DEF Prompt, GoTo, ThreadInv, PCs
<1>3. ASSUME NEW p \in Prompts, Busy(p), \E l : pc' = [pc EXCEPT ![p] = l] PROVE Alone'
  BY <1>3 DEF ThreadInv
<1>4. ASSUME NEW p \in Prompts, Thread(p) PROVE Busy(p) /\ \E l : pc' = [pc EXCEPT ![p] = l]
  BY <1>4 DEF Thread, AcceptAndRun, Post, Cancelled, BackoffExpires, Check, StartCompaction,
              NotCompacted, CompactionSucceeds, CompactionFails, Decide, Continue, Throw, Leave, GoTo
<1>5. ASSUME RunEnds PROVE Alone'
  <2>1. activeRun \in Prompts /\ Busy(activeRun)
    BY <1>5 DEF RunEnds, Finishes, ThreadInv
  <2> QED BY <1>5, <1>3, <2>1 DEF RunEnds
<1>6. ASSUME CancelSleep PROVE Alone'
  BY <1>6, <1>1, <1>3 DEF CancelSleep, ThreadInv
<1>7. \/ UNCHANGED pc
      \/ \E p \in Prompts : Prompt(p) \/ Thread(p)
      \/ RunEnds
      \/ CancelSleep
  BY DEF Next, AgentStep, Manual, vars, threadVars, Announce, FirstPoll, PollQueues, Answer,
         ToolEnds, Steer, FollowUp, ClearQueue, AbortRetry, Abort, RecordBash, CompactCalled,
         CompactBegins, CompactSucceeds, CompactFails
<1> QED BY <1>1, <1>2, <1>3, <1>4, <1>5, <1>6, <1>7

\* One thread at a time is between its call and its return.
LEMMA AloneHolds == ASSUME Serial PROVE Spec => [](ThreadInv /\ Alone)
<1>1. Init => Alone
  BY DEF Init, Alone, Busy
<1> QED BY <1>1, InitThread, ThreadInductive, AloneInductive, PTL DEF Spec

-----------------------------------------------------------------------------
(* Overflow.                                                               *)

\* After an overflow compaction the recovery counts as tried until a user
\* message or a good answer, and one is under way only where none was.
OverflowInv ==
  /\ overflowAttempted \in BOOLEAN
  /\ overflowStreak \in {0, 1}
  /\ overflowStreak = 1 => overflowAttempted
  /\ \A p \in Prompts : pc[p] = "compacting" /\ compaction[p].reason = "overflow" =>
       overflowAttempted /\ overflowStreak = 0

\* While the agent runs no compaction of a prompt is under way.
LEMMA RunsAlone ==
  ASSUME ThreadInv, Alone, phase # "idle"
  PROVE  \A p \in Prompts : pc[p] # "compacting"
BY NoneAssumption DEF ThreadInv, Alone, Busy, Settled


\* The events of the agent: a user message and a good answer forget both.
LEMMA AgentOverflow ==
  ASSUME OverflowInv, AgentStep
  PROVE  /\ overflowAttempted' \in BOOLEAN
         /\ overflowStreak' \in {0, 1}
         /\ overflowStreak' = 1 => overflowAttempted'
<1> USE DEF OverflowInv, overflowVars
<1>1. ASSUME NEW m, UserMessage(m) PROVE overflowStreak' = 0 /\ overflowAttempted' \in BOOLEAN
  BY <1>1 DEF UserMessage
<1>2. CASE Announce
  BY <1>1, <1>2 DEF Announce
<1>3. CASE FirstPoll
  BY <1>1, <1>3 DEF FirstPoll
<1>4. ASSUME NEW k \in Kinds, Answer(k)
      PROVE  /\ overflowAttempted' \in BOOLEAN
             /\ overflowStreak' = 0 \/ UNCHANGED <<overflowAttempted, overflowStreak>>
  BY <1>4 DEF Answer, AssistantMessage
<1>5. CASE PollQueues \/ ToolEnds \/ RunEnds
  BY <1>5 DEF PollQueues, ToolEnds, RunEnds
<1> QED BY <1>2, <1>3, <1>4, <1>5 DEF AgentStep

LEMMA OverflowInductive ==
  ThreadInv /\ Alone /\ OverflowInv /\ [Next]_vars => OverflowInv'
<1> SUFFICES ASSUME ThreadInv, Alone, OverflowInv, [Next]_vars PROVE OverflowInv'
  OBVIOUS
<1> USE DEF overflowVars
<1>1. ASSUME UNCHANGED <<overflowVars, compaction>>,
             \A p \in Prompts : pc'[p] = "compacting" => pc[p] = "compacting"
      PROVE  OverflowInv'
  BY <1>1 DEF OverflowInv
<1>2. CASE AgentStep
  <2>1. \A p \in Prompts : pc'[p] # "compacting"
    <3>1. \A p \in Prompts : pc[p] # "compacting"
      BY <1>2, RunsAlone
         DEF AgentStep, Announce, FirstPoll, PollQueues, Answer, ToolEnds, RunEnds, Finishes
    <3>2. \/ UNCHANGED pc
          \/ pc' = [pc EXCEPT ![activeRun] = "post"]
      BY <1>2 DEF AgentStep, threadVars, Announce, FirstPoll, PollQueues, Answer, ToolEnds, RunEnds
    <3> QED BY <3>1, <3>2 DEF ThreadInv
  <2> QED BY <1>2, <2>1, AgentOverflow DEF OverflowInv
<1>3. ASSUME NEW p \in Prompts, Prompt(p) PROVE OverflowInv'
  BY <1>3, <1>1 DEF Prompt, GoTo, ThreadInv
<1>4. ASSUME NEW p \in Prompts, Thread(p) PROVE OverflowInv'
  <2>1. \A q \in Prompts : q # p => pc[q] # "compacting"
    BY <1>4 DEF Thread, AcceptAndRun, Post, Cancelled, BackoffExpires, Check, CompactionSucceeds,
                CompactionFails, Decide, Continue, Leave, Alone, Busy, Settled
  <2>2. CASE CompactionSucceeds(p)
    <3>1. \A q \in Prompts : pc'[q] # "compacting"
      BY <2>1, <2>2 DEF CompactionSucceeds, NotCompacted, GoTo, ThreadInv
    <3> QED BY <2>2, <3>1 DEF CompactionSucceeds, OverflowInv
  <2>3. CASE CompactionFails(p)
    <3>1. \A q \in Prompts : pc'[q] # "compacting"
      BY <2>1, <2>3 DEF CompactionFails, NotCompacted, GoTo, ThreadInv
    <3> QED BY <2>3, <3>1 DEF CompactionFails, OverflowInv
  <2>4. CASE Check(p)
    <3>1. CASE ~ Attempted /\ overflowAttempted' = TRUE /\ overflowStreak' = overflowStreak
      BY <3>1 DEF Attempted, OverflowInv
    <3>2. CASE StartCompaction(p, "threshold") /\ UNCHANGED <<overflowAttempted, overflowStreak>>
      <4>1. \A q \in Prompts : pc'[q] = "compacting" => compaction'[q].reason # "overflow"
        BY <2>1, <3>2, <2>4 DEF Check, StartCompaction, NotCompacted, GoTo, ThreadInv
      <4> QED BY <3>2, <4>1 DEF OverflowInv
    <3>3. CASE NotCompacted(p) /\ UNCHANGED <<overflowAttempted, overflowStreak, compaction>>
      BY <3>3, <1>1 DEF NotCompacted, GoTo, ThreadInv
    <3> QED BY <2>4, <3>1, <3>2, <3>3 DEF Check
  <2>5. CASE AcceptAndRun(p) \/ Post(p) \/ Cancelled(p) \/ BackoffExpires(p) \/ Decide(p)
               \/ Continue(p) \/ Leave(p)
    <3>1. UNCHANGED <<overflowVars, compaction>>
      BY <2>5 DEF AcceptAndRun, Post, Cancelled, BackoffExpires, Decide, Continue, Leave, threadVars
    <3>2. \E l : l # "compacting" /\ pc' = [pc EXCEPT ![p] = l]
      BY <2>5 DEF AcceptAndRun, Post, Cancelled, BackoffExpires, Decide, Continue, Throw, Leave, GoTo
    <3> QED BY <3>1, <3>2, <1>1 DEF ThreadInv
  <2> QED BY <1>4, <2>2, <2>3, <2>4, <2>5 DEF Thread
<1>5. CASE CancelSleep /\ UNCHANGED <<overflowVars, compaction>>
  BY <1>5, <1>1 DEF CancelSleep, ThreadInv
<1>6. CASE UNCHANGED <<overflowVars, compaction, pc>>
  BY <1>6, <1>1
<1>7. \/ UNCHANGED <<overflowVars, compaction, pc>>
      \/ CancelSleep /\ UNCHANGED <<overflowVars, compaction>>
      \/ AgentStep
      \/ \E p \in Prompts : Prompt(p) \/ Thread(p)
  BY DEF Next, Manual, vars, threadVars, Steer, FollowUp, ClearQueue, AbortRetry, Abort, RecordBash,
         CompactCalled, CompactBegins, CompactSucceeds, CompactFails
<1> QED BY <1>2, <1>3, <1>4, <1>5, <1>6, <1>7

\* With one prompt at a time, at most one overflow compaction happens without a
\* user message or a good answer in between, for any number of aborts, manual
\* compactions and errors.
THEOREM OverflowOnceHolds == ASSUME Serial PROVE Spec => []OverflowOnce
<1>1. Init => OverflowInv
  <2> SUFFICES ASSUME Init PROVE OverflowInv
    OBVIOUS
  <2>1. \A p \in Prompts : pc[p] # "compacting"
    BY DEF Init
  <2>2. overflowAttempted \in BOOLEAN /\ overflowStreak \in {0, 1} /\ overflowStreak # 1
    <3>1. overflowAttempted = FALSE
      BY DEF Init
    <3>2. overflowAttempted \in BOOLEAN
      BY <3>1, Zenon
    <3>3. overflowStreak = 0
      BY DEF Init
    <3> QED BY <3>2, <3>3
  <2> QED BY <2>1, <2>2 DEF OverflowInv
<1>2. OverflowInv => OverflowOnce
  BY DEF OverflowInv, OverflowOnce
<1> QED BY <1>1, <1>2, AloneHolds, OverflowInductive, PTL DEF Spec


-----------------------------------------------------------------------------
(* Sessions that are never compacted by hand: they hear all of the agent.  *)

Heard == connected = TRUE /\ manual = "off" /\ manuals = 0

\* Without a call of compact() the session stays subscribed.
LEMMA HeardInductive == ASSUME MaxManual = 0 PROVE Heard /\ [Next]_vars => Heard'
<1> SUFFICES ASSUME Heard, [Next]_vars PROVE Heard'
  OBVIOUS
<1>1. \/ UNCHANGED manualVars
      \/ CompactCalled \/ Manual
  <2>1. CASE AgentStep
    BY <2>1 DEF AgentStep, Announce, FirstPoll, PollQueues, Answer, ToolEnds, RunEnds
  <2>2. ASSUME NEW p \in Prompts, Prompt(p) \/ Thread(p)
        PROVE  UNCHANGED manualVars
    BY <2>2 DEF Thread, Prompt, AcceptAndRun, Post, Cancelled, BackoffExpires, Check,
                CompactionSucceeds, CompactionFails, Decide, Continue, Leave
  <2>3. CASE \/ \E m \in Notes : Steer(m) \/ FollowUp(m)
             \/ ClearQueue \/ AbortRetry \/ Abort \/ UNCHANGED vars
             \/ \E b \in Bashes : RecordBash(b)
    BY <2>3 DEF vars, Steer, FollowUp, ClearQueue, AbortRetry, Abort, RecordBash
  <2> QED BY <2>1, <2>2, <2>3 DEF Next
<1>2. ~ CompactCalled
  BY DEF CompactCalled, Heard
<1>3. ~ Manual
  BY DEF Manual, CompactBegins, CompactSucceeds, CompactFails, CompactWakes, Heard
<1> QED BY <1>1, <1>2, <1>3 DEF manualVars, Heard

\* The session knows the last answer of a run from the answer to the handling of
\* its end, and a thread that leaves has just found the queues empty.
KnownInv ==
  /\ phase \in {"tools", "toolTurn", "turnEnd", "settling"} => lastAssistant # NoMessage
  /\ \A p \in Prompts : pc[p] = "post" => phase = "idle" /\ lastAssistant # NoMessage
  /\ \A p \in Prompts : pc[p] = "leave" => ~ HasQueued

\* An answer is a message.
LEMMA SaidIsMessage == \A k : Said(k) # NoMessage /\ Said(k).what = k
BY DEF Said, NoMessage

\* The steps of the agent keep it.
LEMMA AgentKnows == ThreadInv /\ Heard /\ KnownInv /\ AgentStep => KnownInv'
<1> SUFFICES ASSUME ThreadInv, Heard, KnownInv, AgentStep PROVE KnownInv'
  OBVIOUS
<1> USE NoneAssumption DEF KnownInv, ThreadInv, AtTurn
<1>1. \A p \in Prompts : pc[p] \notin {"post", "leave"}
  BY DEF AgentStep, Outside
<1>2. CASE Announce
  BY <1>1, <1>2 DEF Announce, threadVars
<1>3. CASE FirstPoll
  BY <1>1, <1>3 DEF FirstPoll, threadVars
<1>4. CASE PollQueues
  BY <1>1, <1>4 DEF PollQueues, AgentEnd, threadVars
<1>5. ASSUME NEW k \in Kinds, Answer(k) PROVE KnownInv'
  BY <1>1, <1>5, SaidIsMessage DEF Answer, AssistantMessage, Heard, threadVars
<1>6. CASE ToolEnds
  BY <1>1, <1>6 DEF ToolEnds, threadVars
<1>7. CASE RunEnds
  <2>1. lastAssistant' # NoMessage /\ phase' = "idle" /\ pc' = [pc EXCEPT ![activeRun] = "post"]
    BY <1>7 DEF RunEnds, Finishes
  <2> QED BY <1>1, <2>1
<1> QED BY <1>2, <1>3, <1>4, <1>5, <1>6, <1>7 DEF AgentStep

\* The steps of the threads keep it.
LEMMA ThreadKnows == ThreadInv /\ KnownInv /\ (\E p \in Prompts : Thread(p)) => KnownInv'
<1> SUFFICES ASSUME ThreadInv, KnownInv, NEW p \in Prompts, Thread(p) PROVE KnownInv'
  OBVIOUS
<1> USE NoneAssumption DEF KnownInv, ThreadInv, AtTurn, GoTo, Outside, queueVars, threadVars, agentVars,
        HasQueued
<1>1. CASE AcceptAndRun(p)
  BY <1>1 DEF AcceptAndRun, StartRun, isStreaming
<1>2. CASE Post(p)
  <2>1. pc[p] = "post" /\ phase = "idle" /\ lastAssistant # NoMessage
    BY <1>2 DEF Post
  <2>2. \A q \in Prompts : q # p => pc[q] \notin {"post", "leave"}
    BY <1>2 DEF Post
  <2>3. phase' = "idle" /\ \E l \in {"backoff", "check"} : pc' = [pc EXCEPT ![p] = l]
    BY <1>2, <2>1 DEF Post
  <2> QED BY <2>2, <2>3
<1>3. CASE Cancelled(p)
  BY <1>3 DEF Cancelled
<1>4. CASE BackoffExpires(p)
  BY <1>4 DEF BackoffExpires
<1>5. CASE Check(p)
  BY <1>5 DEF Check, StartCompaction, NotCompacted
<1>6. CASE CompactionSucceeds(p)
  BY <1>6 DEF CompactionSucceeds, NotCompacted
<1>7. CASE CompactionFails(p)
  BY <1>7 DEF CompactionFails, NotCompacted
<1>8. CASE Decide(p)
  BY <1>8 DEF Decide, NothingQueued
<1>9. CASE Continue(p)
  <2>1. \A q \in Prompts : pc[q] \notin {"post", "leave"}
    BY <1>9 DEF Continue
  <2>2. UNCHANGED lastAssistant /\ \E l \in {"failed", "rejected", "running"} : pc' = [pc EXCEPT ![p] = l]
    BY <1>9 DEF Continue, Throw
  <2>3. UNCHANGED phase \/ phase' \in {"poll", "inject", "begin"}
    BY <1>9 DEF Continue, Throw, StartRun
  <2> QED BY <2>1, <2>2, <2>3
<1>10. CASE Leave(p)
  BY <1>10 DEF Leave
<1> QED BY <1>1, <1>2, <1>3, <1>4, <1>5, <1>6, <1>7, <1>8, <1>9, <1>10 DEF Thread

\* Every step keeps it.
LEMMA KnownInductive == ThreadInv /\ Heard /\ KnownInv /\ [Next]_vars => KnownInv'
<1> SUFFICES ASSUME ThreadInv, Heard, KnownInv, [Next]_vars PROVE KnownInv'
  OBVIOUS
<1> USE NoneAssumption DEF KnownInv, ThreadInv, AtTurn
<1>1. ASSUME NEW p \in Prompts, Prompt(p) PROVE KnownInv'
  BY <1>1 DEF Prompt, GoTo, queueVars, HasQueued
<1>2. CASE UNCHANGED <<phase, lastAssistant, pc>> /\ (UNCHANGED queueVars \/ turn = None)
  BY <1>2 DEF queueVars, HasQueued
<1>3. CASE CancelSleep /\ UNCHANGED <<phase, lastAssistant, queueVars>>
  BY <1>3 DEF CancelSleep, queueVars, HasQueued
<1>4. \/ UNCHANGED <<phase, lastAssistant, pc>> /\ (UNCHANGED queueVars \/ turn = None)
      \/ CancelSleep /\ UNCHANGED <<phase, lastAssistant, queueVars>>
      \/ AgentStep
      \/ \E p \in Prompts : Prompt(p) \/ Thread(p)
  BY DEF Next, Manual, vars, agentVars, threadVars, queueVars, Outside, Steer, FollowUp, ClearQueue,
         AbortRetry, Abort, RecordBash, CompactCalled, CompactBegins, CompactSucceeds, CompactFails
<1> QED BY <1>1, <1>2, <1>3, <1>4, AgentKnows, ThreadKnows

LEMMA KnownHolds == ASSUME MaxManual = 0 PROVE Spec => [](ThreadInv /\ Heard /\ KnownInv)
<1>1. Init => Heard
  BY DEF Init, Heard
<1>2. Init => KnownInv
  BY DEF Init, KnownInv
<1> QED BY <1>1, <1>2, InitThread, ThreadInductive, HeardInductive, KnownInductive, PTL DEF Spec

\* A thread that leaves leaves no queued message behind, however many prompts
\* overlap, in a session that is not compacted by hand.
THEOREM NothingIsLeftBehind == ASSUME MaxManual = 0 PROVE Spec => NothingLeftBehind
<1>1. KnownInv => (\A p \in Prompts : pc[p] = "leave" /\ pc'[p] # "leave" => ~ HasQueued)
  BY DEF KnownInv
<1>2. KnownInv /\ [Next]_vars
        => [\A p \in Prompts : pc[p] = "leave" /\ pc'[p] # "leave" => ~ HasQueued]_vars
  BY <1>1
<1> QED BY <1>2, KnownHolds, PTL DEF Spec, NothingLeftBehind


\* What agent_end said of the retry stays true until the run is handled: no
\* other thread takes an attempt meanwhile.
WillInv ==
  /\ willRetry \in BOOLEAN
  /\ phase = "turnEnd" => lastAssistant.what # "retryable"
  /\ phase = "settling" \/ (\E p \in Prompts : pc[p] = "post") =>
       (willRetry <=> lastAssistant.what = "retryable" /\ RetriesLeft)

\* The steps of the agent keep it.
LEMMA AgentWill == ThreadInv /\ Heard /\ WillInv /\ AgentStep => WillInv'
<1> SUFFICES ASSUME ThreadInv, Heard, WillInv, AgentStep PROVE WillInv'
  OBVIOUS
<1> USE NumbersAssumption, NoneAssumption DEF WillInv, ThreadInv, AtTurn, RetriesLeft
<1>1. \A p \in Prompts : pc[p] # "post"
  BY DEF AgentStep, Outside
<1>2. CASE Announce
  BY <1>1, <1>2 DEF Announce, threadVars, retryVars
<1>3. CASE FirstPoll
  BY <1>1, <1>3 DEF FirstPoll, threadVars, retryVars
<1>4. CASE PollQueues
  <2>1. UNCHANGED <<pc, lastAssistant, retryAttempt>>
    BY <1>4 DEF PollQueues, threadVars, retryVars
  <2>2. CASE phase' \in {"inject", "stream"} /\ UNCHANGED willRetry
    BY <1>1, <2>1, <2>2
  <2>3. CASE phase = "turnEnd" /\ AgentEnd("text")
    <3>1. willRetry' = FALSE
      BY <2>3 DEF AgentEnd, WillRetryAfter, Heard
    <3>2. phase' = "settling" /\ lastAssistant'.what # "retryable" /\ willRetry' \in BOOLEAN
      BY <2>1, <2>3, <3>1 DEF AgentEnd
    <3> QED BY <3>1, <3>2
  <2> QED BY <1>4, <2>2, <2>3 DEF PollQueues
<1>5. ASSUME NEW k \in Kinds, Answer(k) PROVE WillInv'
  <2>1. lastAssistant'.what = k /\ (k \in Errors => retryAttempt' = retryAttempt) /\ UNCHANGED pc
    BY <1>5, SaidIsMessage DEF Answer, AssistantMessage, EndsRetry, Heard, threadVars
  <2>2. CASE phase' = "settling" /\ willRetry' = WillRetryAfter(k)
    <3>1. phase' = "settling" /\ willRetry' = (k = "retryable" /\ retryAttempt < MaxRetries)
      BY <2>2 DEF WillRetryAfter
    <3>2. willRetry' <=> k = "retryable" /\ retryAttempt' < MaxRetries
      BY <2>1, <3>1 DEF Errors
    <3>3. willRetry' \in BOOLEAN
      BY <3>1
    <3> QED BY <2>1, <3>1, <3>2, <3>3
  <2>3. CASE k \notin Errors /\ phase' \in {"tools", "turnEnd"} /\ UNCHANGED willRetry
    BY <1>1, <2>1, <2>3 DEF Errors
  <2>4. CASE k \in Errors \cup {"aborted"}
    <3>1. phase' = "settling"
      BY <1>5, <2>4 DEF Answer, AgentEnd, Errors
    <3>2. willRetry' = IF connected THEN WillRetryAfter(k) ELSE willRetry
      BY <1>5, <2>4 DEF Answer, AgentEnd, Errors
    <3> QED BY <2>2, <3>1, <3>2 DEF Heard
  <2>5. CASE k \notin Errors \cup {"aborted"}
    BY <1>5, <2>3, <2>5 DEF Answer
  <2> QED BY <2>4, <2>5
<1>6. CASE ToolEnds
  BY <1>1, <1>6 DEF ToolEnds, threadVars, retryVars
<1>7. CASE RunEnds
  BY <1>7 DEF RunEnds, Finishes, retryVars
<1> QED BY <1>2, <1>3, <1>4, <1>5, <1>6, <1>7 DEF AgentStep

\* No thread takes an attempt while another has a run or its end to handle.
LEMMA ThreadWill ==
  ThreadInv /\ Alone /\ KnownInv /\ WillInv /\ (\E p \in Prompts : Thread(p)) => WillInv'
<1> SUFFICES ASSUME ThreadInv, Alone, KnownInv, WillInv, NEW p \in Prompts, Thread(p) PROVE WillInv'
  OBVIOUS
<1> USE NoneAssumption DEF ThreadInv, threadVars, agentVars
<1>1. pc[p] # "running" /\ Busy(p) /\ UNCHANGED willRetry
  BY DEF Thread, AcceptAndRun, Post, Cancelled, BackoffExpires, Check, CompactionSucceeds,
         CompactionFails, Decide, Continue, Leave, Busy, Settled
<1>2. phase = "idle"
  BY <1>1 DEF Alone, Busy, Settled
<1>3. phase' \in {"idle", "poll", "inject", "begin"}
  BY <1>2 DEF Thread, AcceptAndRun, Post, Cancelled, BackoffExpires, Check, CompactionSucceeds,
         CompactionFails, Decide, Continue, Leave, StartRun, Throw
<1>4. \A q \in Prompts : q # p => pc[q] # "post"
  BY <1>1 DEF Alone, Busy, Settled
<1>5. \E l : l # "post" /\ pc' = [pc EXCEPT ![p] = l]
  BY DEF Thread, AcceptAndRun, Post, Cancelled, BackoffExpires, Check, StartCompaction, NotCompacted,
         CompactionSucceeds, CompactionFails, Decide, Continue, Throw, Leave, GoTo
<1>6. \A q \in Prompts : pc'[q] # "post"
  BY <1>4, <1>5
<1> QED BY <1>1, <1>3, <1>6 DEF WillInv

\* Every step keeps it.
LEMMA WillInductive ==
  ThreadInv /\ Alone /\ Heard /\ KnownInv /\ WillInv /\ [Next]_vars => WillInv'
<1> SUFFICES ASSUME ThreadInv, Alone, Heard, KnownInv, WillInv, [Next]_vars PROVE WillInv'
  OBVIOUS
<1>1. ASSUME UNCHANGED <<phase, lastAssistant, willRetry, retryAttempt>>,
             \A p \in Prompts : pc'[p] = "post" => pc[p] = "post"
      PROVE  WillInv'
  BY <1>1 DEF WillInv, RetriesLeft
<1>2. ASSUME NEW p \in Prompts, Prompt(p) PROVE WillInv'
  BY <1>2, <1>1 DEF Prompt, GoTo, ThreadInv, retryVars
<1>3. CASE UNCHANGED <<phase, lastAssistant, willRetry, retryAttempt>> /\ (UNCHANGED pc \/ CancelSleep)
  BY <1>3, <1>1 DEF CancelSleep, ThreadInv
<1>4. \/ UNCHANGED <<phase, lastAssistant, willRetry, retryAttempt>> /\ (UNCHANGED pc \/ CancelSleep)
      \/ AgentStep
      \/ \E p \in Prompts : Prompt(p) \/ Thread(p)
  BY DEF Next, Manual, vars, agentVars, threadVars, retryVars, Steer, FollowUp, ClearQueue,
         AbortRetry, Abort, RecordBash, CompactCalled, CompactBegins, CompactSucceeds, CompactFails
<1> QED BY <1>2, <1>3, <1>4, AgentWill, ThreadWill

\* With one prompt at a time, in a session that is not compacted by hand, the
\* thread announces a retry exactly when agent_end said so.
THEOREM RetriesAreHonoured == ASSUME Serial, MaxManual = 0 PROVE Spec => WillRetryHonoured
<1>1. Init => WillInv
  <2> SUFFICES ASSUME Init PROVE WillInv
    OBVIOUS
  <2>1. willRetry = FALSE /\ phase = "idle" /\ \A p \in Prompts : pc[p] # "post"
    BY DEF Init
  <2>2. willRetry \in BOOLEAN
    BY <2>1
  <2> QED BY <2>1, <2>2 DEF WillInv
<1>2. ASSUME ThreadInv, KnownInv, WillInv, [Next]_vars
      PROVE  [\A p \in Prompts : pc[p] = "post" /\ pc'[p] # "post" => (pc'[p] = "backoff" <=> willRetry)]_vars
  <2> SUFFICES ASSUME NEW p \in Prompts, pc[p] = "post", pc'[p] # "post"
               PROVE  pc'[p] = "backoff" <=> willRetry
    OBVIOUS
  <2>1. turn = p /\ lastAssistant # NoMessage
    BY <1>2 DEF ThreadInv, KnownInv, AtTurn
  <2>2. Post(p)
    <3>1. ~ Outside
      BY <2>1, NoneAssumption DEF Outside
    <3>2. ~ AgentStep /\ \A q \in Prompts : Thread(q) => q = p
      BY <2>1, <3>1
         DEF AgentStep, Thread, AcceptAndRun, Post, Cancelled, BackoffExpires, Check,
             CompactionSucceeds, CompactionFails, Decide, Continue, Leave
    <3>3. CASE UNCHANGED pc
      BY <3>3
    <3>4. CASE Thread(p)
      BY <3>1, <3>4
         DEF Thread, AcceptAndRun, Post, Cancelled, BackoffExpires, Check,
             CompactionSucceeds, CompactionFails, Decide, Continue, Leave
    <3>5. \/ UNCHANGED pc
          \/ \E q \in Prompts : Thread(q)
      BY <1>2, <3>1, <3>2
         DEF Next, Manual, vars, threadVars, Prompt, Steer, FollowUp, ClearQueue, AbortRetry, Abort,
             RecordBash, CompactCalled, CompactBegins, CompactSucceeds, CompactFails
    <3> QED BY <3>2, <3>3, <3>4, <3>5
  <2>3. CASE lastAssistant.what = "retryable" /\ RetriesLeft
    BY <1>2, <2>1, <2>2, <2>3 DEF Post, GoTo, ThreadInv, WillInv
  <2>4. CASE ~ (lastAssistant.what = "retryable" /\ RetriesLeft)
    BY <1>2, <2>1, <2>2, <2>4 DEF Post, GoTo, ThreadInv, WillInv
  <2> QED BY <2>3, <2>4
<1> QED BY <1>1, <1>2, AloneHolds, KnownHolds, WillInductive, PTL DEF Spec, WillRetryHonoured


-----------------------------------------------------------------------------
(* Bash commands.                                                          *)

Never(s, b) == \A i \in DOMAIN s : s[i] # Bash(b)
Once(s, b)  == \E i \in DOMAIN s : \A j \in DOMAIN s : s[j] = Bash(b) <=> j = i

\* One entry more, wherever it is put in, is one occurrence more of itself.
LEMMA OneMore ==
  ASSUME NEW S, NEW s \in Seq(S), NEW u \in Seq(S), NEW e, NEW b,
         NEW n \in 0 .. Len(s),
         Len(u) = Len(s) + 1,
         \A i \in 1 .. n : u[i] = s[i],
         u[n + 1] = e,
         \A i \in n + 1 .. Len(s) : u[i + 1] = s[i]
  PROVE  /\ e # Bash(b) /\ Never(s, b) => Never(u, b)
         /\ e # Bash(b) /\ Once(s, b) => Once(u, b)
         /\ e = Bash(b) /\ Never(s, b) => Once(u, b)
<1>1. DOMAIN s = 1 .. Len(s) /\ DOMAIN u = 1 .. Len(s) + 1
  OBVIOUS
<1>2. \A i \in DOMAIN u : \/ i \in 1 .. n
                          \/ i = n + 1
                          \/ i - 1 \in n + 1 .. Len(s) /\ u[i] = s[i - 1]
  BY <1>1
<1>3. ASSUME e # Bash(b), Never(s, b) PROVE Never(u, b)
  BY <1>1, <1>2, <1>3 DEF Never
<1>4. ASSUME e # Bash(b), Once(s, b) PROVE Once(u, b)
  <2>1. PICK i \in DOMAIN s : \A j \in DOMAIN s : s[j] = Bash(b) <=> j = i
    BY <1>4 DEF Once
  <2> DEFINE k == IF i <= n THEN i ELSE i + 1
  <2>2. k \in DOMAIN u
    BY <1>1
  <2>3. ASSUME NEW j \in DOMAIN u PROVE u[j] = Bash(b) <=> j = k
    <3>1. CASE j \in 1 .. n
      BY <1>1, <2>1, <3>1
    <3>2. CASE j = n + 1
      BY <1>1, <1>4, <3>2
    <3>3. CASE j - 1 \in n + 1 .. Len(s) /\ u[j] = s[j - 1]
      BY <1>1, <2>1, <3>3
    <3> QED BY <1>2, <3>1, <3>2, <3>3
  <2> QED BY <2>2, <2>3 DEF Once
<1>5. ASSUME e = Bash(b), Never(s, b) PROVE Once(u, b)
  <2>1. n + 1 \in DOMAIN u
    BY <1>1
  <2>2. \A j \in DOMAIN u : u[j] = Bash(b) <=> j = n + 1
    BY <1>1, <1>2, <1>5 DEF Never
  <2> QED BY <2>1, <2>2 DEF Once
<1> QED BY <1>3, <1>4, <1>5

Kept == path \o pendingBash

\* What has ended is kept once, what has not is nowhere.
BashInv ==
  /\ \E S : path \in Seq(S) /\ pendingBash \in Seq(S)
  /\ recorded \subseteq Bashes
  /\ \A b \in recorded : Once(Kept, b)
  /\ \A b \in Bashes \ recorded : Never(Kept, b)

\* Flushing moves what is deferred to the end of the path.
LEMMA FlushKeeps == BashInv /\ FlushBash /\ UNCHANGED recorded => BashInv'
<1> SUFFICES ASSUME BashInv, FlushBash, UNCHANGED recorded PROVE BashInv'
  OBVIOUS
<1>1. PICK S : path \in Seq(S) /\ pendingBash \in Seq(S)
  BY DEF BashInv
<1>2. path' \in Seq(S) /\ pendingBash' \in Seq(S) /\ Kept' = Kept
  BY <1>1 DEF FlushBash, Kept
<1> QED BY <1>2 DEF BashInv

\* An entry is appended to the path, or a command deferred.
LEMMA EntryKept ==
  ASSUME BashInv, NEW e,
         \/ path' = Append(path, e) /\ UNCHANGED pendingBash
         \/ UNCHANGED path /\ pendingBash' = Append(pendingBash, e)
  PROVE  /\ \E S : path' \in Seq(S) /\ pendingBash' \in Seq(S)
         /\ \A b : /\ e # Bash(b) /\ Never(Kept, b) => Never(Kept', b)
                   /\ e # Bash(b) /\ Once(Kept, b) => Once(Kept', b)
                   /\ e = Bash(b) /\ Never(Kept, b) => Once(Kept', b)
<1>1. PICK S : path \in Seq(S) /\ pendingBash \in Seq(S)
  BY DEF BashInv
<1> DEFINE T == S \cup {e}
<1>2. path \in Seq(T) /\ pendingBash \in Seq(T)
  BY <1>1
<1> HIDE DEF T
<1>3. path' \in Seq(T) /\ pendingBash' \in Seq(T)
  <2>1. e \in T
    BY DEF T
  <2>2. Append(path, e) \in Seq(T) /\ Append(pendingBash, e) \in Seq(T)
    BY <1>2, <2>1
  <2> QED BY <1>2, <2>2
<1>4. Kept \in Seq(T) /\ Kept' \in Seq(T) /\ Len(Kept') = Len(Kept) + 1
  BY <1>2, <1>3 DEF Kept
<1> DEFINE n == IF UNCHANGED path THEN Len(Kept) ELSE Len(path)
<1>5. /\ n \in 0 .. Len(Kept)
      /\ \A i \in 1 .. n : Kept'[i] = Kept[i]
      /\ Kept'[n + 1] = e
      /\ \A i \in n + 1 .. Len(Kept) : Kept'[i + 1] = Kept[i]
  <2>1. CASE path' = Append(path, e) /\ UNCHANGED pendingBash
    BY <1>2, <1>3, <2>1 DEF Kept
  <2>2. CASE UNCHANGED path /\ pendingBash' = Append(pendingBash, e)
    BY <1>2, <1>3, <2>2 DEF Kept
  <2> QED BY <2>1, <2>2
<1> HIDE DEF n
<1>6. ASSUME NEW b
      PROVE  /\ e # Bash(b) /\ Never(Kept, b) => Never(Kept', b)
             /\ e # Bash(b) /\ Once(Kept, b) => Once(Kept', b)
             /\ e = Bash(b) /\ Never(Kept, b) => Once(Kept', b)
  BY <1>4, <1>5, OneMore
<1> QED BY <1>3, <1>6

\* What can change the path and the deferred commands.
LEMMA PathFrame ==
  ASSUME [Next]_vars
  PROVE  \/ UNCHANGED <<path, bashVars>>
         \/ FlushBash /\ UNCHANGED recorded
         \/ UNCHANGED bashVars
              /\ \E e : (\A b : e # Bash(b)) /\ path' = Append(path, e)
         \/ \E b \in Bashes : RecordBash(b)
<1> DEFINE Other(e) == (\A b : e # Bash(b)) /\ path' = Append(path, e)
<1> DEFINE Goal == \/ UNCHANGED <<path, bashVars>>
                   \/ FlushBash /\ UNCHANGED recorded
                   \/ UNCHANGED bashVars /\ \E e : Other(e)
                   \/ \E b \in Bashes : RecordBash(b)
<1>1. /\ \A m, b : User(m) # Bash(b)
      /\ \A k, b : Said(k) # Bash(b) /\ Compaction(k) # Bash(b)
      /\ \A b : ToolResult # Bash(b)
  BY DEF User, Said, Compaction, ToolResult, Bash
<1>2. ASSUME NEW m, UserMessage(m) PROVE UNCHANGED path \/ \E e : Other(e)
  BY <1>1, <1>2 DEF UserMessage
<1>3. CASE AgentStep
  <2>1. CASE Announce
    BY <1>2, <2>1 DEF Announce
  <2>2. CASE FirstPoll
    BY <1>2, <2>2 DEF FirstPoll
  <2>3. ASSUME NEW k \in Kinds, Answer(k) PROVE Goal
    BY <1>1, <2>3 DEF Answer, AssistantMessage
  <2>4. CASE ToolEnds
    BY <1>1, <2>4 DEF ToolEnds
  <2>5. CASE PollQueues \/ RunEnds
    BY <2>5 DEF PollQueues, RunEnds
  <2> QED BY <1>3, <2>1, <2>2, <2>3, <2>4, <2>5 DEF AgentStep
<1>4. ASSUME NEW p \in Prompts, Thread(p) PROVE Goal
  <2>1. CASE CompactionSucceeds(p)
    BY <1>1, <2>1 DEF CompactionSucceeds
  <2>2. CASE AcceptAndRun(p) \/ Continue(p) \/ Leave(p)
    BY <2>2 DEF AcceptAndRun, Continue, Throw, Leave, bashVars
  <2>3. CASE Post(p) \/ Cancelled(p) \/ BackoffExpires(p) \/ Check(p) \/ CompactionFails(p) \/ Decide(p)
    BY <2>3 DEF Post, Cancelled, BackoffExpires, Check, CompactionFails, Decide
  <2> QED BY <1>4, <2>1, <2>2, <2>3 DEF Thread
<1>5. ASSUME NEW p \in Prompts, Prompt(p) PROVE Goal
  BY <1>5 DEF Prompt
<1>6. CASE Manual
  BY <1>1, <1>6 DEF Manual, CompactBegins, CompactSucceeds, CompactFails
<1>7. CASE \/ \E m \in Notes : Steer(m) \/ FollowUp(m)
           \/ ClearQueue \/ AbortRetry \/ Abort \/ CompactCalled \/ UNCHANGED vars
  BY <1>7 DEF Steer, FollowUp, ClearQueue, AbortRetry, Abort, CompactCalled, vars
<1> QED BY <1>3, <1>4, <1>5, <1>6, <1>7 DEF Next

\* Every step keeps it.
LEMMA BashInductive == BashInv /\ [Next]_vars => BashInv'
<1> SUFFICES ASSUME BashInv, [Next]_vars PROVE BashInv'
  OBVIOUS
<1>1. CASE UNCHANGED <<path, bashVars>>
  BY <1>1 DEF bashVars, BashInv, Kept
<1>2. CASE FlushBash /\ UNCHANGED recorded
  BY <1>2, FlushKeeps
<1>3. ASSUME UNCHANGED bashVars, NEW e, \A b : e # Bash(b), path' = Append(path, e) PROVE BashInv'
  <2>1. /\ \E S : path' \in Seq(S) /\ pendingBash' \in Seq(S)
        /\ \A b : (Never(Kept, b) => Never(Kept', b)) /\ (Once(Kept, b) => Once(Kept', b))
    BY <1>3, EntryKept DEF bashVars
  <2> QED BY <1>3, <2>1 DEF bashVars, BashInv
<1>4. ASSUME NEW b \in Bashes, RecordBash(b) PROVE BashInv'
  <2>1. /\ b \notin recorded /\ recorded' = recorded \cup {b}
        /\ \/ path' = Append(path, Bash(b)) /\ UNCHANGED pendingBash
           \/ UNCHANGED path /\ pendingBash' = Append(pendingBash, Bash(b))
    BY <1>4 DEF RecordBash
  <2>2. \A c : Bash(c) = Bash(b) <=> c = b
    BY DEF Bash
  <2>3. /\ \E S : path' \in Seq(S) /\ pendingBash' \in Seq(S)
        /\ \A c : /\ c # b /\ Never(Kept, c) => Never(Kept', c)
                  /\ c # b /\ Once(Kept, c) => Once(Kept', c)
                  /\ c = b /\ Never(Kept, c) => Once(Kept', c)
    BY <2>1, <2>2, EntryKept
  <2> QED BY <2>1, <2>3 DEF BashInv
<1> QED BY <1>1, <1>2, <1>3, <1>4, PathFrame

\* The result of every command is kept once, however prompts, runs, aborts,
\* retries and compactions overlap with it.
THEOREM BashResultsKeptOnce == Spec => []BashRecordedOnce
<1>1. Init => BashInv
  <2> SUFFICES ASSUME Init PROVE BashInv
    OBVIOUS
  <2>1. path = <<>> /\ pendingBash = <<>> /\ recorded = {}
    BY DEF Init
  <2>2. path \in Seq({}) /\ pendingBash \in Seq({}) /\ Kept = <<>>
    BY <2>1 DEF Kept
  <2> QED BY <2>1, <2>2 DEF BashInv, Never
<1>2. BashInv => BashRecordedOnce
  <2> SUFFICES ASSUME BashInv, NEW b \in recorded
               PROVE  Cardinality({i \in DOMAIN Kept : Kept[i] = Bash(b)}) = 1
    BY DEF BashRecordedOnce, Kept
  <2>1. PICK i \in DOMAIN Kept : \A j \in DOMAIN Kept : Kept[j] = Bash(b) <=> j = i
    BY DEF BashInv, Once
  <2>2. {j \in DOMAIN Kept : Kept[j] = Bash(b)} = {i}
    BY <2>1
  <2> QED BY <2>2, FS_Singleton
<1> QED BY <1>1, <1>2, BashInductive, PTL DEF Spec


-----------------------------------------------------------------------------
(* The mirrors.                                                            *)

\* A message at the front of a mirror is the one that is taken out of it.
LEMMA ForgetFirst ==
  ASSUME NEW S, NEW m, NEW s \in Seq(S), s # <<>>, s[1] = m
  PROVE  Forget(s, m) = Tail(s)
<1> DEFINE I == {i \in 1 .. Len(s) : s[i] = m}
<1>1. 1 \in I /\ \A i \in I : i \in Nat /\ 1 <= i
  OBVIOUS
<1>2. SelectInSeq(s, LAMBDA v : v = m) = 1
  BY <1>1 DEF SelectInSeq, Min
<1>3. Forget(s, m) = SubSeq(s, 1, 0) \o SubSeq(s, 2, Len(s))
  <2>1. \E i \in 1 .. Len(s) : s[i] = m
    BY <1>1
  <2>2. Forget(s, m) = RemoveAt(s, SelectInSeq(s, LAMBDA v : v = m))
    BY <2>1 DEF Forget, RemoveFirst
  <2>3. Forget(s, m) = RemoveAt(s, 1)
    BY <1>2, <2>2
  <2> QED BY <2>3 DEF RemoveAt
<1> QED BY <1>3

\* A mirror that does not show the message stays as it is.
LEMMA ForgetAbsent ==
  ASSUME NEW S, NEW m, NEW s \in Seq(S), m \notin ToSet(s)
  PROVE  Forget(s, m) = s
BY DEF Forget, RemoveFirst, ToSet

Distinct(s) == \A i, j \in DOMAIN s : s[i] = s[j] => i = j

\* Taking the first message off a queue.
LEMMA TakeFirst ==
  ASSUME NEW s \in Seq(Notes), Distinct(s), s # <<>>
  PROVE  /\ Head(s) \in Notes /\ Head(s) \in ToSet(s) /\ Head(s) = s[1]
         /\ Tail(s) \in Seq(Notes) /\ Distinct(Tail(s))
         /\ ToSet(Tail(s)) = ToSet(s) \ {Head(s)}
         /\ s = <<Head(s)>> \o Tail(s)
<1>1. /\ Head(s) = s[1] /\ Tail(s) \in Seq(Notes) /\ 1 \in DOMAIN s
      /\ \A i \in DOMAIN Tail(s) : i + 1 \in DOMAIN s /\ Tail(s)[i] = s[i + 1]
      /\ \A i \in DOMAIN s : i # 1 => i - 1 \in DOMAIN Tail(s) /\ Tail(s)[i - 1] = s[i]
  OBVIOUS
<1>2. Distinct(Tail(s))
  BY <1>1 DEF Distinct
<1>3. ToSet(Tail(s)) = ToSet(s) \ {Head(s)}
  <2>1. ASSUME NEW x \in ToSet(Tail(s)) PROVE x \in ToSet(s) \ {Head(s)}
    <3>1. PICK i \in DOMAIN Tail(s) : x = Tail(s)[i]
      BY <2>1 DEF ToSet
    <3>2. i + 1 \in DOMAIN s /\ x = s[i + 1] /\ i + 1 # 1
      BY <1>1, <3>1
    <3> QED BY <1>1, <3>2 DEF ToSet, Distinct
  <2>2. ASSUME NEW x \in ToSet(s) \ {Head(s)} PROVE x \in ToSet(Tail(s))
    <3>1. PICK i \in DOMAIN s : x = s[i]
      BY <2>2 DEF ToSet
    <3>2. i # 1
      BY <1>1, <2>2, <3>1
    <3> QED BY <1>1, <3>1, <3>2 DEF ToSet
  <2> QED BY <2>1, <2>2
<1>4. s = <<Head(s)>> \o Tail(s)
  OBVIOUS
<1>5. Head(s) \in Notes /\ Head(s) \in ToSet(s)
  BY <1>1 DEF ToSet
<1> QED BY <1>1, <1>2, <1>3, <1>4, <1>5

\* Putting a new message on a queue.
LEMMA PutLast ==
  ASSUME NEW s \in Seq(Notes), Distinct(s), NEW m \in Notes, m \notin ToSet(s)
  PROVE  /\ Append(s, m) \in Seq(Notes) /\ Distinct(Append(s, m))
         /\ ToSet(Append(s, m)) = ToSet(s) \cup {m}
         /\ \A x \in Notes \cup Prompts : <<x>> \o Append(s, m) = Append(<<x>> \o s, m)
<1>1. /\ DOMAIN Append(s, m) = DOMAIN s \cup {Len(s) + 1} /\ Len(s) + 1 \notin DOMAIN s
      /\ \A i \in DOMAIN s : Append(s, m)[i] = s[i]
      /\ Append(s, m)[Len(s) + 1] = m
  OBVIOUS
<1>2. Distinct(Append(s, m))
  BY <1>1 DEF Distinct, ToSet
<1>3. ToSet(Append(s, m)) = ToSet(s) \cup {m}
  BY <1>1 DEF ToSet
<1>4. ASSUME NEW x \in Notes \cup Prompts PROVE <<x>> \o Append(s, m) = Append(<<x>> \o s, m)
  <2>1. /\ <<x>> \in Seq(Notes \cup Prompts) /\ s \in Seq(Notes \cup Prompts)
        /\ m \in Notes \cup Prompts
    BY <1>4
  <2>2. /\ <<x>> \o Append(s, m) \in Seq(Notes \cup Prompts)
        /\ Append(<<x>> \o s, m) \in Seq(Notes \cup Prompts)
        /\ Len(<<x>> \o Append(s, m)) = Len(s) + 2
        /\ Len(Append(<<x>> \o s, m)) = Len(s) + 2
    BY <2>1
  <2>3. \A i \in 1 .. Len(s) + 2 : (<<x>> \o Append(s, m))[i] = Append(<<x>> \o s, m)[i]
    BY <2>1
  <2> QED BY <2>2, <2>3
<1> QED BY <1>2, <1>3, <1>4

\* The queues and the message being delivered hold every message once.
QueueInv ==
  /\ steeringQueue \in Seq(Notes) /\ Distinct(steeringQueue)
  /\ followUpQueue \in Seq(Notes) /\ Distinct(followUpQueue)
  /\ pending \in Prompts \cup Notes \cup {None}
  /\ pending # None <=> phase \in {"begin", "inject"}
  /\ ToSet(steeringQueue) \cap ToSet(followUpQueue) = {}
  /\ pending \notin ToSet(steeringQueue) \cup ToSet(followUpQueue)
  /\ ToSet(steeringQueue) \cup ToSet(followUpQueue) \subseteq sent
  /\ pending \in Notes => pending \in sent

\* A message taken off a queue is the one being delivered.
LEMMA TakeSteering ==
  ASSUME QueueInv, MirrorMatchesQueue, pending = None, steeringQueue # <<>>,
         pending' = Head(steeringQueue), steeringQueue' = Tail(steeringQueue),
         phase' \in {"begin", "inject"}, UNCHANGED <<followUpQueue, mirrorVars, sent>>
  PROVE  QueueInv' /\ MirrorMatchesQueue'
<1>1. /\ pending' \in Notes /\ pending' \in ToSet(steeringQueue)
      /\ steeringQueue' \in Seq(Notes) /\ Distinct(steeringQueue')
      /\ ToSet(steeringQueue') = ToSet(steeringQueue) \ {pending'}
      /\ steeringQueue = <<pending'>> \o steeringQueue'
  BY TakeFirst DEF QueueInv
<1>2. pending' # None
  BY <1>1, NoneAssumption
<1>3. QueueInv'
  <2>1. /\ followUpQueue' \in Seq(Notes) /\ Distinct(followUpQueue')
        /\ ToSet(followUpQueue') = ToSet(followUpQueue)
    BY DEF QueueInv
  <2> QED BY <1>1, <1>2, <2>1 DEF QueueInv
<1>4. MirrorMatchesQueue'
  BY <1>1, <1>2 DEF MirrorMatchesQueue, mirrorVars
<1> QED BY <1>3, <1>4

LEMMA TakeFollowUp ==
  ASSUME QueueInv, MirrorMatchesQueue, pending = None, followUpQueue # <<>>,
         pending' = Head(followUpQueue), followUpQueue' = Tail(followUpQueue),
         phase' \in {"begin", "inject"}, UNCHANGED <<steeringQueue, mirrorVars, sent>>
  PROVE  QueueInv' /\ MirrorMatchesQueue'
<1>1. /\ pending' \in Notes /\ pending' \in ToSet(followUpQueue)
      /\ followUpQueue' \in Seq(Notes) /\ Distinct(followUpQueue')
      /\ ToSet(followUpQueue') = ToSet(followUpQueue) \ {pending'}
      /\ followUpQueue = <<pending'>> \o followUpQueue'
  BY TakeFirst DEF QueueInv
<1>2. pending' # None
  BY <1>1, NoneAssumption
<1>3. QueueInv'
  <2>1. /\ steeringQueue' \in Seq(Notes) /\ Distinct(steeringQueue')
        /\ ToSet(steeringQueue') = ToSet(steeringQueue)
    BY DEF QueueInv
  <2> QED BY <1>1, <1>2, <2>1 DEF QueueInv
<1>4. MirrorMatchesQueue'
  BY <1>1, <1>2 DEF MirrorMatchesQueue, mirrorVars
<1> QED BY <1>3, <1>4

\* The mirrors forget the message that is announced.
LEMMA AnnounceForgets ==
  ASSUME QueueInv, MirrorMatchesQueue, connected, pending # None, UserMessage(pending),
         Prompts \cap Notes = {}
  PROVE  steeringMirror' = steeringQueue /\ followUpMirror' = followUpQueue
<1> DEFINE A == Notes \cup Prompts
<1>1. /\ steeringMirror' = Forget(steeringMirror, pending)
      /\ followUpMirror' = IF pending \in ToSet(steeringMirror) THEN followUpMirror
                           ELSE Forget(followUpMirror, pending)
  BY DEF UserMessage
<1>2. /\ steeringQueue \in Seq(A) /\ followUpQueue \in Seq(A) /\ pending \in A
      /\ pending \notin ToSet(steeringQueue) /\ pending \notin ToSet(followUpQueue)
  BY DEF QueueInv
<1> HIDE DEF A
<1>3. ASSUME NEW q \in Seq(A)
      PROVE  /\ <<pending>> \o q \in Seq(A) /\ <<pending>> \o q # <<>>
             /\ (<<pending>> \o q)[1] = pending /\ Tail(<<pending>> \o q) = q
             /\ pending \in ToSet(<<pending>> \o q)
  <2>1. /\ <<pending>> \o q \in Seq(A) /\ <<pending>> \o q # <<>>
        /\ (<<pending>> \o q)[1] = pending /\ Tail(<<pending>> \o q) = q
        /\ 1 \in DOMAIN (<<pending>> \o q)
    BY <1>2
  <2> QED BY <2>1 DEF ToSet
<1>4. CASE steeringMirror = steeringQueue /\ followUpMirror = followUpQueue
  BY <1>1, <1>2, <1>4, ForgetAbsent
<1>5. CASE steeringMirror = <<pending>> \o steeringQueue /\ followUpMirror = followUpQueue
  <2>1. steeringMirror' = steeringQueue
    <3>1. /\ steeringMirror \in Seq(A) /\ steeringMirror # <<>>
          /\ steeringMirror[1] = pending /\ Tail(steeringMirror) = steeringQueue
      BY <1>2, <1>3, <1>5
    <3>2. Forget(steeringMirror, pending) = Tail(steeringMirror)
      BY <3>1, ForgetFirst
    <3> QED BY <1>1, <3>1, <3>2
  <2>2. followUpMirror' = followUpQueue
    BY <1>1, <1>2, <1>3, <1>5
  <2> QED BY <2>1, <2>2
<1>6. CASE steeringMirror = steeringQueue /\ followUpMirror = <<pending>> \o followUpQueue
  <2>1. steeringMirror' = steeringQueue
    BY <1>1, <1>2, <1>6, ForgetAbsent
  <2>2. followUpMirror' = followUpQueue
    <3>1. /\ followUpMirror \in Seq(A) /\ followUpMirror # <<>>
          /\ followUpMirror[1] = pending /\ Tail(followUpMirror) = followUpQueue
      BY <1>2, <1>3, <1>6
    <3>2. Forget(followUpMirror, pending) = Tail(followUpMirror)
      BY <3>1, ForgetFirst
    <3>3. pending \notin ToSet(steeringMirror)
      BY <1>2, <1>6
    <3> QED BY <1>1, <3>1, <3>2, <3>3
  <2> QED BY <2>1, <2>2
<1> QED BY <1>4, <1>5, <1>6 DEF MirrorMatchesQueue

\* The steps of the agent keep the queues, the mirrors and what is between them.
LEMMA AgentMirrors ==
  ASSUME Prompts \cap Notes = {}, ThreadInv, Heard, QueueInv, MirrorMatchesQueue, AgentStep
  PROVE  QueueInv' /\ MirrorMatchesQueue'
<1>1. CASE UNCHANGED <<queueVars, mirrorVars, pending, sent>>
             /\ (phase' \in {"begin", "inject"} <=> phase \in {"begin", "inject"})
  BY <1>1 DEF QueueInv, MirrorMatchesQueue, queueVars, mirrorVars
<1>2. CASE Announce
  <2>1. /\ pending # None /\ pending' = None /\ phase' \in {"poll", "stream"} /\ UserMessage(pending)
        /\ UNCHANGED <<queueVars, sent>>
    BY <1>2 DEF Announce, QueueInv
  <2>2. steeringMirror' = steeringQueue /\ followUpMirror' = followUpQueue
    BY <2>1, AnnounceForgets DEF Heard
  <2>3. MirrorMatchesQueue'
    BY <2>1, <2>2 DEF MirrorMatchesQueue, queueVars
  <2>4. QueueInv'
    <3>1. /\ steeringQueue' = steeringQueue /\ followUpQueue' = followUpQueue /\ sent' = sent
          /\ pending' = None
      BY <2>1 DEF queueVars
    <3>2. None \notin ToSet(steeringQueue) \cup ToSet(followUpQueue)
      BY NoneAssumption DEF QueueInv, ToSet
    <3> QED BY <2>1, <3>1, <3>2, NoneAssumption DEF QueueInv
  <2> QED BY <2>3, <2>4
<1>3. CASE FirstPoll
  <2>1. phase = "poll" /\ phase' = "stream" /\ pending = None /\ pending' = None
        /\ steeringMirror = steeringQueue /\ followUpMirror = followUpQueue
        /\ UNCHANGED <<followUpQueue, sent>>
    BY <1>3 DEF FirstPoll, QueueInv, MirrorMatchesQueue
  <2>2. CASE steeringQueue = <<>>
    BY <1>3, <2>1, <2>2 DEF FirstPoll, QueueInv, MirrorMatchesQueue, mirrorVars
  <2>3. CASE steeringQueue # <<>>
    <3>1. /\ UserMessage(Head(steeringQueue)) /\ steeringQueue' = Tail(steeringQueue)
      BY <1>3, <2>3 DEF FirstPoll
    <3>2. /\ Head(steeringQueue) \in ToSet(steeringQueue) /\ Head(steeringQueue) = steeringQueue[1]
          /\ Tail(steeringQueue) \in Seq(Notes) /\ Distinct(Tail(steeringQueue))
          /\ ToSet(Tail(steeringQueue)) = ToSet(steeringQueue) \ {Head(steeringQueue)}
      BY <2>3, TakeFirst DEF QueueInv
    <3>3. followUpMirror' = followUpQueue
      BY <2>1, <3>1, <3>2 DEF UserMessage, Heard
    <3>4. steeringMirror' = Tail(steeringQueue)
      BY <2>1, <2>3, <3>1, <3>2, ForgetFirst DEF UserMessage, Heard, QueueInv
    <3>5. QueueInv'
      BY <2>1, <3>1, <3>2 DEF QueueInv
    <3>6. MirrorMatchesQueue'
      BY <2>1, <3>1, <3>3, <3>4 DEF MirrorMatchesQueue
    <3> QED BY <3>5, <3>6
  <2> QED BY <2>2, <2>3
<1>4. CASE PollQueues
  <2>1. pending = None /\ phase \in {"toolTurn", "turnEnd"} /\ UNCHANGED <<mirrorVars, sent>>
    BY <1>4 DEF PollQueues, QueueInv
  <2>2. CASE steeringQueue # <<>>
    BY <1>4, <2>1, <2>2, TakeSteering DEF PollQueues
  <2>3. CASE steeringQueue = <<>> /\ phase = "turnEnd" /\ followUpQueue # <<>>
    BY <1>4, <2>1, <2>3, TakeFollowUp DEF PollQueues
  <2>4. CASE steeringQueue = <<>> /\ (phase # "turnEnd" \/ followUpQueue = <<>>)
    BY <1>1, <1>4, <2>1, <2>4 DEF PollQueues, AgentEnd
  <2> QED BY <2>2, <2>3, <2>4
<1>5. ASSUME NEW k \in Kinds, Answer(k)
      PROVE  QueueInv' /\ MirrorMatchesQueue'
  <2>1. phase' \in {"settling", "tools", "turnEnd"}
    BY <1>5 DEF Answer, AgentEnd, Errors, Kinds
  <2> QED BY <1>1, <1>5, <2>1 DEF Answer
<1>6. CASE ToolEnds
  BY <1>1, <1>6 DEF ToolEnds
<1>7. CASE RunEnds
  BY <1>1, <1>7 DEF RunEnds, Finishes
<1> QED BY <1>2, <1>3, <1>4, <1>5, <1>6, <1>7 DEF AgentStep

\* The threads touch them where they start a run only.
LEMMA ThreadMirrors ==
  ASSUME Prompts \cap Notes = {}, ThreadInv, QueueInv, MirrorMatchesQueue,
         NEW p \in Prompts, Thread(p)
  PROVE  QueueInv' /\ MirrorMatchesQueue'
<1>1. CASE UNCHANGED <<queueVars, mirrorVars, pending, sent>>
             /\ (phase' \in {"begin", "inject"} <=> phase \in {"begin", "inject"})
  BY <1>1 DEF QueueInv, MirrorMatchesQueue, queueVars, mirrorVars
<1>2. CASE AcceptAndRun(p)
  <2>1. CASE isStreaming
    BY <1>1, <1>2, <2>1 DEF AcceptAndRun
  <2>2. CASE ~ isStreaming
    <3>1. /\ pending = None /\ pending' = p /\ phase' = "begin"
          /\ UNCHANGED <<queueVars, mirrorVars, sent>>
      BY <1>2, <2>2 DEF AcceptAndRun, StartRun, isStreaming, ThreadInv, QueueInv
    <3>2. p \notin Notes /\ p # None
      BY NoneAssumption
    <3>3. p \notin ToSet(steeringQueue) \cup ToSet(followUpQueue)
      BY <3>2 DEF QueueInv, ToSet
    <3>4. QueueInv'
      BY <3>1, <3>2, <3>3 DEF QueueInv, queueVars
    <3>5. MirrorMatchesQueue'
      BY <3>1 DEF MirrorMatchesQueue, queueVars, mirrorVars
    <3> QED BY <3>4, <3>5
  <2> QED BY <2>1, <2>2
<1>3. CASE Continue(p)
  <2>1. CASE Throw(p)
    BY <1>1, <1>3, <2>1 DEF Continue, Throw
  <2>2. CASE ~ isStreaming /\ ~ Throw(p)
    <3>1. pending = None /\ phase = "idle" /\ UNCHANGED <<mirrorVars, sent>>
      BY <1>3, <2>2 DEF Continue, isStreaming, ThreadInv, QueueInv
    <3>2. CASE pending' = None /\ phase' = "poll" /\ UNCHANGED queueVars
      BY <1>1, <3>1, <3>2
    <3>3. CASE /\ steeringQueue # <<>> /\ pending' = Head(steeringQueue) /\ phase' = "inject"
               /\ steeringQueue' = Tail(steeringQueue) /\ UNCHANGED followUpQueue
      BY <3>1, <3>3, TakeSteering
    <3>4. CASE /\ followUpQueue # <<>> /\ pending' = Head(followUpQueue) /\ phase' = "begin"
               /\ followUpQueue' = Tail(followUpQueue) /\ UNCHANGED steeringQueue
      BY <3>1, <3>4, TakeFollowUp
    <3> QED BY <1>3, <2>2, <3>2, <3>3, <3>4 DEF Continue, StartRun
  <2> QED BY <1>3, <2>1, <2>2 DEF Continue
<1>4. CASE Post(p) \/ Cancelled(p) \/ BackoffExpires(p) \/ Check(p) \/ CompactionSucceeds(p)
             \/ CompactionFails(p) \/ Decide(p) \/ Leave(p)
  BY <1>1, <1>4 DEF Post, Cancelled, BackoffExpires, Check, CompactionSucceeds, CompactionFails,
                    Decide, Leave, agentVars
<1> QED BY <1>2, <1>3, <1>4 DEF Thread

\* A new message goes to the end of its queue and of its mirror.
LEMMA QueueingMirrors ==
  ASSUME Prompts \cap Notes = {}, QueueInv, MirrorMatchesQueue,
         NEW m \in Notes, Steer(m) \/ FollowUp(m)
  PROVE  QueueInv' /\ MirrorMatchesQueue'
<1>1. /\ m \notin sent /\ sent' = sent \cup {m} /\ UNCHANGED <<pending, phase>>
      /\ m \notin ToSet(steeringQueue) /\ m \notin ToSet(followUpQueue) /\ m # pending
  BY DEF Steer, FollowUp, agentVars, QueueInv
<1>2. CASE Steer(m)
  <2>1. /\ steeringQueue' = Append(steeringQueue, m) /\ steeringMirror' = Append(steeringMirror, m)
        /\ UNCHANGED <<followUpQueue, followUpMirror>>
    BY <1>2 DEF Steer
  <2>2. /\ steeringQueue' \in Seq(Notes) /\ Distinct(steeringQueue')
        /\ ToSet(steeringQueue') = ToSet(steeringQueue) \cup {m}
        /\ \A x \in Notes \cup Prompts : <<x>> \o steeringQueue' = Append(<<x>> \o steeringQueue, m)
    BY <1>1, <2>1, PutLast DEF QueueInv
  <2>3. QueueInv'
    BY <1>1, <2>1, <2>2 DEF QueueInv
  <2>4. MirrorMatchesQueue'
    BY <1>1, <2>1, <2>2 DEF QueueInv, MirrorMatchesQueue
  <2> QED BY <2>3, <2>4
<1>3. CASE FollowUp(m)
  <2>1. /\ followUpQueue' = Append(followUpQueue, m) /\ followUpMirror' = Append(followUpMirror, m)
        /\ UNCHANGED <<steeringQueue, steeringMirror>>
    BY <1>3 DEF FollowUp
  <2>2. /\ followUpQueue' \in Seq(Notes) /\ Distinct(followUpQueue')
        /\ ToSet(followUpQueue') = ToSet(followUpQueue) \cup {m}
        /\ \A x \in Notes \cup Prompts : <<x>> \o followUpQueue' = Append(<<x>> \o followUpQueue, m)
    BY <1>1, <2>1, PutLast DEF QueueInv
  <2>3. QueueInv'
    BY <1>1, <2>1, <2>2 DEF QueueInv
  <2>4. MirrorMatchesQueue'
    BY <1>1, <2>1, <2>2 DEF QueueInv, MirrorMatchesQueue
  <2> QED BY <2>3, <2>4
<1> QED BY <1>2, <1>3

\* Every step keeps them.
LEMMA MirrorInductive ==
  ASSUME Prompts \cap Notes = {}
  PROVE  ThreadInv /\ Heard /\ QueueInv /\ MirrorMatchesQueue /\ [Next]_vars
           => QueueInv' /\ MirrorMatchesQueue'
<1> SUFFICES ASSUME ThreadInv, Heard, QueueInv, MirrorMatchesQueue, [Next]_vars
             PROVE  QueueInv' /\ MirrorMatchesQueue'
  OBVIOUS
<1>1. CASE UNCHANGED <<queueVars, mirrorVars, pending, phase, sent>>
  BY <1>1 DEF QueueInv, MirrorMatchesQueue, queueVars, mirrorVars
<1>2. CASE ClearQueue
  <2>1. /\ steeringMirror' = <<>> /\ followUpMirror' = <<>>
        /\ steeringQueue' = <<>> /\ followUpQueue' = <<>>
        /\ UNCHANGED <<pending, phase, sent>>
    BY <1>2 DEF ClearQueue, agentVars
  <2>2. ToSet(<<>>) = {} /\ Distinct(<<>>)
    BY DEF ToSet, Distinct
  <2>3. QueueInv'
    BY <2>1, <2>2 DEF QueueInv
  <2> QED BY <2>1, <2>3 DEF MirrorMatchesQueue
<1>3. \/ UNCHANGED <<queueVars, mirrorVars, pending, phase, sent>>
      \/ AgentStep \/ ClearQueue
      \/ \E p \in Prompts : Thread(p)
      \/ \E m \in Notes : Steer(m) \/ FollowUp(m)
  BY DEF Next, Manual, vars, agentVars, Prompt, AbortRetry, Abort, RecordBash, CompactCalled,
         CompactBegins, CompactSucceeds, CompactFails
<1> QED BY <1>1, <1>2, <1>3, AgentMirrors, ThreadMirrors, QueueingMirrors

\* What the user sees as queued is what the agent has queued, in the same order,
\* and at most the message being delivered in front of it, however prompts, runs
\* and aborts overlap, where messages have texts of their own and the session is
\* not compacted by hand.
THEOREM MirrorsMatchQueues ==
  ASSUME MaxManual = 0, Prompts \cap Notes = {}
  PROVE  Spec => []MirrorMatchesQueue
<1>1. Init => QueueInv /\ MirrorMatchesQueue
  <2> SUFFICES ASSUME Init PROVE QueueInv /\ MirrorMatchesQueue
    OBVIOUS
  <2>1. /\ steeringQueue = <<>> /\ followUpQueue = <<>> /\ steeringMirror = <<>>
        /\ followUpMirror = <<>> /\ pending = None /\ phase = "idle"
    BY DEF Init
  <2>2. ToSet(<<>>) = {} /\ Distinct(<<>>)
    BY DEF ToSet, Distinct
  <2>3. QueueInv
    BY <2>1, <2>2, NoneAssumption DEF QueueInv
  <2> QED BY <2>1, <2>3 DEF MirrorMatchesQueue
<1> QED BY <1>1, KnownHolds, MirrorInductive, PTL DEF Spec

-----------------------------------------------------------------------------
(* Selections from a sequence.                                             *)

\* Every set of numbers that is not empty has a least one.
LEMMA Least ==
  ASSUME NEW T \in SUBSET Nat, T # {}
  PROVE  \E n \in T : \A m \in T : n <= m
<1>1. PICK n \in T : \A m \in T : ~ (<<m, n>> \in OpToRel(<, Nat))
  BY WFMin, NatLessThanWellFounded
<1>2. \A m \in T : ~ (m < n)
  BY <1>1 DEF OpToRel
<1> QED BY <1>2

\* The prefixes of a selection, up to the k-th entry.
Picks(s, I, f, k) ==
  /\ f = [n \in 0 .. k |-> f[n]]
  /\ f[0] = <<>>
  /\ \A n \in 1 .. k : f[n] = IF n \in I THEN Append(f[n-1], s[n]) ELSE f[n-1]

\* They are there for any sequence.
LEMMA PicksExist ==
  ASSUME NEW s, NEW I, NEW k \in Nat
  PROVE  \E f : Picks(s, I, f, k)
<1> DEFINE T == {m \in Nat : ~ \E f : Picks(s, I, f, m)}
<1>1. SUFFICES ASSUME T # {} PROVE FALSE
  OBVIOUS
<1>2. PICK m \in T : \A l \in T : m <= l
  BY <1>1, Least
<1>3. m # 0
  <2>1. Picks(s, I, [n \in 0 .. 0 |-> <<>>], 0)
    BY DEF Picks
  <2> QED BY <1>2, <2>1
<1>4. m - 1 \in Nat /\ m - 1 \notin T
  BY <1>2, <1>3
<1>5. PICK g : Picks(s, I, g, m - 1)
  BY <1>4
<1> DEFINE h == [n \in 0 .. m |-> IF n < m THEN g[n]
                                  ELSE IF m \in I THEN Append(g[m-1], s[m]) ELSE g[m-1]]
<1>6. Picks(s, I, h, m)
  <2>1. h[0] = <<>>
    BY <1>3, <1>5 DEF Picks
  <2>2. ASSUME NEW n \in 1 .. m PROVE h[n] = IF n \in I THEN Append(h[n-1], s[n]) ELSE h[n-1]
    <3>1. h[n-1] = g[n-1]
      OBVIOUS
    <3>2. CASE n = m
      BY <3>1, <3>2
    <3>3. CASE n # m
      <4>1. n \in 1 .. (m - 1) /\ h[n] = g[n]
        BY <3>3
      <4> QED BY <1>5, <3>1, <4>1 DEF Picks
    <3> QED BY <3>2, <3>3
  <2> QED BY <2>1, <2>2 DEF Picks
<1> QED BY <1>2, <1>6

\* Selections from sequences that begin alike begin alike.
LEMMA PicksAgree ==
  ASSUME NEW s, NEW I, NEW f, NEW k \in Nat, Picks(s, I, f, k),
         NEW t, NEW J, NEW g, NEW l \in Nat, Picks(t, J, g, l), k <= l,
         \A n \in 1 .. k : s[n] = t[n] /\ (n \in I <=> n \in J)
  PROVE  \A n \in 0 .. k : f[n] = g[n]
<1> DEFINE T == {n \in 0 .. k : f[n] # g[n]}
<1>1. SUFFICES ASSUME T # {} PROVE FALSE
  OBVIOUS
<1>2. PICK m \in T : \A j \in T : m <= j
  <2>1. T \in SUBSET Nat
    OBVIOUS
  <2> QED BY <1>1, <2>1, Least
<1>3. m # 0
  BY DEF Picks
<1>4. m \in 1 .. k /\ m \in 1 .. l /\ m - 1 \in 0 .. k /\ m - 1 \notin T
  BY <1>2, <1>3
<1>5. f[m-1] = g[m-1]
  BY <1>4
<1>6. f[m] = g[m]
  BY <1>4, <1>5 DEF Picks
<1> QED BY <1>6

\* The selection is the last of them.
LEMMA PickIs ==
  ASSUME NEW s, NEW I, Len(s) \in Nat, NEW f, Picks(s, I, f, Len(s))
  PROVE  Pick(s, I) = f[Len(s)]
<1> DEFINE F(h) == [n \in 0 .. Len(s) |->
                     IF n = 0 THEN <<>> ELSE IF n \in I THEN Append(h[n-1], s[n]) ELSE h[n-1]]
           c == CHOOSE h : h = F(h)
<1>1. f = F(f)
  <2>1. \A n \in 0 .. Len(s) : n = 0 \/ n \in 1 .. Len(s)
    OBVIOUS
  <2> QED BY <2>1 DEF Picks
<1>2. c = F(c)
  BY <1>1
<1> HIDE DEF c
<1>3. Picks(s, I, c, Len(s))
  <2>1. c[0] = <<>>
    BY <1>2
  <2>2. ASSUME NEW n \in 1 .. Len(s) PROVE c[n] = IF n \in I THEN Append(c[n-1], s[n]) ELSE c[n-1]
    <3>1. n \in 0 .. Len(s) /\ n # 0
      OBVIOUS
    <3>2. c[n] = F(c)[n]
      BY <1>2
    <3> QED BY <3>1, <3>2
  <2>3. c = [n \in 0 .. Len(s) |-> c[n]]
    BY <1>2
  <2> QED BY <2>1, <2>2, <2>3 DEF Picks
<1>4. f[Len(s)] = c[Len(s)]
  BY <1>3, PicksAgree
<1> QED BY <1>4 DEF Pick, c

\* Nothing is selected from the empty sequence.
LEMMA PickEmpty == ASSUME NEW I PROVE Pick(<<>>, I) = <<>>
<1>1. PICK f : Picks(<<>>, I, f, 0)
  BY PicksExist
<1> QED BY <1>1, PickIs DEF Picks

\* A selection from a longer sequence has one more entry, or none.
LEMMA PickAppend ==
  ASSUME NEW X, NEW s \in Seq(X), NEW e \in X, NEW I, NEW J,
         \A n \in 1 .. Len(s) : n \in I <=> n \in J
  PROVE  Pick(Append(s, e), J) = IF Len(s) + 1 \in J THEN Append(Pick(s, I), e) ELSE Pick(s, I)
<1> DEFINE t == Append(s, e)
<1>1. /\ Len(s) \in Nat /\ Len(t) \in Nat /\ Len(t) = Len(s) + 1 /\ t[Len(t)] = e
      /\ \A n \in 1 .. Len(s) : t[n] = s[n]
  OBVIOUS
<1> HIDE DEF t
<1>2. PICK f : Picks(s, I, f, Len(s))
  BY <1>1, PicksExist
<1>3. PICK g : Picks(t, J, g, Len(t))
  BY <1>1, PicksExist
<1>4. f[Len(s)] = g[Len(s)]
  BY <1>1, <1>2, <1>3, PicksAgree
<1>5. g[Len(t)] = IF Len(t) \in J THEN Append(g[Len(s)], e) ELSE g[Len(s)]
  BY <1>1, <1>3 DEF Picks
<1>6. Pick(s, I) = f[Len(s)] /\ Pick(t, J) = g[Len(t)]
  BY <1>1, <1>2, <1>3, PickIs
<1> QED BY <1>1, <1>4, <1>5, <1>6 DEF t

\* A selection has the type of the entries selected.
LEMMA PickType ==
  ASSUME NEW X, NEW s \in Seq(X), NEW I, NEW Y, \A n \in 1 .. Len(s) : n \in I => s[n] \in Y
  PROVE  Pick(s, I) \in Seq(Y)
<1>1. PICK f : Picks(s, I, f, Len(s))
  BY PicksExist
<1> DEFINE T == {n \in 0 .. Len(s) : f[n] \notin Seq(Y)}
<1>2. SUFFICES ASSUME T # {} PROVE FALSE
  BY <1>1, PickIs
<1>3. PICK m \in T : \A j \in T : m <= j
  <2>1. T \in SUBSET Nat
    OBVIOUS
  <2> QED BY <1>2, <2>1, Least
<1>4. m # 0
  BY <1>1 DEF Picks
<1>5. m \in 1 .. Len(s) /\ m - 1 \in 0 .. Len(s) /\ m - 1 \notin T
  BY <1>3, <1>4
<1>6. f[m] = IF m \in I THEN Append(f[m-1], s[m]) ELSE f[m-1]
  BY <1>1, <1>5 DEF Picks
<1>7. f[m-1] \in Seq(Y)
  BY <1>5
<1>8. f[m] \in Seq(Y)
  <2>1. CASE m \notin I
    BY <1>6, <1>7, <2>1
  <2>2. CASE m \in I
    <3>1. s[m] \in Y
      BY <1>5, <2>2
    <3> QED BY <1>6, <1>7, <2>2, <3>1
  <2> QED BY <2>1, <2>2
<1> QED BY <1>3, <1>8

\* Entries that stand side by side and are both selected stay side by side.
LEMMA PickAdjacent ==
  ASSUME NEW X, NEW s \in Seq(X), NEW I, NEW R, NEW C,
         \A n \in 1 .. Len(s) : n \in I /\ s[n] \in R => n > 1 /\ n - 1 \in I /\ s[n-1] \in C
  PROVE  /\ Pick(s, I) \in Seq(X)
         /\ \A n \in 1 .. Len(Pick(s, I)) : Pick(s, I)[n] \in R => n > 1 /\ Pick(s, I)[n-1] \in C
<1>0. Len(s) \in Nat
  OBVIOUS
<1>1. PICK f : Picks(s, I, f, Len(s))
  BY <1>0, PicksExist
<1> DEFINE Good(n) == /\ f[n] \in Seq(X)
                      /\ \A i \in 1 .. Len(f[n]) : f[n][i] \in R => i > 1 /\ f[n][i-1] \in C
                      /\ n > 0 /\ n \in I => Len(f[n]) > 0 /\ f[n][Len(f[n])] = s[n]
           T == {n \in 0 .. Len(s) : ~ Good(n)}
<1>2. SUFFICES ASSUME T # {} PROVE FALSE
  <2>1. Good(Len(s))
    BY <1>2
  <2> QED BY <1>1, <2>1, PickIs
<1>3. PICK m \in T : \A j \in T : m <= j
  <2>1. T \in SUBSET Nat
    OBVIOUS
  <2> QED BY <1>2, <2>1, Least
<1>4. m # 0
  <2>1. Good(0)
    BY <1>1 DEF Picks
  <2> QED BY <1>3, <2>1
<1>5. m \in 1 .. Len(s) /\ m - 1 \in 0 .. Len(s) /\ m - 1 \notin T
  BY <1>3, <1>4
<1>6. f[m] = IF m \in I THEN Append(f[m-1], s[m]) ELSE f[m-1]
  BY <1>1, <1>5 DEF Picks
<1>7. Good(m-1)
  BY <1>5
<1>8. CASE m \notin I
  BY <1>3, <1>6, <1>7, <1>8
<1>9. CASE m \in I
  <2> DEFINE u == f[m-1]
  <2>1. /\ u \in Seq(X) /\ s[m] \in X /\ Len(u) \in Nat /\ f[m] = Append(u, s[m])
    BY <1>5, <1>6, <1>7, <1>9
  <2> HIDE DEF u
  <2>2. /\ f[m] \in Seq(X) /\ Len(f[m]) = Len(u) + 1 /\ f[m][Len(u) + 1] = s[m]
        /\ \A i \in 1 .. Len(u) : f[m][i] = u[i]
    BY <2>1
  <2>3. ASSUME NEW i \in 1 .. Len(f[m]), f[m][i] \in R PROVE i > 1 /\ f[m][i-1] \in C
    <3>1. CASE i = Len(u) + 1
      <4>1. m > 1 /\ m - 1 \in I /\ s[m-1] \in C
        BY <1>5, <1>9, <2>2, <2>3, <3>1
      <4>2. Len(u) > 0 /\ u[Len(u)] = s[m-1]
        BY <1>5, <1>7, <4>1 DEF u
      <4> QED BY <2>1, <2>2, <3>1, <4>1, <4>2
    <3>2. CASE i # Len(u) + 1
      <4>1. i \in 1 .. Len(u) /\ u[i] \in R
        BY <2>1, <2>2, <2>3, <3>2
      <4>2. i > 1 /\ u[i-1] \in C
        BY <1>7, <4>1 DEF u
      <4> QED BY <2>1, <2>2, <4>1, <4>2
    <3> QED BY <3>1, <3>2
  <2>4. Good(m)
    BY <2>1, <2>2, <2>3
  <2> QED BY <1>3, <2>4
<1> QED BY <1>8, <1>9

-----------------------------------------------------------------------------
(* Types.                                                                  *)

Entries == Messages \cup [role : {"compaction"}, from : Nat]
Lines   == Messages \cup {Summary}

\* What the transcript and the session hold.
HistoryTypes ==
  /\ transcript \in Seq(Lines) /\ path \in Seq(Entries)
  /\ pendingBash \in Seq({Bash(b) : b \in Bashes})
  /\ lastAssistant \in Answers \cup {NoMessage}
  /\ held \in [Prompts -> Answers \cup {NoMessage}]
  /\ compaction \in [Prompts -> [reason : {"none", "overflow", "threshold"}, from : Nat]]
  /\ manualKeep \in Nat

\* What is queued and shown as queued.
QueueTypes ==
  /\ steeringQueue \in Seq(Notes) /\ followUpQueue \in Seq(Notes)
  /\ steeringMirror \in Seq(Notes) /\ followUpMirror \in Seq(Notes)
  /\ pending \in Prompts \cup Notes \cup {None} /\ sent \subseteq Notes
  /\ pending # None <=> phase \in {"begin", "inject"}

\* Counters and flags.
CounterTypes ==
  /\ runs \in Nat /\ retryAttempt \in Nat /\ overflowStreak \in Nat /\ answers \in Nat
  /\ manuals \in Nat /\ aborts \in Nat /\ manualRun \in Nat
  /\ recorded \subseteq Bashes /\ manual \in {"off", "waiting", "summarising"}

FlagTypes ==
  /\ signalled \in BOOLEAN /\ connected \in BOOLEAN /\ overflowAttempted \in BOOLEAN
  /\ willRetry \in BOOLEAN /\ retryOpen \in BOOLEAN

\* The five make up the type invariant.
LEMMA TypesAreParts ==
  ThreadInv /\ HistoryTypes /\ QueueTypes /\ CounterTypes /\ FlagTypes => TypeOK
<1> SUFFICES ASSUME ThreadInv, HistoryTypes, QueueTypes, CounterTypes, FlagTypes PROVE TypeOK
  OBVIOUS
<1>1. pc \in [Prompts -> Settled \cup
       {"off", "preflight", "running", "post", "backoff", "cancelled", "check", "compacting",
        "decide", "continue", "leave"}]
  <2>1. PCs \subseteq Settled \cup
       {"off", "preflight", "running", "post", "backoff", "cancelled", "check", "compacting",
        "decide", "continue", "leave"}
    BY DEF PCs, AtTurn
  <2> QED BY <2>1 DEF ThreadInv
<1>2. /\ transcript \in Seq(Messages \cup {Summary})
      /\ path \in Seq(Messages \cup [role : {"compaction"}, from : Nat])
  BY DEF HistoryTypes, Entries, Lines
<1> QED BY <1>1, <1>2 DEF TypeOK, ThreadInv, HistoryTypes, QueueTypes, CounterTypes, FlagTypes

\* The counters.
LEMMA CountersTyped == CounterTypes /\ [Next]_vars => CounterTypes'
<1> SUFFICES ASSUME CounterTypes, [Next]_vars PROVE CounterTypes'
  OBVIOUS
<1> USE NumbersAssumption DEF CounterTypes
<1>1. CASE AgentStep
  <2>1. CASE Announce
    BY <2>1 DEF Announce, UserMessage, retryVars, manualVars, bashVars, boundVars
  <2>2. CASE FirstPoll
    BY <2>2 DEF FirstPoll, UserMessage, overflowVars, retryVars, manualVars, bashVars, boundVars
  <2>3. CASE PollQueues
    BY <2>3 DEF PollQueues, AgentEnd, overflowVars, retryVars, manualVars, bashVars, boundVars
  <2>4. ASSUME NEW k \in Kinds, Answer(k) PROVE CounterTypes'
    <3>1. /\ retryAttempt' \in {0, retryAttempt} /\ overflowStreak' \in {0, overflowStreak}
          /\ answers' \in {answers, answers + 1}
      BY <2>4 DEF Answer, AssistantMessage
    <3>2. UNCHANGED <<runs, manuals, aborts, manualRun, recorded, manual>>
      BY <2>4 DEF Answer, manualVars, bashVars
    <3> QED BY <3>1, <3>2
  <2>5. CASE ToolEnds \/ RunEnds
    BY <2>5 DEF ToolEnds, RunEnds, overflowVars, retryVars, manualVars, bashVars, boundVars
  <2> QED BY <1>1, <2>1, <2>2, <2>3, <2>4, <2>5 DEF AgentStep
<1>2. ASSUME NEW p \in Prompts, Prompt(p) \/ Thread(p) PROVE CounterTypes'
  <2>1. CASE Prompt(p)
    BY <2>1 DEF Prompt, overflowVars, retryVars, manualVars, boundVars
  <2>2. CASE AcceptAndRun(p)
    BY <2>2 DEF AcceptAndRun, StartRun, overflowVars, retryVars, manualVars, boundVars
  <2>3. CASE Post(p)
    BY <2>3 DEF Post, retryVars, overflowVars, manualVars, bashVars, boundVars
  <2>4. CASE Cancelled(p) \/ BackoffExpires(p)
    BY <2>4 DEF Cancelled, BackoffExpires, agentVars, overflowVars, manualVars, bashVars, boundVars
  <2>5. CASE Check(p)
    BY <2>5 DEF Check, retryVars, manualVars, bashVars
  <2>6. CASE CompactionSucceeds(p)
    BY <2>6 DEF CompactionSucceeds, retryVars, manualVars, bashVars, boundVars
  <2>7. CASE CompactionFails(p) \/ Decide(p)
    BY <2>7 DEF CompactionFails, Decide, agentVars, overflowVars, retryVars, manualVars, bashVars, boundVars
  <2>8. CASE Continue(p)
    BY <2>8 DEF Continue, Throw, StartRun, overflowVars, retryVars, manualVars, boundVars
  <2>9. CASE Leave(p)
    BY <2>9 DEF Leave, overflowVars, retryVars, manualVars, boundVars
  <2> QED BY <1>2, <2>1, <2>2, <2>3, <2>4, <2>5, <2>6, <2>7, <2>8, <2>9 DEF Thread
<1>3. CASE \/ \E m \in Notes : Steer(m) \/ FollowUp(m)
           \/ ClearQueue \/ AbortRetry \/ UNCHANGED vars
  <2>1. ASSUME NEW m \in Notes, Steer(m) \/ FollowUp(m) PROVE CounterTypes'
    BY <2>1 DEF Steer, FollowUp, agentVars, overflowVars, retryVars, manualVars, bashVars, boundVars
  <2>2. CASE ClearQueue
    BY <2>2 DEF ClearQueue, agentVars, overflowVars, retryVars, manualVars, bashVars
  <2>3. CASE AbortRetry
    BY <2>3 DEF AbortRetry, agentVars, overflowVars, retryVars, manualVars, bashVars
  <2>4. CASE UNCHANGED vars
    BY <2>4 DEF vars, agentVars, overflowVars, retryVars, manualVars, bashVars, boundVars
  <2> QED BY <1>3, <2>1, <2>2, <2>3, <2>4
<1>4. CASE Abort \/ \E b \in Bashes : RecordBash(b)
  <2>1. CASE Abort
    BY <2>1 DEF Abort, overflowVars, retryVars, manualVars, bashVars
  <2>2. ASSUME NEW b \in Bashes, RecordBash(b) PROVE CounterTypes'
    BY <2>2 DEF RecordBash, overflowVars, retryVars, manualVars, boundVars
  <2> QED BY <1>4, <2>1, <2>2
<1>5. CASE CompactCalled
  BY <1>5 DEF CompactCalled, overflowVars, retryVars, bashVars, boundVars
<1>6. CASE Manual
  BY <1>6 DEF Manual, CompactBegins, CompactSucceeds, CompactFails, agentVars, overflowVars, retryVars,
              bashVars, boundVars
<1> QED BY <1>1, <1>2, <1>3, <1>4, <1>5, <1>6 DEF Next

\* What a step may do with a flag: keep it, set it, clear it, or compute it.
LEMMA FlagsTyped == FlagTypes /\ [Next]_vars => FlagTypes'
<1> SUFFICES ASSUME FlagTypes, [Next]_vars PROVE FlagTypes'
  OBVIOUS
<1>1. signalled' \in BOOLEAN
  <2>1. signalled' = signalled \/ signalled' = FALSE \/ signalled' = (signalled \/ isStreaming)
    <3>1. CASE AgentStep
      BY <3>1 DEF AgentStep, Announce, FirstPoll, PollQueues, Answer, ToolEnds, RunEnds
    <3>2. ASSUME NEW p \in Prompts, Prompt(p) \/ Thread(p)
          PROVE  signalled' = signalled \/ signalled' = FALSE
      BY <3>2 DEF Thread, agentVars, Prompt, AcceptAndRun, StartRun, Post, Cancelled, BackoffExpires, Check,
                  CompactionSucceeds, CompactionFails, Decide, Continue, Throw, Leave
    <3>3. CASE \/ \E m \in Notes : Steer(m) \/ FollowUp(m)
               \/ ClearQueue \/ AbortRetry \/ Abort \/ CompactCalled \/ Manual \/ UNCHANGED vars
               \/ \E b \in Bashes : RecordBash(b)
      BY <3>3 DEF vars, agentVars, Manual, Steer, FollowUp, ClearQueue, AbortRetry, Abort, RecordBash,
                  CompactCalled, CompactBegins, CompactSucceeds, CompactFails
    <3> QED BY <3>1, <3>2, <3>3 DEF Next
  <2> QED BY <2>1 DEF FlagTypes
<1>2. connected' \in BOOLEAN
  <2>1. connected' = connected \/ connected' = FALSE \/ connected' = TRUE
    <3>1. CASE AgentStep
      BY <3>1 DEF AgentStep, Announce, FirstPoll, PollQueues, Answer, ToolEnds, RunEnds, manualVars
    <3>2. ASSUME NEW p \in Prompts, Prompt(p) \/ Thread(p)
          PROVE  connected' = connected \/ connected' = FALSE \/ connected' = TRUE
      BY <3>2 DEF Thread, Prompt, AcceptAndRun, Post, Cancelled, BackoffExpires, Check,
                  CompactionSucceeds, CompactionFails, Decide, Continue, Leave, manualVars
    <3>3. CASE \/ \E m \in Notes : Steer(m) \/ FollowUp(m)
               \/ ClearQueue \/ AbortRetry \/ Abort \/ CompactCalled \/ Manual \/ UNCHANGED vars
               \/ \E b \in Bashes : RecordBash(b)
      BY <3>3 DEF vars, Manual, Steer, FollowUp, ClearQueue, AbortRetry, Abort, RecordBash,
                  CompactCalled, CompactBegins, CompactSucceeds, CompactFails, manualVars
    <3> QED BY <3>1, <3>2, <3>3 DEF Next
  <2> QED BY <2>1 DEF FlagTypes
<1>3. overflowAttempted' \in BOOLEAN
  <2>1. \/ overflowAttempted' = overflowAttempted \/ overflowAttempted' = FALSE \/ overflowAttempted' = TRUE
        \/ \E k : overflowAttempted' = (overflowAttempted /\ k \in Errors)
    <3>1. CASE AgentStep
      BY <3>1 DEF AgentStep, Announce, FirstPoll, PollQueues, Answer, ToolEnds, RunEnds, overflowVars, AssistantMessage, UserMessage
    <3>2. ASSUME NEW p \in Prompts, Prompt(p) \/ Thread(p)
          PROVE  overflowAttempted' = overflowAttempted \/ overflowAttempted' = FALSE \/ overflowAttempted' = TRUE
      BY <3>2 DEF Thread, Prompt, AcceptAndRun, Post, Cancelled, BackoffExpires, Check,
                  CompactionSucceeds, CompactionFails, Decide, Continue, Leave, overflowVars, AssistantMessage, UserMessage
    <3>3. CASE \/ \E m \in Notes : Steer(m) \/ FollowUp(m)
               \/ ClearQueue \/ AbortRetry \/ Abort \/ CompactCalled \/ Manual \/ UNCHANGED vars
               \/ \E b \in Bashes : RecordBash(b)
      BY <3>3 DEF vars, Manual, Steer, FollowUp, ClearQueue, AbortRetry, Abort, RecordBash,
                  CompactCalled, CompactBegins, CompactSucceeds, CompactFails, overflowVars, AssistantMessage, UserMessage
    <3> QED BY <3>1, <3>2, <3>3 DEF Next
  <2> QED BY <2>1 DEF FlagTypes
<1>4. willRetry' \in BOOLEAN
  <2>1. willRetry' = willRetry \/ \E k : willRetry' = WillRetryAfter(k)
    <3>1. CASE AgentStep
      BY <3>1 DEF AgentStep, Announce, FirstPoll, PollQueues, Answer, ToolEnds, RunEnds, AgentEnd
    <3>2. ASSUME NEW p \in Prompts, Prompt(p) \/ Thread(p)
          PROVE  willRetry' = willRetry
      BY <3>2 DEF Thread, Prompt, AcceptAndRun, Post, Cancelled, BackoffExpires, Check,
                  CompactionSucceeds, CompactionFails, Decide, Continue, Leave, AgentEnd
    <3>3. CASE \/ \E m \in Notes : Steer(m) \/ FollowUp(m)
               \/ ClearQueue \/ AbortRetry \/ Abort \/ CompactCalled \/ Manual \/ UNCHANGED vars
               \/ \E b \in Bashes : RecordBash(b)
      BY <3>3 DEF vars, Manual, Steer, FollowUp, ClearQueue, AbortRetry, Abort, RecordBash,
                  CompactCalled, CompactBegins, CompactSucceeds, CompactFails, AgentEnd
    <3> QED BY <3>1, <3>2, <3>3 DEF Next
  <2> QED BY <2>1 DEF FlagTypes, WillRetryAfter
<1>5. retryOpen' \in BOOLEAN
  <2>1. \/ retryOpen' = retryOpen \/ retryOpen' = FALSE \/ retryOpen' = TRUE
        \/ \E k : retryOpen' = (retryOpen /\ ~ EndsRetry(k))
    <3>1. CASE AgentStep
      BY <3>1 DEF AgentStep, Announce, FirstPoll, PollQueues, Answer, ToolEnds, RunEnds, retryVars, AssistantMessage
    <3>2. ASSUME NEW p \in Prompts, Prompt(p) \/ Thread(p)
          PROVE  retryOpen' = retryOpen \/ retryOpen' = FALSE \/ retryOpen' = TRUE
      BY <3>2 DEF Thread, Prompt, AcceptAndRun, Post, Cancelled, BackoffExpires, Check,
                  CompactionSucceeds, CompactionFails, Decide, Continue, Leave, retryVars, AssistantMessage
    <3>3. CASE \/ \E m \in Notes : Steer(m) \/ FollowUp(m)
               \/ ClearQueue \/ AbortRetry \/ Abort \/ CompactCalled \/ Manual \/ UNCHANGED vars
               \/ \E b \in Bashes : RecordBash(b)
      BY <3>3 DEF vars, Manual, Steer, FollowUp, ClearQueue, AbortRetry, Abort, RecordBash,
                  CompactCalled, CompactBegins, CompactSucceeds, CompactFails, retryVars, AssistantMessage
    <3> QED BY <3>1, <3>2, <3>3 DEF Next
  <2> QED BY <2>1 DEF FlagTypes
<1> QED BY <1>1, <1>2, <1>3, <1>4, <1>5 DEF FlagTypes

\* Forgetting a message leaves a sequence of messages.
LEMMA ForgetType ==
  ASSUME NEW S, NEW m, NEW s \in Seq(S)
  PROVE  Forget(s, m) \in Seq(S)
<1> DEFINE I == {i \in 1 .. Len(s) : s[i] = m}
<1>1. CASE I = {}
  BY <1>1 DEF Forget, RemoveFirst
<1>2. CASE I # {}
  <2>1. I \in SUBSET Nat
    OBVIOUS
  <2>2. \E i \in I : \A j \in I : i <= j
    BY <1>2, <2>1, Least
  <2>3. Min(I) \in I
    BY <2>2 DEF Min
  <2>4. Forget(s, m) = RemoveAt(s, Min(I))
    <3>1. \E i \in 1 .. Len(s) : s[i] = m
      BY <1>2
    <3>2. SelectInSeq(s, LAMBDA v : v = m) = Min(I)
      BY <1>2 DEF SelectInSeq
    <3> QED BY <3>1, <3>2 DEF Forget, RemoveFirst
  <2> HIDE DEF I
  <2>5. Min(I) \in 1 .. Len(s)
    BY <2>3 DEF I
  <2> QED BY <2>4, <2>5 DEF RemoveAt
<1> QED BY <1>1, <1>2

\* The queues and the mirrors.
LEMMA QueuesTyped == ThreadInv /\ QueueTypes /\ [Next]_vars => QueueTypes'
<1> SUFFICES ASSUME ThreadInv, QueueTypes, [Next]_vars PROVE QueueTypes'
  OBVIOUS
<1>1. CASE UNCHANGED <<queueVars, mirrorVars, pending, sent>>
             /\ (phase' \in {"begin", "inject"} <=> phase \in {"begin", "inject"})
  BY <1>1 DEF QueueTypes, queueVars, mirrorVars
<1>2. ASSUME NEW m, UserMessage(m)
      PROVE  steeringMirror' \in Seq(Notes) /\ followUpMirror' \in Seq(Notes)
  BY <1>2, ForgetType DEF UserMessage, QueueTypes, mirrorVars
<1>3. ASSUME NEW q \in Seq(Notes), q # <<>>
      PROVE  Head(q) \in Notes /\ Tail(q) \in Seq(Notes) /\ Head(q) # None
  <2>1. Head(q) \in Notes /\ Tail(q) \in Seq(Notes)
    BY <1>3
  <2> QED BY <2>1, NoneAssumption
<1>4. CASE AgentStep
  <2>1. CASE Announce
    BY <1>2, <2>1 DEF Announce, QueueTypes, queueVars
  <2>2. CASE FirstPoll
    <3>1. CASE steeringQueue = <<>>
      BY <2>2, <3>1 DEF FirstPoll, QueueTypes, mirrorVars
    <3>2. CASE steeringQueue # <<>>
      BY <1>2, <1>3, <2>2, <3>2 DEF FirstPoll, QueueTypes, mirrorVars
    <3> QED BY <3>1, <3>2
  <2>3. CASE PollQueues
    <3>1. CASE steeringQueue # <<>>
      BY <1>3, <2>3, <3>1 DEF PollQueues, QueueTypes, mirrorVars
    <3>2. CASE steeringQueue = <<>> /\ phase = "turnEnd" /\ followUpQueue # <<>>
      BY <1>3, <2>3, <3>2 DEF PollQueues, QueueTypes, mirrorVars
    <3>3. CASE steeringQueue = <<>> /\ (phase # "turnEnd" \/ followUpQueue = <<>>)
      BY <1>1, <2>3, <3>3 DEF PollQueues, AgentEnd
    <3> QED BY <3>1, <3>2, <3>3
  <2>4. ASSUME NEW k \in Kinds, Answer(k) PROVE QueueTypes'
    <3>1. phase' \in {"settling", "tools", "turnEnd"}
      BY <2>4 DEF Answer, AgentEnd, Errors, Kinds
    <3> QED BY <1>1, <2>4, <3>1 DEF Answer
  <2>5. CASE ToolEnds \/ RunEnds
    BY <1>1, <2>5 DEF ToolEnds, RunEnds, Finishes
  <2> QED BY <1>4, <2>1, <2>2, <2>3, <2>4, <2>5 DEF AgentStep
<1>5. ASSUME NEW p \in Prompts, Prompt(p) \/ Thread(p) PROVE QueueTypes'
  <2>1. CASE AcceptAndRun(p)
    <3>1. CASE isStreaming
      BY <1>1, <2>1, <3>1 DEF AcceptAndRun
    <3>2. CASE ~ isStreaming
      <4>1. p # None
        BY NoneAssumption
      <4> QED BY <2>1, <3>2, <4>1 DEF AcceptAndRun, StartRun, QueueTypes, queueVars, mirrorVars
    <3> QED BY <3>1, <3>2
  <2>2. CASE Continue(p)
    <3>1. CASE Throw(p)
      BY <1>1, <2>2, <3>1 DEF Continue, Throw
    <3>2. CASE StartRun(p, None, "poll") /\ UNCHANGED queueVars
      BY <2>2, <3>2 DEF Continue, StartRun, QueueTypes, queueVars, mirrorVars
    <3>3. CASE /\ steeringQueue # <<>> /\ StartRun(p, Head(steeringQueue), "inject")
               /\ steeringQueue' = Tail(steeringQueue) /\ UNCHANGED followUpQueue
      BY <1>3, <2>2, <3>3 DEF Continue, StartRun, QueueTypes, mirrorVars
    <3>4. CASE /\ followUpQueue # <<>> /\ StartRun(p, Head(followUpQueue), "begin")
               /\ followUpQueue' = Tail(followUpQueue) /\ UNCHANGED steeringQueue
      BY <1>3, <2>2, <3>4 DEF Continue, StartRun, QueueTypes, mirrorVars
    <3> QED BY <2>2, <3>1, <3>2, <3>3, <3>4 DEF Continue
  <2>3. CASE \/ Prompt(p) \/ Post(p) \/ Cancelled(p) \/ BackoffExpires(p) \/ Check(p) \/ CompactionSucceeds(p)
             \/ CompactionFails(p) \/ Decide(p) \/ Leave(p)
    BY <1>1, <2>3
       DEF Prompt, Post, Cancelled, BackoffExpires, Check, CompactionSucceeds, CompactionFails, Decide, Leave,
           agentVars
  <2> QED BY <1>5, <2>1, <2>2, <2>3 DEF Thread
<1>6. ASSUME NEW m \in Notes, Steer(m) PROVE QueueTypes'
  BY <1>6 DEF Steer, QueueTypes, agentVars
<1>7. ASSUME NEW m \in Notes, FollowUp(m) PROVE QueueTypes'
  BY <1>7 DEF FollowUp, QueueTypes, agentVars
<1>8. CASE ClearQueue
  BY <1>8 DEF ClearQueue, QueueTypes, agentVars
<1>9. CASE \/ AbortRetry \/ Abort \/ CompactCalled \/ Manual \/ UNCHANGED vars
           \/ \E b \in Bashes : RecordBash(b)
  BY <1>1, <1>9
     DEF AbortRetry, Abort, CompactCalled, Manual, CompactBegins, CompactSucceeds, CompactFails, RecordBash,
         vars, agentVars
<1> QED BY <1>4, <1>5, <1>6, <1>7, <1>8, <1>9 DEF Next

\* Sets of places have a last one.
LEMMA LastPlace ==
  ASSUME NEW n \in Nat, NEW S \in SUBSET (1 .. n), S # {}
  PROVE  Max(S) \in S /\ \A j \in S : j <= Max(S)
<1> DEFINE T == {n - i : i \in S}
<1>1. T \in SUBSET Nat /\ T # {}
  <2>1. \A i \in S : n - i \in Nat
    OBVIOUS
  <2> QED BY <2>1
<1>2. PICK k \in T : \A m \in T : k <= m
  BY <1>1, Least
<1>3. PICK i \in S : k = n - i
  BY <1>2
<1>4. \A j \in S : i >= j
  BY <1>2, <1>3
<1>5. Max(S) \in S /\ \A j \in S : Max(S) >= j
  BY <1>4 DEF Max
<1>6. \A j \in S : Max(S) >= j <=> j <= Max(S)
  BY <1>5
<1> QED BY <1>5, <1>6

\* Messages are told by their roles.
LEMMA Roles ==
  /\ \A e \in Entries : /\ IsCompaction(e) => e.from \in Nat
                        /\ ~ IsCompaction(e) => e \in Messages
  /\ \A e \in Lines : e.role = "assistant" => e \in Answers
  /\ \A e \in Messages : ~ IsCompaction(e) /\ e \in Entries /\ e \in Lines
BY DEF Entries, Lines, Messages, Answers, IsCompaction, User, Bash, ToolResult, Summary

\* The compactions of a session are places in it, and finitely many.
LEMMA CompactionPlaces ==
  ASSUME NEW X, NEW s \in Seq(X)
  PROVE  /\ CompactionsOf(s) \in SUBSET (1 .. Len(s)) /\ Len(s) \in Nat
         /\ Cardinality(CompactionsOf(s)) \in Nat
         /\ CompactionsOf(s) # {} =>
              /\ Max(CompactionsOf(s)) \in CompactionsOf(s)
              /\ \A j \in CompactionsOf(s) : j <= Max(CompactionsOf(s))
<1>1. CompactionsOf(s) \in SUBSET (1 .. Len(s)) /\ Len(s) \in Nat
  BY DEF CompactionsOf
<1>2. IsFiniteSet(1 .. Len(s))
  BY <1>1, FS_Interval
<1>3. Cardinality(CompactionsOf(s)) \in Nat
  BY <1>1, <1>2, FS_Subset, FS_CardinalityType
<1> QED BY <1>1, <1>3, LastPlace

\* What a compaction kept starts at a number.
LEMMA FirstKeptType == ASSUME NEW s \in Seq(Entries) PROVE FirstKept(s) \in Nat
<1>1. CASE CompactionsOf(s) = {}
  BY <1>1 DEF FirstKept
<1>2. CASE CompactionsOf(s) # {}
  <2>1. Max(CompactionsOf(s)) \in 1 .. Len(s) /\ IsCompaction(s[Max(CompactionsOf(s))])
    BY <1>2, CompactionPlaces DEF CompactionsOf
  <2>2. s[Max(CompactionsOf(s))] \in Entries
    BY <2>1
  <2> QED BY <1>2, <2>1, <2>2, Roles DEF FirstKept
<1> QED BY <1>1, <1>2

\* A rebuilt context has only what a transcript has.
LEMMA ContextType == ASSUME NEW s \in Seq(Entries) PROVE Context(s) \in Seq(Lines)
<1>1. CASE CompactionsOf(s) = {}
  <2>1. \A i \in 1 .. Len(s) : s[i] \in Lines
    BY <1>1, Roles DEF CompactionsOf
  <2>2. s \in Seq(Lines)
    BY <2>1
  <2> QED BY <1>1, <2>2 DEF Context
<1>2. CASE CompactionsOf(s) # {}
  <2> DEFINE I == {i \in FirstKept(s) .. Len(s) : ~ IsCompaction(s[i])}
  <2>1. \A i \in 1 .. Len(s) : i \in I => s[i] \in Lines
    BY Roles
  <2>2. Pick(s, I) \in Seq(Lines)
    BY <2>1, PickType
  <2>3. <<Summary>> \in Seq(Lines)
    BY DEF Lines
  <2>4. Context(s) = <<Summary>> \o Pick(s, I)
    BY <1>2 DEF Context
  <2> HIDE DEF I
  <2> QED BY <2>2, <2>3, <2>4
<1> QED BY <1>1, <1>2

\* A compaction keeps from a number.
LEMMA KeepFromType == HistoryTypes => KeepFrom \subseteq Nat
<1> SUFFICES ASSUME HistoryTypes PROVE KeepFrom \subseteq Nat
  OBVIOUS
<1>1. path \in Seq(Entries) /\ FirstKept(path) \in Nat /\ Len(path) \in Nat
  BY FirstKeptType DEF HistoryTypes
<1>2. CutPoints(FirstKept(path)) \subseteq Nat
  BY <1>1 DEF CutPoints
<1> QED BY <1>1, <1>2 DEF KeepFrom

\* Sequences without their tail.
LEMMA DropType ==
  ASSUME NEW X, NEW s \in Seq(X)
  PROVE  DropAssistant(s) \in Seq(X) /\ DropError(s) \in Seq(X)
<1>1. s # <<>> => Front(s) \in Seq(X)
  BY DEF Front
<1>2. s = <<>> => TailOf(s).role = "none"
  BY DEF TailOf, NoMessage
<1> QED BY <1>1, <1>2 DEF DropAssistant, DropError, IsError

\* The history under a user message, an answer, deferred commands.
LEMMA HistoryGrows ==
  ASSUME HistoryTypes
  PROVE  /\ \A m \in Prompts \cup Notes : UserMessage(m) => transcript' \in Seq(Lines) /\ path' \in Seq(Entries)
         /\ \A k \in Kinds : AssistantMessage(k) =>
              /\ transcript' \in Seq(Lines) /\ path' \in Seq(Entries)
              /\ lastAssistant' \in Answers \cup {NoMessage}
         /\ FlushBash => /\ transcript' \in Seq(Lines) /\ path' \in Seq(Entries)
                         /\ pendingBash' \in Seq({Bash(b) : b \in Bashes})
<1>1. \A e \in Messages : Append(transcript, e) \in Seq(Lines) /\ Append(path, e) \in Seq(Entries)
  BY Roles DEF HistoryTypes
<1>2. ASSUME NEW m \in Prompts \cup Notes, UserMessage(m)
      PROVE  transcript' \in Seq(Lines) /\ path' \in Seq(Entries)
  <2>1. User(m) \in Messages
    BY DEF Messages
  <2> QED BY <1>1, <1>2, <2>1 DEF UserMessage, HistoryTypes
<1>3. ASSUME NEW k \in Kinds, AssistantMessage(k)
      PROVE  /\ transcript' \in Seq(Lines) /\ path' \in Seq(Entries)
             /\ lastAssistant' \in Answers \cup {NoMessage}
  <2>1. Compactions \in Nat
    BY CompactionPlaces DEF HistoryTypes, Compactions
  <2>2. Said(k) \in Answers
    BY <2>1 DEF Said, Answers
  <2>3. Said(k) \in Messages
    BY <2>2 DEF Messages
  <2> QED BY <1>1, <1>3, <2>2, <2>3 DEF AssistantMessage, HistoryTypes
<1>4. ASSUME FlushBash
      PROVE  /\ transcript' \in Seq(Lines) /\ path' \in Seq(Entries)
             /\ pendingBash' \in Seq({Bash(b) : b \in Bashes})
  <2>1. {Bash(b) : b \in Bashes} \subseteq Lines /\ {Bash(b) : b \in Bashes} \subseteq Entries
    BY DEF Lines, Entries, Messages
  <2>2. pendingBash \in Seq(Lines) /\ pendingBash \in Seq(Entries)
    BY <2>1 DEF HistoryTypes
  <2> QED BY <1>4, <2>2 DEF FlushBash, HistoryTypes
<1> QED BY <1>2, <1>3, <1>4

\* Every step keeps the history typed.
LEMMA HistoryTyped == ThreadInv /\ HistoryTypes /\ QueueTypes /\ [Next]_vars => HistoryTypes'
<1> SUFFICES ASSUME ThreadInv, HistoryTypes, QueueTypes, [Next]_vars PROVE HistoryTypes'
  OBVIOUS
<1> DEFINE Reasons == {"none", "overflow", "threshold"}
           Spoken  == transcript \in Seq(Lines) /\ path \in Seq(Entries)
           Late    == pendingBash \in Seq({Bash(b) : b \in Bashes})
           Heldt   == lastAssistant \in Answers \cup {NoMessage} /\ held \in [Prompts -> Answers \cup {NoMessage}]
           Cuts    == compaction \in [Prompts -> [reason : Reasons, from : Nat]] /\ manualKeep \in Nat
<1>0. HistoryTypes <=> Spoken /\ Late /\ Heldt /\ Cuts
  BY DEF HistoryTypes
<1>1. (HistoryTypes <=> Spoken /\ Late /\ Heldt /\ Cuts)'
  BY DEF HistoryTypes
<1>2. UNCHANGED <<transcript, path>> => Spoken'
  BY <1>0
<1>3. UNCHANGED pendingBash => Late'
  BY <1>0
<1>4. UNCHANGED <<lastAssistant, held>> => Heldt'
  BY <1>0
<1>5. UNCHANGED <<compaction, manualKeep>> => Cuts'
  BY <1>0
<1>6. UserMessage(pending) /\ pending # None => Spoken'
  BY HistoryGrows DEF QueueTypes
<1>7. FlushBash => Spoken' /\ Late'
  BY HistoryGrows
<1>8. /\ DropAssistant(transcript) \in Seq(Lines)
      /\ \A k \in Nat : Append(path, Compaction(k)) \in Seq(Entries)
  <2>1. \A k \in Nat : Compaction(k) \in Entries
    BY DEF Compaction, Entries
  <2> QED BY <1>0, <2>1, DropType
<1>9. KeepFrom \subseteq Nat
  BY KeepFromType
<1> HIDE DEF Spoken, Late, Heldt, Cuts
<1>10. CASE AgentStep
  <2>1. CASE Announce
    <3>1. pending # None /\ UserMessage(pending)
      BY <2>1 DEF Announce, QueueTypes
    <3> QED BY <1>1, <1>3, <1>4, <1>5, <1>6, <2>1, <3>1 DEF Announce, threadVars, manualVars, bashVars
  <2>2. CASE FirstPoll
    <3>1. CASE steeringQueue = <<>>
      BY <1>1, <1>2, <1>3, <1>4, <1>5, <2>2, <3>1 DEF FirstPoll, threadVars, manualVars, bashVars
    <3>2. CASE steeringQueue # <<>>
      <4>1. Head(steeringQueue) \in Notes
        BY <3>2 DEF QueueTypes
      <4>2. Spoken'
        BY <2>2, <3>2, <4>1, HistoryGrows DEF FirstPoll, Spoken
      <4> QED BY <1>1, <1>3, <1>4, <1>5, <2>2, <4>2 DEF FirstPoll, threadVars, manualVars, bashVars
    <3> QED BY <3>1, <3>2
  <2>3. CASE PollQueues
    BY <1>1, <1>2, <1>3, <1>4, <1>5, <2>3 DEF PollQueues, threadVars, manualVars, bashVars
  <2>4. ASSUME NEW k \in Kinds, Answer(k) PROVE HistoryTypes'
    <3>1. Spoken' /\ lastAssistant' \in Answers \cup {NoMessage}
      BY <2>4, HistoryGrows DEF Answer, Spoken
    <3>2. Heldt'
      BY <1>0, <2>4, <3>1 DEF Answer, threadVars, Heldt
    <3> QED BY <1>1, <1>3, <1>5, <2>4, <3>1, <3>2 DEF Answer, threadVars, manualVars, bashVars
  <2>5. CASE ToolEnds
    <3>1. ToolResult \in Messages
      BY DEF Messages
    <3>2. Append(transcript, ToolResult) \in Seq(Lines) /\ Append(path, ToolResult) \in Seq(Entries)
      BY <1>0, <3>1, Roles DEF Spoken
    <3>3. Spoken'
      BY <1>0, <2>5, <3>2 DEF ToolEnds, Spoken
    <3> QED BY <1>1, <1>3, <1>4, <1>5, <2>5, <3>3 DEF ToolEnds, threadVars, manualVars, bashVars
  <2>6. CASE RunEnds
    BY <1>1, <1>2, <1>3, <1>4, <1>5, <2>6 DEF RunEnds, manualVars, bashVars
  <2> QED BY <1>10, <2>1, <2>2, <2>3, <2>4, <2>5, <2>6 DEF AgentStep
<1>11. ASSUME NEW p \in Prompts, Prompt(p) PROVE HistoryTypes'
  <2>1. Spoken' /\ Late'
    BY <1>7, <1>11 DEF Prompt
  <2> DEFINE S == {i \in DOMAIN transcript' : transcript'[i].role = "assistant"}
  <2>2. S # {} => transcript'[Max(S)] \in Answers
    <3>1. transcript' \in Seq(Lines)
      BY <2>1 DEF Spoken
    <3>2. S \in SUBSET (1 .. Len(transcript')) /\ Len(transcript') \in Nat
      BY <3>1
    <3>3. ASSUME S # {} PROVE Max(S) \in S
      BY <3>2, <3>3, LastPlace
    <3> HIDE DEF S
    <3>4. ASSUME S # {} PROVE Max(S) \in 1 .. Len(transcript') /\ transcript'[Max(S)].role = "assistant"
      BY <3>2, <3>3, <3>4 DEF S
    <3> QED BY <3>1, <3>4, Roles
  <2>3. UNCHANGED held \/ (S # {} /\ held' = [held EXCEPT ![p] = transcript'[Max(S)]])
    BY <1>11 DEF Prompt
  <2> HIDE DEF S
  <2>4. Heldt'
    <3>1. UNCHANGED lastAssistant
      BY <1>11 DEF Prompt
    <3>2. held' \in [Prompts -> Answers \cup {NoMessage}]
      BY <1>0, <2>2, <2>3 DEF Heldt
    <3> QED BY <1>0, <3>1, <3>2 DEF Heldt
  <2> QED BY <1>1, <1>5, <1>11, <2>1, <2>4 DEF Prompt, manualVars
<1>12. ASSUME NEW p \in Prompts, Thread(p) PROVE HistoryTypes'
  <2>1. CASE AcceptAndRun(p)
    BY <1>1, <1>2, <1>3, <1>4, <1>5, <1>7, <2>1 DEF AcceptAndRun, manualVars
  <2>2. CASE Post(p)
    <3>1. transcript' = transcript \/ transcript' = DropAssistant(transcript)
      BY <2>2 DEF Post
    <3>2. Spoken'
      BY <1>0, <1>8, <2>2, <3>1 DEF Post, Spoken
    <3>3. Heldt'
      BY <1>0, <2>2 DEF Post, Heldt
    <3> QED BY <1>1, <1>3, <1>5, <2>2, <3>2, <3>3 DEF Post, manualVars, bashVars
  <2>3. CASE Cancelled(p) \/ BackoffExpires(p) \/ Decide(p)
    BY <1>1, <1>2, <1>3, <1>4, <1>5, <2>3
       DEF Cancelled, BackoffExpires, Decide, agentVars, manualVars, bashVars
  <2>4. CASE Check(p)
    <3>1. transcript' = transcript \/ transcript' = DropAssistant(transcript)
      BY <2>4 DEF Check
    <3>2. Spoken'
      BY <1>0, <1>8, <2>4, <3>1 DEF Check, Spoken
    <3>3. \/ UNCHANGED compaction
          \/ \E k \in KeepFrom, r \in Reasons : compaction' = [compaction EXCEPT ![p] = [reason |-> r, from |-> k]]
      BY <2>4 DEF Check, StartCompaction
    <3>4. Cuts'
      <4>1. UNCHANGED manualKeep
        BY <2>4 DEF Check, manualVars
      <4>2. compaction' \in [Prompts -> [reason : Reasons, from : Nat]]
        BY <1>0, <1>9, <3>3 DEF Cuts
      <4> QED BY <1>0, <4>1, <4>2 DEF Cuts
    <3> QED BY <1>1, <1>3, <1>4, <2>4, <3>2, <3>4 DEF Check, bashVars
  <2>5. CASE CompactionSucceeds(p)
    <3>1. path' = Append(path, Compaction(compaction[p].from)) /\ compaction[p].from \in Nat
      BY <1>0, <2>5 DEF CompactionSucceeds, Cuts
    <3>2. path' \in Seq(Entries)
      BY <1>8, <3>1
    <3>3. Context(path') \in Seq(Lines)
      BY <3>2, ContextType
    <3>4. DropError(Context(path')) \in Seq(Lines)
      BY <3>3, DropType
    <3>5. Spoken'
      BY <2>5, <3>2, <3>3, <3>4 DEF CompactionSucceeds, Rebuilt, Spoken
    <3> QED BY <1>1, <1>3, <1>4, <1>5, <2>5, <3>5 DEF CompactionSucceeds, manualVars, bashVars
  <2>6. CASE CompactionFails(p)
    <3>1. Cuts'
      BY <1>0, <2>6 DEF CompactionFails, manualVars, Cuts
    <3> QED BY <1>1, <1>2, <1>3, <1>4, <2>6, <3>1 DEF CompactionFails, agentVars, bashVars
  <2>7. CASE Continue(p)
    BY <1>1, <1>2, <1>3, <1>4, <1>5, <1>7, <2>7 DEF Continue, Throw, manualVars
  <2>8. CASE Leave(p)
    BY <1>1, <1>4, <1>5, <1>7, <2>8 DEF Leave, manualVars
  <2> QED BY <1>12, <2>1, <2>2, <2>3, <2>4, <2>5, <2>6, <2>7, <2>8 DEF Thread
<1>13. CASE \/ \E m \in Notes : Steer(m) \/ FollowUp(m)
            \/ ClearQueue \/ AbortRetry \/ Abort \/ UNCHANGED vars
  BY <1>1, <1>2, <1>3, <1>4, <1>5, <1>13
     DEF Steer, FollowUp, ClearQueue, AbortRetry, Abort, vars, agentVars, threadVars, manualVars, bashVars
<1>14. ASSUME NEW b \in Bashes, RecordBash(b) PROVE HistoryTypes'
  <2>1. Bash(b) \in Messages /\ Bash(b) \in {Bash(c) : c \in Bashes}
    BY DEF Messages
  <2>2. Append(transcript, Bash(b)) \in Seq(Lines) /\ Append(path, Bash(b)) \in Seq(Entries)
    BY <1>0, <2>1, Roles DEF Spoken
  <2>3. Append(pendingBash, Bash(b)) \in Seq({Bash(c) : c \in Bashes})
    BY <1>0, <2>1 DEF Late
  <2>4. CASE Deferred
    BY <1>1, <1>2, <1>4, <1>5, <1>14, <2>3, <2>4 DEF RecordBash, Late, threadVars, manualVars
  <2>5. CASE ~ Deferred
    <3>1. Spoken'
      BY <1>14, <2>2, <2>5 DEF RecordBash, Spoken
    <3> QED BY <1>1, <1>3, <1>4, <1>5, <1>14, <2>5, <3>1 DEF RecordBash, threadVars, manualVars
  <2> QED BY <2>4, <2>5
<1>15. CASE CompactCalled
  BY <1>1, <1>2, <1>3, <1>4, <1>5, <1>15 DEF CompactCalled, bashVars
<1>16. CASE Manual
  <2>1. CASE CompactBegins
    <3>1. manualKeep' \in Nat /\ UNCHANGED compaction
      BY <1>9, <2>1 DEF CompactBegins, threadVars
    <3>2. Cuts'
      BY <1>0, <3>1 DEF Cuts
    <3> QED BY <1>1, <1>2, <1>3, <1>4, <2>1, <3>2 DEF CompactBegins, agentVars, threadVars, bashVars
  <2>2. CASE CompactSucceeds
    <3>1. path' = Append(path, Compaction(manualKeep)) /\ manualKeep \in Nat
      BY <1>0, <2>2 DEF CompactSucceeds, Cuts
    <3>2. path' \in Seq(Entries)
      BY <1>8, <3>1
    <3>3. Spoken'
      BY <2>2, <3>2, ContextType DEF CompactSucceeds, Spoken
    <3> QED BY <1>1, <1>3, <1>4, <1>5, <2>2, <3>3 DEF CompactSucceeds, threadVars, bashVars
  <2>3. CASE CompactFails
    BY <1>1, <1>2, <1>3, <1>4, <1>5, <2>3 DEF CompactFails, agentVars, threadVars, bashVars
  <2> QED BY <1>16, <2>1, <2>2, <2>3 DEF Manual
<1> QED BY <1>10, <1>11, <1>12, <1>13, <1>14, <1>15, <1>16 DEF Next

Types == ThreadInv /\ HistoryTypes /\ QueueTypes /\ CounterTypes /\ FlagTypes

LEMMA TypesHold == Spec => []Types
<1>1. Init => Types
  <2> SUFFICES ASSUME Init PROVE Types
    OBVIOUS
  <2>1. ThreadInv
    BY InitThread
  <2>2. HistoryTypes
    BY DEF Init, HistoryTypes
  <2>3. QueueTypes
    BY DEF Init, QueueTypes
  <2>4. CounterTypes
    BY DEF Init, CounterTypes
  <2>5. FlagTypes
    BY DEF Init, FlagTypes
  <2> QED BY <2>1, <2>2, <2>3, <2>4, <2>5 DEF Types
<1>2. Types /\ [Next]_vars => Types'
  BY ThreadInductive, HistoryTyped, QueuesTyped, CountersTyped, FlagsTyped DEF Types
<1> QED BY <1>1, <1>2, PTL DEF Spec

\* The session's state is well typed, whatever its users, the provider and the
\* tools do.
THEOREM TypeCorrect == Spec => []TypeOK
<1>1. Types => TypeOK
  BY TypesAreParts DEF Types
<1> QED BY <1>1, TypesHold, PTL

-----------------------------------------------------------------------------
(* What the agent is asked to answer.                                      *)

\* In a session that is not compacted by hand, only the agent, the threads and
\* the commands write history; the other calls wake a sleeper at most.
LEMMA Writers ==
  ASSUME MaxManual = 0, Heard, [Next]_vars
  PROVE  \/ AgentStep
         \/ \E p \in Prompts : Prompt(p) \/ Thread(p)
         \/ \E b \in Bashes : RecordBash(b)
         \/ /\ UNCHANGED <<transcript, path, pendingBash, activeRun, phase, lastAssistant, retryAttempt,
                           retryOpen, held, compaction>>
            /\ UNCHANGED pc \/ CancelSleep
<1>1. ~ CompactCalled /\ ~ Manual
  BY DEF CompactCalled, Manual, CompactBegins, CompactSucceeds, CompactFails, CompactWakes, Heard
<1> QED BY <1>1 DEF Next, vars, agentVars, retryVars, threadVars, bashVars, Steer, FollowUp, ClearQueue,
                     AbortRetry, Abort

\* While calls come from outside no thread has the turn.
LEMMA NobodysTurn == ThreadInv /\ Outside => \A p \in Prompts : pc[p] \notin AtTurn
BY NoneAssumption DEF ThreadInv, Outside

\* A thread that is under way and not in a run is the only one, and no run is.
LEMMA OnlyThread ==
  ASSUME ThreadInv, Alone, NEW p \in Prompts, Busy(p), pc[p] # "running"
  PROVE  /\ phase = "idle" /\ ~ isStreaming
         /\ \A q \in Prompts : q # p => pc[q] \in {"off"} \cup Settled
BY NoneAssumption DEF ThreadInv, Alone, Busy, Settled, isStreaming

\* A run is the one of the only thread under way.
LEMMA OnlyRun ==
  ASSUME ThreadInv, Alone, phase # "idle"
  PROVE  /\ activeRun \in Prompts /\ pc[activeRun] = "running"
         /\ \A q \in Prompts : q # activeRun => pc[q] \in {"off"} \cup Settled
BY NoneAssumption DEF ThreadInv, Alone, Busy, Settled

\* The last answer, from its end to the handling of the run, ends the transcript.
AfterAnswer == phase \in {"turnEnd", "settling"} \/ \E p \in Prompts : pc[p] = "post"

\* What the provider is asked ends with something to answer.
ToAnswer(s) == TailOf(s).role \notin {"none", "assistant"}

AskedInv ==
  /\ phase \in {"poll", "stream", "toolTurn"} => ToAnswer(transcript)
  /\ AfterAnswer => TailOf(transcript) = lastAssistant
  /\ AfterAnswer /\ lastAssistant.what = "retryable" => ToAnswer(Front(transcript))

\* The tail of a sequence that is made longer.
LEMMA TailOfAppend ==
  ASSUME NEW X, NEW s \in Seq(X), NEW e \in X
  PROVE  TailOf(Append(s, e)) = e /\ Front(Append(s, e)) = s /\ Append(s, e) # <<>>
<1>1. /\ Append(s, e) # <<>> /\ Len(Append(s, e)) = Len(s) + 1 /\ Append(s, e)[Len(s) + 1] = e
      /\ Len(s) \in Nat
  OBVIOUS
<1>2. Front(Append(s, e)) = s
  BY <1>1 DEF Front
<1> QED BY <1>1, <1>2 DEF TailOf, Last

\* Messages of the user, results and commands are there to be answered.
LEMMA Asks ==
  ASSUME HistoryTypes
  PROVE  /\ \A m \in Prompts \cup Notes : ToAnswer(Append(transcript, User(m)))
         /\ ToAnswer(Append(transcript, ToolResult))
         /\ \A b \in Bashes : ToAnswer(Append(transcript, Bash(b)))
<1>1. /\ \A m \in Prompts \cup Notes : User(m) \in Lines /\ User(m).role = "user"
      /\ ToolResult \in Lines /\ ToolResult.role = "toolResult"
      /\ \A b \in Bashes : Bash(b) \in Lines /\ Bash(b).role = "bash"
  BY DEF Lines, Messages, User, ToolResult, Bash
<1> QED BY <1>1, TailOfAppend DEF ToAnswer, HistoryTypes

\* An answer ends the transcript, before it stands what it answers.
LEMMA Answered ==
  ASSUME HistoryTypes, Heard, NEW k \in Kinds, Answer(k)
  PROVE  /\ lastAssistant' = Said(k) /\ TailOf(transcript') = Said(k) /\ Front(transcript') = transcript
         /\ transcript' = Append(transcript, Said(k)) /\ path' = Append(path, Said(k))
         /\ Said(k) \in Answers
<1>1. Compactions \in Nat
  BY CompactionPlaces DEF HistoryTypes, Compactions
<1>2. Said(k) \in Answers /\ Said(k) \in Lines
  BY <1>1 DEF Said, Answers, Lines, Messages
<1>3. /\ transcript' = Append(transcript, Said(k)) /\ path' = Append(path, Said(k))
      /\ lastAssistant' = Said(k)
  BY DEF Answer, AssistantMessage, Heard
<1> QED BY <1>2, <1>3, TailOfAppend DEF HistoryTypes

\* The agent is asked something, and what it says stands at the end.
LEMMA AgentAsked ==
  ASSUME ThreadInv, Heard, HistoryTypes, QueueTypes, AskedInv, AgentStep
  PROVE  AskedInv'
<1>1. \A p \in Prompts : pc[p] # "post"
  BY NobodysTurn DEF AgentStep, AtTurn
<1>2. AfterAnswer => phase \in {"turnEnd", "settling"}
  BY <1>1 DEF AfterAnswer
<1>3. UNCHANGED pc /\ AfterAnswer' => phase' \in {"turnEnd", "settling"}
  BY <1>1 DEF AfterAnswer
<1>4. CASE Announce
  <2>1. pending \in Prompts \cup Notes
    BY <1>4 DEF Announce, QueueTypes
  <2>2. ToAnswer(transcript') /\ phase' \in {"poll", "stream"} /\ UNCHANGED pc
    BY <1>4, <2>1, Asks DEF Announce, UserMessage, threadVars
  <2> QED BY <1>3, <2>2 DEF AskedInv, ToAnswer
<1>5. CASE FirstPoll
  <2>1. ToAnswer(transcript')
    <3>1. CASE steeringQueue = <<>>
      BY <1>5, <3>1 DEF FirstPoll, AskedInv
    <3>2. CASE steeringQueue # <<>>
      <4>1. Head(steeringQueue) \in Notes
        BY <3>2 DEF QueueTypes
      <4> QED BY <1>5, <3>2, <4>1, Asks DEF FirstPoll, UserMessage
    <3> QED BY <3>1, <3>2
  <2>2. phase' = "stream" /\ UNCHANGED pc
    BY <1>5 DEF FirstPoll, threadVars
  <2> QED BY <1>3, <2>1, <2>2 DEF AskedInv, ToAnswer
<1>6. CASE PollQueues
  <2>1. UNCHANGED <<transcript, lastAssistant, pc>> /\ phase \in {"toolTurn", "turnEnd"}
    BY <1>6 DEF PollQueues, threadVars
  <2>2. phase' = "inject" \/ (phase' = "stream" /\ phase = "toolTurn") \/ (phase' = "settling" /\ phase = "turnEnd")
    BY <1>6 DEF PollQueues, AgentEnd
  <2>3. phase' \in {"poll", "stream", "toolTurn"} => ToAnswer(transcript)
    BY <2>1, <2>2 DEF AskedInv
  <2>4. AfterAnswer' => AfterAnswer
    BY <1>3, <2>1, <2>2 DEF AfterAnswer
  <2> QED BY <2>1, <2>3, <2>4 DEF AskedInv, ToAnswer
<1>7. ASSUME NEW k \in Kinds, Answer(k) PROVE AskedInv'
  <2>1. phase' \in {"settling", "tools", "turnEnd"} /\ ToAnswer(transcript)
    BY <1>7 DEF Answer, AgentEnd, Errors, AskedInv
  <2> QED BY <1>7, <2>1, Answered DEF AskedInv, ToAnswer
<1>8. CASE ToolEnds
  <2>1. ToAnswer(transcript') /\ phase' = "toolTurn" /\ UNCHANGED pc
    BY <1>8, Asks DEF ToolEnds, threadVars
  <2> QED BY <1>3, <2>1 DEF AskedInv, ToAnswer
<1>9. CASE RunEnds
  <2>1. UNCHANGED <<transcript, lastAssistant>> /\ AfterAnswer /\ phase' = "idle"
    BY <1>9 DEF RunEnds, Finishes, AfterAnswer
  <2> QED BY <2>1 DEF AskedInv, ToAnswer
<1> QED BY <1>4, <1>5, <1>6, <1>7, <1>8, <1>9 DEF AgentStep

\* The threads ask only where there is something to answer.
LEMMA AskedInductive ==
  ASSUME MaxManual = 0
  PROVE  ThreadInv /\ Alone /\ Heard /\ HistoryTypes /\ QueueTypes /\ AskedInv /\ [Next]_vars => AskedInv'
<1> SUFFICES ASSUME ThreadInv, Alone, Heard, HistoryTypes, QueueTypes, AskedInv, [Next]_vars
             PROVE  AskedInv'
  OBVIOUS
<1>1. ASSUME ~ AfterAnswer', phase' \notin {"poll", "stream", "toolTurn"} PROVE AskedInv'
  BY <1>1 DEF AskedInv
<1>2. ASSUME NEW p \in Prompts, Prompt(p) PROVE AskedInv'
  <2>1. phase = "idle" /\ UNCHANGED phase
    BY <1>2 DEF Prompt, isStreaming, ThreadInv
  <2>2. \A q \in Prompts : pc[q] # "post"
    BY <1>2, NobodysTurn DEF Prompt, AtTurn
  <2>3. \A q \in Prompts : pc'[q] # "post"
    BY <1>2, <2>2 DEF Prompt, GoTo, ThreadInv
  <2> QED BY <1>1, <2>1, <2>3 DEF AfterAnswer
<1>3. ASSUME NEW p \in Prompts, Thread(p) PROVE AskedInv'
  <2>1. /\ Busy(p) /\ pc[p] # "running"
        /\ \E l : l # "post" /\ pc' = [pc EXCEPT ![p] = l]
    BY <1>3 DEF Busy, Settled, Thread, AcceptAndRun, Post, Cancelled, BackoffExpires, Check, StartCompaction,
                NotCompacted, CompactionSucceeds, CompactionFails, Decide, Continue, Throw, Leave, GoTo
  <2>2. phase = "idle" /\ ~ isStreaming /\ \A q \in Prompts : q # p => pc[q] \in {"off"} \cup Settled
    BY <2>1, OnlyThread
  <2>3. \A q \in Prompts : pc'[q] # "post"
    BY <2>1, <2>2 DEF ThreadInv, Settled
  <2>6. phase' \in {"idle", "begin", "inject", "poll"}
    BY <1>3, <2>2
       DEF Thread, AcceptAndRun, StartRun, Post, Cancelled, BackoffExpires, Check, CompactionSucceeds,
           CompactionFails, Decide, Continue, Throw, Leave, agentVars
  <2>4. CASE phase' \notin {"poll", "stream", "toolTurn"}
    BY <1>1, <2>3, <2>4, <2>6 DEF AfterAnswer
  <2>5. CASE phase' \in {"poll", "stream", "toolTurn"}
    <3>1. Continue(p) /\ phase' = "poll" /\ ToAnswer(transcript) /\ UNCHANGED transcript
      BY <1>3, <2>2, <2>5
         DEF Thread, AcceptAndRun, StartRun, Post, Cancelled, BackoffExpires, Check, CompactionSucceeds,
             CompactionFails, Decide, Continue, Throw, Leave, agentVars, ToAnswer
    <3> QED BY <2>3, <3>1 DEF AskedInv, AfterAnswer, ToAnswer
  <2> QED BY <2>4, <2>5
<1>4. ASSUME NEW b \in Bashes, RecordBash(b) PROVE AskedInv'
  <2>1. UNCHANGED <<pc, phase, lastAssistant>>
    BY <1>4 DEF RecordBash, threadVars
  <2>2. CASE UNCHANGED transcript
    BY <2>1, <2>2 DEF AskedInv, AfterAnswer, ToAnswer
  <2>3. CASE ~ UNCHANGED transcript
    <3>1. phase = "idle"
      BY <1>4, <2>3 DEF RecordBash, Deferred, isStreaming, ThreadInv
    <3>2. \A q \in Prompts : pc[q] # "post"
      BY <1>4, NobodysTurn DEF RecordBash, AtTurn
    <3> QED BY <1>1, <2>1, <3>1, <3>2 DEF AfterAnswer
  <2> QED BY <2>2, <2>3
<1>5. CASE /\ UNCHANGED <<transcript, path, pendingBash, activeRun, phase, lastAssistant, retryAttempt,
                          retryOpen, held, compaction>>
           /\ UNCHANGED pc \/ CancelSleep
  <2>1. AfterAnswer' => AfterAnswer
    BY <1>5 DEF AfterAnswer, CancelSleep, ThreadInv
  <2> QED BY <1>5, <2>1 DEF AskedInv, ToAnswer
<1> QED BY <1>2, <1>3, <1>4, <1>5, AgentAsked, Writers

\* A retry that was announced is under way in a thread that closes it: it finds
\* something to answer when it wakes, and what it is given is an error or the end.
OpenInv ==
  /\ retryOpen <=> retryAttempt > 0
  /\ retryAttempt > 0 =>
       /\ \E p \in Prompts : pc[p] \in {"running", "post", "backoff", "cancelled", "continue"}
       /\ phase \in {"idle", "poll", "stream", "settling"}
       /\ AfterAnswer => IsError(lastAssistant)
       /\ (\E p \in Prompts : pc[p] = "continue") => ToAnswer(transcript)
  /\ (\E p \in Prompts : pc[p] = "backoff") => ToAnswer(transcript)

\* No retry is under way and no sleep.
LEMMA AllClosed ==
  ASSUME retryAttempt' = 0, retryOpen' = FALSE, \A p \in Prompts : pc'[p] # "backoff"
  PROVE  OpenInv'
BY DEF OpenInv

\* The agent closes a retry with any answer that is no error.
LEMMA AgentOpen ==
  ASSUME ThreadInv, Alone, Heard, HistoryTypes, CounterTypes, FlagTypes, AskedInv, OpenInv, AgentStep
  PROVE  OpenInv'
<1>1. \A p \in Prompts : pc[p] \notin AtTurn
  BY NobodysTurn DEF AgentStep
<1>2. phase # "idle" /\ \A p \in Prompts : pc[p] \notin {"backoff", "post", "continue"}
  <2>1. phase # "idle"
    BY DEF AgentStep, Announce, FirstPoll, PollQueues, Answer, ToolEnds, RunEnds, Finishes
  <2> QED BY <2>1, OnlyRun DEF Settled
<1>3. ASSUME UNCHANGED <<retryAttempt, retryOpen, pc>>,
             retryAttempt > 0 => phase' \in {"poll", "stream"}
      PROVE  OpenInv'
  BY <1>2, <1>3 DEF OpenInv, AfterAnswer
<1>4. CASE Announce \/ PollQueues \/ ToolEnds
  <2>1. retryAttempt = 0
    BY <1>4 DEF Announce, PollQueues, ToolEnds, OpenInv, CounterTypes
  <2> QED BY <1>3, <1>4, <2>1 DEF Announce, PollQueues, ToolEnds, retryVars, threadVars
<1>5. CASE FirstPoll
  BY <1>3, <1>5 DEF FirstPoll, retryVars, threadVars
<1>6. ASSUME NEW k \in Kinds, Answer(k) PROVE OpenInv'
  <2>1. UNCHANGED pc
    BY <1>6 DEF Answer, threadVars
  <2>2. CASE k \notin Errors
    <3>1. retryAttempt' = 0 /\ retryOpen' = FALSE
      BY <1>6, <2>2 DEF Answer, AssistantMessage, EndsRetry, Heard
    <3> QED BY <1>2, <2>1, <3>1, AllClosed
  <2>3. CASE k \in Errors
    <3>1. retryAttempt' = retryAttempt /\ (retryOpen' <=> retryOpen) /\ phase' = "settling"
      <4>1. ~ EndsRetry(k)
        BY <2>3 DEF EndsRetry
      <4>2. retryAttempt' = retryAttempt /\ retryOpen' = (retryOpen /\ ~ EndsRetry(k))
        BY <1>6, <4>1 DEF Answer, AssistantMessage, Heard
      <4>3. phase' = "settling"
        BY <1>6, <2>3 DEF Answer, AgentEnd, Errors
      <4>4. retryOpen' <=> retryOpen
        BY <4>1, <4>2, Zenon DEF FlagTypes
      <4> QED BY <4>2, <4>3, <4>4
    <3>2. IsError(lastAssistant')
      <4>1. lastAssistant' = Said(k)
        BY <1>6, Answered
      <4>2. Said(k).role = "assistant" /\ Said(k).what = k
        BY DEF Said
      <4> QED BY <2>3, <4>1, <4>2 DEF IsError
    <3> QED BY <1>2, <2>1, <3>1, <3>2 DEF OpenInv, IsError
  <2> QED BY <2>2, <2>3
<1>7. CASE RunEnds
  <2>1. /\ UNCHANGED <<retryAttempt, retryOpen, lastAssistant, transcript>> /\ phase' = "idle"
        /\ activeRun \in Prompts /\ pc' = [pc EXCEPT ![activeRun] = "post"] /\ AfterAnswer
    BY <1>2, <1>7, OnlyRun DEF RunEnds, Finishes, retryVars, AfterAnswer
  <2>2. pc'[activeRun] = "post" /\ \A q \in Prompts : pc'[q] \notin {"backoff", "continue"}
    BY <1>2, <2>1 DEF ThreadInv
  <2> QED BY <2>1, <2>2 DEF OpenInv, IsError
<1> QED BY <1>4, <1>5, <1>6, <1>7 DEF AgentStep

\* A thread announces a retry before it sleeps, and closes it, or sees it
\* closed, before it goes on to anything but another attempt.
LEMMA ThreadOpen ==
  ASSUME ThreadInv, Alone, Heard, KnownInv, HistoryTypes, CounterTypes, FlagTypes, AskedInv, OpenInv,
         NEW p \in Prompts, Thread(p)
  PROVE  OpenInv'
<1>1. Busy(p) /\ pc[p] # "running"
  BY DEF Busy, Settled, Thread, AcceptAndRun, Post, Cancelled, BackoffExpires, Check,
         CompactionSucceeds, CompactionFails, Decide, Continue, Leave
<1>2. phase = "idle" /\ ~ isStreaming /\ \A q \in Prompts : q # p => pc[q] \in {"off"} \cup Settled
  BY <1>1, OnlyThread
<1>3. ASSUME NEW l, pc' = [pc EXCEPT ![p] = l]
      PROVE  pc'[p] = l /\ \A q \in Prompts : q # p => pc'[q] \in {"off"} \cup Settled
  BY <1>2, <1>3 DEF ThreadInv
<1>4. CASE pc[p] \in {"preflight", "check", "compacting", "decide", "leave"}
  <2>1. retryAttempt = 0 /\ retryOpen = FALSE
    <3>1. ~ (retryAttempt > 0)
      BY <1>2, <1>4 DEF OpenInv, Settled
    <3> QED BY <3>1 DEF OpenInv, CounterTypes, FlagTypes
  <2>2. UNCHANGED <<retryAttempt, retryOpen>> /\ \E l : l # "backoff" /\ pc' = [pc EXCEPT ![p] = l]
    BY <1>4 DEF Thread, AcceptAndRun, Post, Cancelled, BackoffExpires, Check, StartCompaction, NotCompacted,
                CompactionSucceeds, CompactionFails, Decide, Continue, Leave, GoTo, retryVars
  <2>3. \A q \in Prompts : pc'[q] # "backoff"
    BY <1>3, <2>2 DEF Settled
  <2> QED BY <2>1, <2>2, <2>3, AllClosed
<1>5. CASE Post(p)
  <2>1. /\ lastAssistant # NoMessage /\ AfterAnswer /\ pc[p] = "post" /\ TailOf(transcript) = lastAssistant
        /\ UNCHANGED phase
    BY <1>5 DEF Post, KnownInv, AfterAnswer, AskedInv
  <2>2. CASE lastAssistant.what = "retryable" /\ RetriesLeft
    <3>1. /\ retryAttempt' = retryAttempt + 1 /\ retryOpen' = TRUE
          /\ transcript' = DropAssistant(transcript) /\ pc' = [pc EXCEPT ![p] = "backoff"]
      BY <1>5, <2>1, <2>2 DEF Post, GoTo
    <3>2. lastAssistant.role = "assistant"
      BY <2>1 DEF HistoryTypes, Answers
    <3>3. ToAnswer(transcript')
      BY <2>1, <2>2, <3>1, <3>2 DEF DropAssistant, AskedInv
    <3>4. retryAttempt' > 0
      BY <3>1 DEF CounterTypes
    <3>5. ~ AfterAnswer' /\ pc'[p] = "backoff" /\ \A q \in Prompts : pc'[q] # "continue"
      BY <1>2, <1>3, <2>1, <3>1 DEF AfterAnswer, Settled
    <3> QED BY <1>2, <2>1, <3>1, <3>3, <3>4, <3>5 DEF OpenInv, ToAnswer
  <2>3. CASE ~ (lastAssistant.what = "retryable" /\ RetriesLeft)
    <3>1. /\ pc' = [pc EXCEPT ![p] = "check"]
          /\ IF ClosesRetry(lastAssistant) THEN retryAttempt' = 0 /\ retryOpen' = FALSE
                                           ELSE UNCHANGED <<retryAttempt, retryOpen>>
      BY <1>5, <2>1, <2>3 DEF Post, GoTo
    <3>2. retryAttempt' = 0 /\ retryOpen' = FALSE
      <4>1. CASE retryAttempt > 0
        BY <2>1, <3>1, <4>1 DEF OpenInv, ClosesRetry
      <4>2. CASE ~ (retryAttempt > 0)
        BY <3>1, <4>2 DEF OpenInv, ClosesRetry, CounterTypes, FlagTypes
      <4> QED BY <4>1, <4>2
    <3>3. \A q \in Prompts : pc'[q] # "backoff"
      BY <1>3, <3>1 DEF Settled
    <3> QED BY <3>2, <3>3, AllClosed
  <2> QED BY <2>2, <2>3
<1>6. CASE BackoffExpires(p)
  <2>1. /\ pc[p] = "backoff" /\ pc' = [pc EXCEPT ![p] = "continue"]
        /\ UNCHANGED <<retryAttempt, retryOpen, transcript, phase>>
    BY <1>6 DEF BackoffExpires, GoTo, agentVars
  <2>2. ToAnswer(transcript)
    BY <2>1 DEF OpenInv
  <2>3. ~ AfterAnswer' /\ pc'[p] = "continue" /\ \A q \in Prompts : pc'[q] # "backoff"
    BY <1>2, <1>3, <2>1 DEF AfterAnswer, Settled
  <2> QED BY <1>2, <2>1, <2>2, <2>3 DEF OpenInv, ToAnswer
<1>7. CASE Cancelled(p)
  <2>1. retryAttempt' = 0 /\ retryOpen' = FALSE /\ pc' = [pc EXCEPT ![p] = "check"]
    BY <1>7 DEF Cancelled, GoTo
  <2>2. \A q \in Prompts : pc'[q] # "backoff"
    BY <1>3, <2>1 DEF Settled
  <2> QED BY <2>1, <2>2, AllClosed
<1>8. CASE Continue(p)
  <2>1. pc[p] = "continue" /\ UNCHANGED <<retryAttempt, retryOpen>>
    BY <1>8 DEF Continue, retryVars
  <2>2. CASE retryAttempt > 0
    <3>1. ToAnswer(transcript)
      BY <2>1, <2>2 DEF OpenInv
    <3>2. phase' = "poll" /\ pc' = [pc EXCEPT ![p] = "running"]
      BY <1>2, <1>8, <3>1 DEF Continue, StartRun, GoTo, ToAnswer
    <3>3. ~ AfterAnswer' /\ pc'[p] = "running" /\ \A q \in Prompts : pc'[q] \notin {"backoff", "continue"}
      BY <1>3, <3>2 DEF AfterAnswer, Settled
    <3> QED BY <2>1, <3>2, <3>3 DEF OpenInv
  <2>3. CASE ~ (retryAttempt > 0)
    <3>1. retryAttempt' = 0 /\ retryOpen' = FALSE
      BY <2>1, <2>3 DEF OpenInv, CounterTypes, FlagTypes
    <3>2. \E l : l # "backoff" /\ pc' = [pc EXCEPT ![p] = l]
      BY <1>8 DEF Continue, Throw, GoTo
    <3>3. \A q \in Prompts : pc'[q] # "backoff"
      BY <1>3, <3>2 DEF Settled
    <3> QED BY <3>1, <3>3, AllClosed
  <2> QED BY <2>2, <2>3
<1> QED BY <1>4, <1>5, <1>6, <1>7, <1>8
        DEF Thread, AcceptAndRun, Check, CompactionSucceeds, CompactionFails, Decide, Leave

\* Every step keeps it.
LEMMA OpenInductive ==
  ASSUME Serial, MaxManual = 0
  PROVE  /\ ThreadInv /\ Alone /\ Heard /\ KnownInv /\ HistoryTypes /\ CounterTypes /\ FlagTypes
         /\ AskedInv /\ OpenInv /\ [Next]_vars
         => OpenInv'
<1> SUFFICES ASSUME ThreadInv, Alone, Heard, KnownInv, HistoryTypes, CounterTypes, FlagTypes,
                    AskedInv, OpenInv, [Next]_vars
             PROVE  OpenInv'
  OBVIOUS
<1>1. ASSUME NEW p \in Prompts, Prompt(p) PROVE OpenInv'
  <2>1. /\ UNCHANGED <<retryAttempt, retryOpen>>
        /\ \E l \in {"check", "preflight"} : pc' = [pc EXCEPT ![p] = l]
        /\ \A q \in Prompts : pc[q] \in {"off"} \cup Settled
    BY <1>1 DEF Prompt, GoTo, retryVars
  <2>2. retryAttempt' = 0 /\ retryOpen' = FALSE
    <3>1. ~ (retryAttempt > 0)
      BY <2>1 DEF OpenInv, Settled
    <3> QED BY <2>1, <3>1 DEF OpenInv, CounterTypes, FlagTypes
  <2>3. \A q \in Prompts : pc'[q] # "backoff"
    BY <2>1 DEF ThreadInv, Settled
  <2> QED BY <2>2, <2>3, AllClosed
<1>2. ASSUME NEW b \in Bashes, RecordBash(b) PROVE OpenInv'
  <2>1. UNCHANGED <<retryAttempt, retryOpen, phase, lastAssistant, pc>>
    BY <1>2 DEF RecordBash, retryVars, threadVars
  <2>2. transcript' = transcript \/ ToAnswer(transcript')
    BY <1>2, Asks DEF RecordBash
  <2>3. ToAnswer(transcript) => ToAnswer(transcript')
    BY <2>2
  <2>4. AfterAnswer' => AfterAnswer
    BY <2>1 DEF AfterAnswer
  <2> QED BY <2>1, <2>3, <2>4 DEF OpenInv, ToAnswer, IsError
<1>3. CASE /\ UNCHANGED <<transcript, path, pendingBash, activeRun, phase, lastAssistant, retryAttempt,
                          retryOpen, held, compaction>>
           /\ UNCHANGED pc \/ CancelSleep
  <2>1. AfterAnswer' => AfterAnswer
    BY <1>3 DEF AfterAnswer, CancelSleep, ThreadInv
  <2>2. \A q \in Prompts : \/ pc'[q] = pc[q]
                           \/ pc[q] = "backoff" /\ pc'[q] = "cancelled"
                           \/ pc[q] = "cancelled" /\ pc'[q] = "cancelled"
    BY <1>3 DEF CancelSleep, ThreadInv
  <2>3. /\ (\E q \in Prompts : pc'[q] = "backoff") => \E q \in Prompts : pc[q] = "backoff"
        /\ (\E q \in Prompts : pc'[q] = "continue") => \E q \in Prompts : pc[q] = "continue"
        /\ (\E q \in Prompts : pc[q] \in {"running", "post", "backoff", "cancelled", "continue"})
             => \E q \in Prompts : pc'[q] \in {"running", "post", "backoff", "cancelled", "continue"}
    BY <2>2
  <2> QED BY <1>3, <2>1, <2>3 DEF OpenInv, ToAnswer, IsError
<1> QED BY <1>1, <1>2, <1>3, AgentOpen, ThreadOpen, Writers

\* The invariants of a session whose prompts come one at a time and that is not
\* compacted by hand.
LEMMA OpenHolds ==
  ASSUME Serial, MaxManual = 0
  PROVE  Spec => [](Types /\ Alone /\ Heard /\ KnownInv /\ AskedInv /\ OpenInv)
<1>1. Init => AskedInv /\ OpenInv
  <2> SUFFICES ASSUME Init PROVE AskedInv /\ OpenInv
    OBVIOUS
  <2>1. /\ phase = "idle" /\ retryAttempt = 0 /\ retryOpen = FALSE
        /\ \A p \in Prompts : pc[p] = "off"
    BY DEF Init
  <2> QED BY <2>1 DEF AskedInv, OpenInv, AfterAnswer
<1>2. Types /\ Alone /\ Heard /\ KnownInv /\ AskedInv /\ OpenInv /\ [Next]_vars => AskedInv' /\ OpenInv'
  BY AskedInductive, OpenInductive DEF Types
<1> QED BY <1>1, <1>2, TypesHold, AloneHolds, KnownHolds, PTL DEF Spec

\* Where prompts come one at a time and the session is not compacted by hand, a
\* prompt returns only after every retry it announced was closed, and the next one
\* has all its attempts: the retry after a backoff never finds nothing to continue.
THEOREM RetriesAreClosed == ASSUME Serial, MaxManual = 0 PROVE Spec => []RetryClosedAtRest
<1>1. Types /\ OpenInv => RetryClosedAtRest
  <2> SUFFICES ASSUME Types, OpenInv, AtRest PROVE ~ retryOpen /\ retryAttempt = 0
    BY DEF RetryClosedAtRest
  <2>1. \A p \in Prompts : pc[p] \notin {"running", "post", "backoff", "cancelled", "continue"}
    BY DEF AtRest, Settled
  <2> QED BY <2>1 DEF OpenInv, Types, CounterTypes
<1> QED BY <1>1, OpenHolds, PTL

-----------------------------------------------------------------------------
(* Results and the calls they answer.                                      *)

Calls(e) == e.role = "assistant" /\ e.what = "toolUse"

\* A result in s directly follows its call.
Follows(s) == \A i \in 1 .. Len(s) : s[i].role = "toolResult" => i > 1 /\ Calls(s[i-1])

\* Where a compaction may cut: neither at a result nor at a compaction.
Cut(s, i) == i \in 1 .. Len(s) /\ s[i].role \notin {"toolResult", "compaction"}

\* Every compaction of s cuts where it may, before its own place.
CutsWell(s) == \A i \in CompactionsOf(s) : s[i].from < i /\ Cut(s, s[i].from)

PairInv ==
  /\ Follows(path) /\ Follows(transcript) /\ CutsWell(path)
  /\ phase = "tools" => Calls(TailOf(path)) /\ Calls(TailOf(transcript))
  /\ \A p \in Prompts : pc[p] = "compacting" => Cut(path, compaction[p].from)

\* A result may only be appended to its call.
LEMMA FollowsAppend ==
  ASSUME NEW X, NEW s \in Seq(X), NEW e \in X, Follows(s), e.role = "toolResult" => Calls(TailOf(s))
  PROVE  Follows(Append(s, e))
<1>1. /\ Len(s) \in Nat /\ Len(Append(s, e)) = Len(s) + 1 /\ Append(s, e)[Len(s) + 1] = e
      /\ \A i \in 1 .. Len(s) : Append(s, e)[i] = s[i]
  OBVIOUS
<1>2. e.role = "toolResult" => Len(s) > 0 /\ Calls(s[Len(s)])
  <2> SUFFICES ASSUME e.role = "toolResult" PROVE Len(s) > 0 /\ Calls(s[Len(s)])
    OBVIOUS
  <2>1. s # <<>>
    BY DEF TailOf, NoMessage, Calls
  <2> QED BY <1>1, <2>1 DEF TailOf, Last
<1> QED BY <1>1, <1>2 DEF Follows

\* Without its last entry.
LEMMA FollowsFront ==
  ASSUME NEW X, NEW s \in Seq(X), Follows(s)
  PROVE  Follows(DropAssistant(s)) /\ Follows(DropError(s))
<1>1. s # <<>> => Follows(Front(s))
  <2> SUFFICES ASSUME s # <<>> PROVE Follows(Front(s))
    OBVIOUS
  <2>1. /\ Len(s) \in Nat /\ Len(s) > 0 /\ Len(Front(s)) = Len(s) - 1
        /\ \A i \in 1 .. Len(s) - 1 : Front(s)[i] = s[i]
    <3>1. Len(s) \in Nat /\ Len(s) > 0
      OBVIOUS
    <3>2. Len(Front(s)) = Len(s) - 1
      <4>1. PICK n \in Nat : Len(s) = n + 1
        BY <3>1
      <4>2. Front(s) = SubSeq(s, 1, n)
        BY <4>1 DEF Front
      <4>3. Len(SubSeq(s, 1, n)) = n
        BY <4>1
      <4> QED BY <4>1, <4>2, <4>3
    <3>3. \A i \in 1 .. Len(s) - 1 : Front(s)[i] = s[i]
      BY <3>1 DEF Front
    <3> QED BY <3>1, <3>2, <3>3
  <2> QED BY <2>1 DEF Follows
<1>2. s = <<>> => TailOf(s).role = "none"
  BY DEF TailOf, NoMessage
<1> QED BY <1>1, <1>2 DEF DropAssistant, DropError, IsError

\* Behind it entries that are no results.
LEMMA FollowsConcat ==
  ASSUME NEW X, NEW s \in Seq(X), NEW t \in Seq(X), Follows(s),
         \A i \in 1 .. Len(t) : t[i].role # "toolResult"
  PROVE  Follows(s \o t)
<1>1. /\ Len(s) \in Nat /\ Len(t) \in Nat /\ Len(s \o t) = Len(s) + Len(t)
      /\ \A i \in 1 .. Len(s) : (s \o t)[i] = s[i]
      /\ \A i \in 1 .. Len(s) + Len(t) : i > Len(s) => (s \o t)[i] = t[i - Len(s)]
  OBVIOUS
<1>2. ASSUME NEW i \in 1 .. Len(s \o t), (s \o t)[i].role = "toolResult"
      PROVE  i > 1 /\ Calls((s \o t)[i-1])
  <2>1. i \in 1 .. Len(s)
    <3>1. CASE i > Len(s)
      BY <1>1, <1>2, <3>1
    <3> QED BY <1>1, <3>1
  <2>2. i > 1 /\ Calls(s[i-1])
    BY <1>1, <1>2, <2>1 DEF Follows
  <2> QED BY <1>1, <2>1, <2>2
<1> QED BY <1>2 DEF Follows

\* A rebuilt context starts at a cut, so it has the call of every result.
LEMMA ContextFollows ==
  ASSUME NEW s \in Seq(Entries), Follows(s), CutsWell(s)
  PROVE  Follows(Context(s))
<1>1. CASE CompactionsOf(s) = {}
  BY <1>1 DEF Context
<1>2. CASE CompactionsOf(s) # {}
  <2> DEFINE k == FirstKept(s)
             I == {i \in k .. Len(s) : ~ IsCompaction(s[i])}
             R == {e \in Entries : e.role = "toolResult"}
             C == {e \in Entries : Calls(e)}
             u == Pick(s, I)
  <2>1. Cut(s, k)
    <3>1. Max(CompactionsOf(s)) \in CompactionsOf(s)
      BY <1>2, CompactionPlaces
    <3> QED BY <1>2, <3>1 DEF FirstKept, CutsWell
  <2>2. ASSUME NEW n \in 1 .. Len(s), n \in I, s[n] \in R
        PROVE  n > 1 /\ n - 1 \in I /\ s[n-1] \in C
    <3>1. k \in 1 .. Len(s) /\ Len(s) \in Nat /\ n >= k /\ n # k
      BY <2>1, <2>2 DEF Cut
    <3>2. n > 1 /\ Calls(s[n-1])
      BY <2>2 DEF Follows
    <3>3. n - 1 \in k .. Len(s) /\ n - 1 \in 1 .. Len(s)
      BY <3>1, <3>2
    <3>4. ~ IsCompaction(s[n-1]) /\ s[n-1] \in Entries
      BY <3>2, <3>3 DEF Calls, IsCompaction
    <3> QED BY <3>2, <3>3, <3>4
  <2> HIDE DEF I, R, C
  <2>3. /\ u \in Seq(Entries)
        /\ \A n \in 1 .. Len(u) : u[n] \in R => n > 1 /\ u[n-1] \in C
    BY <2>2, PickAdjacent
  <2>4. Context(s) = <<Summary>> \o u
    BY <1>2 DEF Context, I
  <2> HIDE DEF u
  <2>5. /\ Len(u) \in Nat /\ Len(<<Summary>> \o u) = Len(u) + 1 /\ (<<Summary>> \o u)[1] = Summary
        /\ \A n \in 1 .. Len(u) : (<<Summary>> \o u)[n+1] = u[n] /\ u[n] \in Entries
    BY <2>3
  <2>6. ASSUME NEW i \in 1 .. Len(u) + 1, (<<Summary>> \o u)[i].role = "toolResult"
        PROVE  i > 1 /\ Calls((<<Summary>> \o u)[i-1])
    <3>1. i # 1
      BY <2>5, <2>6 DEF Summary
    <3>2. i - 1 \in 1 .. Len(u) /\ u[i-1].role = "toolResult" /\ u[i-1] \in Entries
      BY <2>5, <2>6, <3>1
    <3>3. i - 1 > 1 /\ u[(i-1)-1] \in C
      BY <2>3, <3>2 DEF R
    <3>4. (i-1) - 1 \in 1 .. Len(u) /\ (<<Summary>> \o u)[((i-1)-1) + 1] = u[(i-1)-1]
      BY <2>5, <3>2, <3>3
    <3>5. ((i-1)-1) + 1 = i - 1
      BY <3>2
    <3> QED BY <3>3, <3>4, <3>5 DEF C
  <2> QED BY <2>4, <2>5, <2>6 DEF Follows
<1> QED BY <1>1, <1>2

\* A session that grows by messages has the compactions it had.
LEMMA SameCompactions ==
  ASSUME NEW s \in Seq(Entries), NEW t \in Seq(Messages)
  PROVE  /\ CompactionsOf(s \o t) = CompactionsOf(s)
         /\ \A i \in 1 .. Len(s) : (s \o t)[i] = s[i]
         /\ \A i : Cut(s, i) => Cut(s \o t, i)
         /\ CutsWell(s) => CutsWell(s \o t)
<1>1. /\ Len(s) \in Nat /\ Len(t) \in Nat /\ Len(s \o t) = Len(s) + Len(t)
      /\ DOMAIN s = 1 .. Len(s) /\ DOMAIN (s \o t) = 1 .. Len(s) + Len(t)
      /\ \A i \in 1 .. Len(s) : (s \o t)[i] = s[i]
      /\ \A i \in 1 .. Len(s) + Len(t) : i > Len(s) => (s \o t)[i] = t[i - Len(s)] /\ t[i - Len(s)] \in Messages
  OBVIOUS
<1>2. \A i \in 1 .. Len(s) + Len(t) : i > Len(s) => ~ IsCompaction((s \o t)[i])
  BY <1>1, Roles
<1>3. CompactionsOf(s \o t) = CompactionsOf(s)
  BY <1>1, <1>2 DEF CompactionsOf
<1>4. \A i : Cut(s, i) => Cut(s \o t, i)
  BY <1>1 DEF Cut
<1>5. CutsWell(s) => CutsWell(s \o t)
  <2>1. CompactionsOf(s) \in SUBSET (1 .. Len(s))
    BY CompactionPlaces
  <2> QED BY <1>1, <1>3, <1>4, <2>1 DEF CutsWell
<1> QED BY <1>1, <1>3, <1>4, <1>5

\* One entry is a sequence of one.
LEMMA AppendIsConcat ==
  ASSUME NEW X, NEW s \in Seq(X), NEW e \in X
  PROVE  Append(s, e) = s \o <<e>>
OBVIOUS

\* A compaction that cuts where it may.
LEMMA CompactionCuts ==
  ASSUME NEW s \in Seq(Entries), NEW k \in Nat, CutsWell(s), Follows(s), Cut(s, k)
  PROVE  LET t == Append(s, Compaction(k)) IN
         t \in Seq(Entries) /\ CutsWell(t) /\ Follows(t) /\ CompactionsOf(t) # {} /\ \A i : Cut(s, i) => Cut(t, i)
<1> DEFINE e == Compaction(k)
           t == Append(s, e)
<1>1. e \in Entries /\ e.role = "compaction" /\ e.from = k
  BY DEF Compaction, Entries
<1> HIDE DEF e
<1>2. /\ Len(s) \in Nat /\ Len(t) = Len(s) + 1 /\ t[Len(s) + 1] = e /\ t \in Seq(Entries)
      /\ DOMAIN s = 1 .. Len(s) /\ DOMAIN t = 1 .. Len(s) + 1
      /\ \A i \in 1 .. Len(s) : t[i] = s[i]
  BY <1>1
<1>3. Follows(t)
  BY <1>1, FollowsAppend
<1> HIDE DEF t
<1>4. \A i : Cut(s, i) => Cut(t, i)
  BY <1>2 DEF Cut
<1>5. CompactionsOf(t) = CompactionsOf(s) \cup {Len(s) + 1}
  BY <1>1, <1>2 DEF CompactionsOf, IsCompaction
<1>6. CutsWell(t)
  <2>1. ASSUME NEW i \in CompactionsOf(s) PROVE t[i].from < i /\ Cut(t, t[i].from)
    <3>1. i \in 1 .. Len(s) /\ t[i] = s[i]
      BY <1>2 DEF CompactionsOf
    <3> QED BY <1>4, <3>1 DEF CutsWell
  <2>2. t[Len(s) + 1].from < Len(s) + 1 /\ Cut(t, t[Len(s) + 1].from)
    BY <1>1, <1>2, <1>4 DEF Cut
  <2> QED BY <1>5, <2>1, <2>2 DEF CutsWell
<1> QED BY <1>2, <1>3, <1>4, <1>5, <1>6 DEF t, e

\* What a compaction keeps starts at a cut.
LEMMA KeptAtCuts == HistoryTypes /\ PairInv => \A k \in KeepFrom : Cut(path, k)
<1> SUFFICES ASSUME HistoryTypes, PairInv, NEW k \in KeepFrom PROVE Cut(path, k)
  OBVIOUS
<1> DEFINE s == FirstKept(path)
<1>1. path \in Seq(Entries) /\ Len(path) \in Nat /\ TailOf(path).role \notin {"none", "compaction"}
  BY DEF HistoryTypes, KeepFrom
<1>2. path # <<>> /\ Len(path) > 0
  BY <1>1 DEF TailOf, NoMessage
<1>3. s \in 1 .. Len(path)
  <2>1. CASE CompactionsOf(path) = {}
    BY <1>1, <1>2, <2>1 DEF FirstKept
  <2>2. CASE CompactionsOf(path) # {}
    <3>1. Max(CompactionsOf(path)) \in CompactionsOf(path)
      BY <1>1, <2>2, CompactionPlaces
    <3> QED BY <2>2, <3>1 DEF PairInv, CutsWell, FirstKept, Cut
  <2> QED BY <2>1, <2>2
<1>4. \A i \in CutPoints(s) : Cut(path, i)
  BY <1>1, <1>3 DEF CutPoints, Cut
<1>5. CASE CutPoints(s) # {}
  BY <1>1, <1>4, <1>5 DEF KeepFrom
<1>6. CASE CutPoints(s) = {}
  <2>1. k = s
    BY <1>1, <1>6 DEF KeepFrom
  <2>2. CASE CompactionsOf(path) = {}
    <3>1. s = 1 /\ path[1].role # "compaction"
      BY <1>1, <1>2, <2>2 DEF FirstKept, CompactionsOf, IsCompaction
    <3>2. path[1].role # "toolResult"
      BY <1>1, <1>2 DEF PairInv, Follows
    <3> QED BY <1>3, <2>1, <3>1, <3>2 DEF Cut
  <2>3. CASE CompactionsOf(path) # {}
    <3>1. Max(CompactionsOf(path)) \in CompactionsOf(path)
      BY <1>1, <2>3, CompactionPlaces
    <3> QED BY <2>1, <2>3, <3>1 DEF PairInv, CutsWell, FirstKept
  <2> QED BY <2>2, <2>3
<1> QED BY <1>5, <1>6

\* What a step may do to the history of a session that is not compacted by hand.
LEMMA HistorySteps ==
  ASSUME MaxManual = 0, ThreadInv, Heard, HistoryTypes, QueueTypes, [Next]_vars
  PROVE  \/ UNCHANGED <<path, transcript>>
         \/ \E e \in Messages : /\ path' = Append(path, e) /\ transcript' = Append(transcript, e)
                                /\ e.role = "toolResult" => phase = "tools"
         \/ FlushBash
         \/ /\ UNCHANGED path /\ transcript' = DropAssistant(transcript)
            /\ \E p \in Prompts : \/ /\ Post(p) /\ lastAssistant.what = "retryable"
                                  \/ /\ Check(p) /\ Overflows(held[p])
         \/ \E p \in Prompts : CompactionSucceeds(p)
<1> DEFINE Same    == UNCHANGED <<path, transcript>>
           Grows   == \E e \in Messages : /\ path' = Append(path, e) /\ transcript' = Append(transcript, e)
                                          /\ e.role = "toolResult" => phase = "tools"
           Drops   == /\ UNCHANGED path /\ transcript' = DropAssistant(transcript)
                      /\ \E p \in Prompts : \/ /\ Post(p) /\ lastAssistant.what = "retryable"
                                            \/ /\ Check(p) /\ Overflows(held[p])
           Rebuilds == \E p \in Prompts : CompactionSucceeds(p)
<1> SUFFICES Same \/ Grows \/ FlushBash \/ Drops \/ Rebuilds
  OBVIOUS
<1>1. ASSUME NEW m \in Prompts \cup Notes, UserMessage(m) PROVE Grows
  <2>1. User(m) \in Messages /\ User(m).role = "user"
    BY DEF Messages, User
  <2> QED BY <1>1, <2>1 DEF UserMessage, Heard
<1>2. ASSUME NEW k \in Kinds, Answer(k) PROVE Grows
  <2>1. Said(k) \in Messages /\ Said(k).role = "assistant"
    BY <1>2, Answered DEF Messages, Said
  <2> QED BY <1>2, <2>1, Answered
<1>3. CASE ToolEnds
  <2>1. ToolResult \in Messages
    BY DEF Messages
  <2> QED BY <1>3, <2>1 DEF ToolEnds, Heard
<1>4. ASSUME NEW b \in Bashes, RecordBash(b) PROVE Same \/ Grows
  <2>1. Bash(b) \in Messages /\ Bash(b).role = "bash"
    BY DEF Messages, Bash
  <2> QED BY <1>4, <2>1 DEF RecordBash
<1>5. CASE Announce \/ FirstPoll
  <2>1. phase \in {"begin", "inject"} => pending \in Prompts \cup Notes
    BY DEF QueueTypes
  <2>2. steeringQueue # <<>> => Head(steeringQueue) \in Notes
    BY DEF QueueTypes
  <2>3. Same \/ \E m \in Prompts \cup Notes : UserMessage(m)
    BY <1>5, <2>1, <2>2 DEF Announce, FirstPoll
  <2> QED BY <1>1, <2>3
<1>6. CASE PollQueues \/ RunEnds
  BY <1>6 DEF PollQueues, RunEnds
<1>7. ASSUME NEW p \in Prompts, Post(p) PROVE Same \/ Drops
  BY <1>7 DEF Post
<1>8. ASSUME NEW p \in Prompts, Check(p) PROVE Same \/ Drops
  <2>1. UNCHANGED path /\ (UNCHANGED transcript \/ (transcript' = DropAssistant(transcript) /\ Overflows(held[p])))
    BY <1>8 DEF Check
  <2> QED BY <1>8, <2>1
<1>9. ASSUME NEW p \in Prompts,
             \/ Prompt(p) \/ AcceptAndRun(p) \/ Cancelled(p) \/ BackoffExpires(p) \/ CompactionFails(p)
             \/ Decide(p) \/ Continue(p) \/ Leave(p)
      PROVE  Same \/ FlushBash
  BY <1>9 DEF Prompt, AcceptAndRun, Cancelled, BackoffExpires, CompactionFails, Decide, Continue, Throw,
              Leave, agentVars
<1> HIDE DEF Same, Grows, Drops, Rebuilds
<1>10. CASE AgentStep
  BY <1>2, <1>3, <1>5, <1>6, <1>10 DEF AgentStep, Same, Grows
<1>11. ASSUME NEW p \in Prompts, Prompt(p) \/ Thread(p) PROVE Same \/ FlushBash \/ Drops \/ Rebuilds
  BY <1>7, <1>8, <1>9, <1>11 DEF Thread, Rebuilds
<1>12. \/ AgentStep
       \/ \E p \in Prompts : Prompt(p) \/ Thread(p)
       \/ \E b \in Bashes : RecordBash(b)
       \/ Same
  BY Writers DEF Same
<1> QED BY <1>4, <1>10, <1>11, <1>12

\* A thread that compacts has fixed what is kept when it began, or just now.
LEMMA CompactingSteps ==
  ASSUME MaxManual = 0, ThreadInv, Heard, HistoryTypes, [Next]_vars, NEW p \in Prompts, pc'[p] = "compacting"
  PROVE  \/ pc[p] = "compacting" /\ compaction'[p] = compaction[p]
         \/ UNCHANGED path /\ \E k \in KeepFrom : compaction'[p].from = k
<1>1. CASE UNCHANGED <<pc, compaction>>
  BY <1>1
<1>2. ASSUME NEW q \in Prompts, Check(q)
      PROVE  \/ pc[p] = "compacting" /\ compaction'[p] = compaction[p]
             \/ UNCHANGED path /\ \E k \in KeepFrom : compaction'[p].from = k
  <2>1. UNCHANGED path
    BY <1>2 DEF Check
  <2>2. \/ UNCHANGED compaction /\ \E l : l # "compacting" /\ pc' = [pc EXCEPT ![q] = l]
        \/ \E k \in KeepFrom : \E r :
             /\ compaction' = [compaction EXCEPT ![q] = [reason |-> r, from |-> k]]
             /\ pc' = [pc EXCEPT ![q] = "compacting"]
    BY <1>2 DEF Check, StartCompaction, NotCompacted, GoTo
  <2>3. CASE UNCHANGED compaction /\ \E l : l # "compacting" /\ pc' = [pc EXCEPT ![q] = l]
    BY <2>3 DEF ThreadInv
  <2>4. CASE \E k \in KeepFrom : \E r :
               /\ compaction' = [compaction EXCEPT ![q] = [reason |-> r, from |-> k]]
               /\ pc' = [pc EXCEPT ![q] = "compacting"]
    BY <2>1, <2>4 DEF ThreadInv, HistoryTypes
  <2> QED BY <2>2, <2>3, <2>4
<1>3. ASSUME NEW q \in Prompts, Prompt(q) \/ Thread(q), ~ Check(q)
      PROVE  pc[p] = "compacting" /\ compaction'[p] = compaction[p]
  <2>1. /\ \E l : l # "compacting" /\ pc' = [pc EXCEPT ![q] = l]
        /\ UNCHANGED compaction \/ CompactionFails(q)
    BY <1>3 DEF Prompt, Thread, AcceptAndRun, Post, Cancelled, BackoffExpires, NotCompacted, CompactionSucceeds,
                CompactionFails, Decide, Continue, Throw, Leave, GoTo
  <2>2. q # p /\ pc[p] = "compacting"
    BY <2>1 DEF ThreadInv
  <2>3. CASE UNCHANGED compaction
    BY <2>2, <2>3
  <2>4. CASE CompactionFails(q)
    BY <2>2, <2>4 DEF CompactionFails, HistoryTypes
  <2> QED BY <2>1, <2>2, <2>3, <2>4
<1>4. CASE UNCHANGED compaction /\ \E l : l # "compacting" /\ \E q \in Prompts : pc' = [pc EXCEPT ![q] = l]
  BY <1>4 DEF ThreadInv
<1>5. CASE AgentStep
  <2>1. UNCHANGED <<pc, compaction>> \/ RunEnds
    BY <1>5 DEF AgentStep, Announce, FirstPoll, PollQueues, Answer, ToolEnds, threadVars
  <2>2. RunEnds => activeRun \in Prompts
    BY NoneAssumption DEF RunEnds, Finishes, ThreadInv
  <2> QED BY <1>1, <1>4, <2>1, <2>2 DEF RunEnds
<1>6. ASSUME NEW b \in Bashes, RecordBash(b) PROVE UNCHANGED <<pc, compaction>>
  BY <1>6 DEF RecordBash, threadVars
<1>7. CancelSleep => UNCHANGED pc \/ \E q \in Prompts : pc' = [pc EXCEPT ![q] = "cancelled"]
  BY DEF CancelSleep, ThreadInv
<1> QED BY <1>1, <1>2, <1>3, <1>4, <1>5, <1>6, <1>7, Writers

\* Results follow calls in what the session keeps and in what the agent has.
LEMMA PairInductive ==
  ASSUME Serial, MaxManual = 0
  PROVE  ThreadInv /\ Alone /\ Heard /\ HistoryTypes /\ QueueTypes /\ PairInv /\ [Next]_vars => PairInv'
<1> SUFFICES ASSUME ThreadInv, Alone, Heard, HistoryTypes, QueueTypes, PairInv, [Next]_vars
             PROVE  PairInv'
  OBVIOUS
<1> DEFINE Grown == /\ Follows(path') /\ Follows(transcript') /\ CutsWell(path')
                    /\ \A i : Cut(path, i) => Cut(path', i)
<1>0. /\ path \in Seq(Entries) /\ transcript \in Seq(Lines)
      /\ Follows(path) /\ Follows(transcript) /\ CutsWell(path)
  BY DEF HistoryTypes, PairInv
<1>1. Grown
  <2>1. CASE UNCHANGED <<path, transcript>>
    BY <1>0, <2>1 DEF Follows, CutsWell, CompactionsOf, Cut
  <2>2. ASSUME NEW e \in Messages, path' = Append(path, e), transcript' = Append(transcript, e),
               e.role = "toolResult" => phase = "tools"
        PROVE  Grown
    <3>1. e \in Entries /\ e \in Lines
      BY Roles
    <3>2. e.role = "toolResult" => Calls(TailOf(path)) /\ Calls(TailOf(transcript))
      BY <2>2 DEF PairInv
    <3>3. Follows(Append(path, e)) /\ Follows(Append(transcript, e))
      BY <1>0, <3>1, <3>2, FollowsAppend
    <3>4. Append(path, e) = path \o <<e>> /\ <<e>> \in Seq(Messages)
      BY <1>0, <3>1, AppendIsConcat
    <3>5. CutsWell(path \o <<e>>) /\ \A i : Cut(path, i) => Cut(path \o <<e>>, i)
      BY <1>0, <3>4, SameCompactions
    <3> QED BY <2>2, <3>3, <3>4, <3>5
  <2>3. CASE FlushBash
    <3>1. pendingBash \in Seq(Messages) /\ \A i \in 1 .. Len(pendingBash) : pendingBash[i].role # "toolResult"
      BY DEF HistoryTypes, Messages, Bash
    <3>2. pendingBash \in Seq(Entries) /\ pendingBash \in Seq(Lines)
      BY <3>1 DEF Entries, Lines
    <3>3. Follows(path \o pendingBash) /\ Follows(transcript \o pendingBash)
      BY <1>0, <3>1, <3>2, FollowsConcat
    <3>4. CutsWell(path \o pendingBash) /\ \A i : Cut(path, i) => Cut(path \o pendingBash, i)
      BY <1>0, <3>1, SameCompactions
    <3> QED BY <2>3, <3>3, <3>4 DEF FlushBash
  <2>4. CASE UNCHANGED path /\ transcript' = DropAssistant(transcript)
    <3>1. Follows(DropAssistant(transcript))
      BY <1>0, FollowsFront
    <3> QED BY <1>0, <2>4, <3>1 DEF Follows, CutsWell, CompactionsOf, Cut
  <2>5. ASSUME NEW p \in Prompts, CompactionSucceeds(p) PROVE Grown
    <3> DEFINE k == compaction[p].from
               t == Append(path, Compaction(k))
    <3>1. Cut(path, k) /\ k \in Nat
      BY <2>5 DEF CompactionSucceeds, PairInv, HistoryTypes
    <3>2. /\ t \in Seq(Entries) /\ CutsWell(t) /\ Follows(t)
          /\ \A i : Cut(path, i) => Cut(t, i)
      BY <1>0, <3>1, CompactionCuts
    <3> HIDE DEF t
    <3>3. Context(t) \in Seq(Lines) /\ Follows(Context(t))
      BY <3>2, ContextType, ContextFollows
    <3>4. Follows(DropError(Context(t)))
      BY <3>3, FollowsFront
    <3>5. path' = t /\ transcript' \in {Context(t), DropError(Context(t))}
      BY <2>5 DEF CompactionSucceeds, Rebuilt, t
    <3> QED BY <3>2, <3>3, <3>4, <3>5
  <2> QED BY <2>1, <2>2, <2>3, <2>4, <2>5, HistorySteps
<1>2. phase' = "tools" => Calls(TailOf(path')) /\ Calls(TailOf(transcript'))
  <2> SUFFICES ASSUME phase' = "tools" PROVE Calls(TailOf(path')) /\ Calls(TailOf(transcript'))
    OBVIOUS
  <2>1. ASSUME NEW k \in Kinds, Answer(k) PROVE Calls(TailOf(path')) /\ Calls(TailOf(transcript'))
    <3>1. k = "toolUse"
      BY <2>1 DEF Answer, AgentEnd, Errors, Kinds
    <3>2. Calls(Said(k))
      BY <3>1 DEF Calls, Said
    <3>3. Said(k) \in Entries
      BY <2>1, Answered DEF Entries, Messages
    <3>4. TailOf(path') = Said(k)
      <4>1. path' = Append(path, Said(k))
        BY <2>1, Answered
      <4>2. TailOf(Append(path, Said(k))) = Said(k)
        BY <1>0, <3>3, TailOfAppend
      <4> QED BY <4>1, <4>2
    <3> QED BY <2>1, <3>2, <3>4, Answered
  <2>2. CASE UNCHANGED <<phase, path, transcript>>
    BY <2>2 DEF PairInv
  <2>3. ASSUME NEW p \in Prompts, Prompt(p) PROVE FALSE
    BY <2>3 DEF Prompt, isStreaming, ThreadInv
  <2>4. ASSUME NEW p \in Prompts, Thread(p) PROVE FALSE
    <3>1. Busy(p) /\ pc[p] # "running"
      BY <2>4 DEF Busy, Settled, Thread, AcceptAndRun, Post, Cancelled, BackoffExpires, Check,
                  CompactionSucceeds, CompactionFails, Decide, Continue, Leave
    <3>2. phase = "idle" /\ ~ isStreaming
      BY <3>1, OnlyThread
    <3> QED BY <2>4, <3>2 DEF Thread, AcceptAndRun, StartRun, Post, Cancelled, BackoffExpires, Check,
                CompactionSucceeds, CompactionFails, Decide, Continue, Throw, Leave, agentVars
  <2>5. CASE Announce \/ FirstPoll \/ PollQueues \/ ToolEnds \/ RunEnds
    BY <2>5 DEF Announce, FirstPoll, PollQueues, ToolEnds, RunEnds, AgentEnd
  <2>6. ASSUME NEW b \in Bashes, RecordBash(b) PROVE UNCHANGED <<phase, path, transcript>>
    <3>1. Deferred
      BY <2>6 DEF RecordBash, Deferred, isStreaming, ThreadInv
    <3> QED BY <2>6, <3>1 DEF RecordBash
  <2> QED BY <2>1, <2>2, <2>3, <2>4, <2>5, <2>6, Writers DEF AgentStep
<1>3. ASSUME NEW p \in Prompts, pc'[p] = "compacting" PROVE Cut(path', compaction'[p].from)
  <2>1. CASE pc[p] = "compacting" /\ compaction'[p] = compaction[p]
    BY <1>1, <2>1 DEF PairInv
  <2>2. CASE UNCHANGED path /\ \E k \in KeepFrom : compaction'[p].from = k
    BY <1>1, <2>2, KeptAtCuts
  <2> QED BY <1>3, <2>1, <2>2, CompactingSteps
<1> QED BY <1>1, <1>2, <1>3 DEF PairInv, Follows, CutsWell, CompactionsOf, Cut

LEMMA PairHolds ==
  ASSUME Serial, MaxManual = 0
  PROVE  Spec => [](Types /\ Alone /\ Heard /\ KnownInv /\ AskedInv /\ PairInv)
<1>1. Init => PairInv
  BY DEF Init, PairInv, Follows, CutsWell, CompactionsOf
<1>2. Types /\ Alone /\ Heard /\ PairInv /\ [Next]_vars => PairInv'
  BY PairInductive DEF Types
<1> QED BY <1>1, <1>2, OpenHolds, PTL DEF Spec

\* Where prompts come one at a time and the session is not compacted by hand, a
\* tool result of the agent's transcript directly follows the call it answers:
\* every compaction, retry and deferred command keeps the two together.
THEOREM ResultsFollowCalls == ASSUME Serial, MaxManual = 0 PROVE Spec => []ResultFollowsCall
<1>1. Types /\ PairInv => ResultFollowsCall
  <2> SUFFICES ASSUME HistoryTypes, PairInv PROVE ResultFollowsCall
    BY DEF Types
  <2>1. DOMAIN transcript = 1 .. Len(transcript)
    BY DEF HistoryTypes
  <2> QED BY <2>1 DEF PairInv, Follows, Calls, ResultFollowsCall
<1> QED BY <1>1, PairHolds, PTL

-----------------------------------------------------------------------------
(* The session and the transcript.                                         *)

Sound(e)   == e.role = "assistant" => e.what \notin Errors \cup {"silentOverflow"}
SoundOf(s) == Pick(s, {i \in DOMAIN s : Sound(s[i])})

\* The last compaction of s kept something that is there.
KeptIn(s) == CompactionsOf(s) # {} => FirstKept(s) <= Len(s)

MatchInv == SoundOf(Context(path)) = SoundOf(transcript)

\* An entry at the end is selected on its own merits.
LEMMA SoundAppend ==
  ASSUME NEW X, NEW s \in Seq(X), NEW e \in X
  PROVE  SoundOf(Append(s, e)) = IF Sound(e) THEN Append(SoundOf(s), e) ELSE SoundOf(s)
<1> DEFINE t == Append(s, e)
           I == {i \in DOMAIN s : Sound(s[i])}
           J == {i \in DOMAIN t : Sound(t[i])}
<1>1. /\ Len(s) \in Nat /\ DOMAIN s = 1 .. Len(s) /\ DOMAIN t = 1 .. Len(s) + 1 /\ t[Len(s) + 1] = e
      /\ \A i \in 1 .. Len(s) : t[i] = s[i]
  OBVIOUS
<1> HIDE DEF t
<1>2. \A n \in 1 .. Len(s) : n \in I <=> n \in J
  BY <1>1
<1>3. Len(s) + 1 \in J <=> Sound(e)
  BY <1>1
<1>4. SoundOf(s) = Pick(s, I) /\ SoundOf(t) = Pick(t, J)
  BY DEF SoundOf
<1> HIDE DEF I, J
<1>5. Pick(t, J) = IF Len(s) + 1 \in J THEN Append(Pick(s, I), e) ELSE Pick(s, I)
  BY <1>2, PickAppend DEF t
<1> QED BY <1>3, <1>4, <1>5 DEF t

\* A sequence is its front and its tail.
LEMMA FrontTail ==
  ASSUME NEW X, NEW s \in Seq(X), s # <<>>
  PROVE  /\ Front(s) \in Seq(X) /\ TailOf(s) \in X
         /\ s = Append(Front(s), TailOf(s))
<1>1. PICK n \in Nat : Len(s) = n + 1
  <2>1. Len(s) \in Nat /\ Len(s) > 0
    OBVIOUS
  <2> QED BY <2>1
<1>2. Front(s) = SubSeq(s, 1, n) /\ TailOf(s) = s[n + 1]
  BY <1>1 DEF Front, TailOf, Last
<1>3. SubSeq(s, 1, n) \in Seq(X) /\ s[n + 1] \in X /\ Len(SubSeq(s, 1, n)) = n
  BY <1>1
<1>4. s = Append(SubSeq(s, 1, n), s[n + 1])
  BY <1>1, <1>3
<1> QED BY <1>2, <1>3, <1>4

\* Dropping an answer that failed or overflowed leaves the sound ones.
LEMMA SoundDrop ==
  ASSUME NEW X, NEW s \in Seq(X)
  PROVE  /\ (TailOf(s).role = "assistant" => ~ Sound(TailOf(s))) => SoundOf(DropAssistant(s)) = SoundOf(s)
         /\ SoundOf(DropError(s)) = SoundOf(s)
<1>1. s = <<>> => TailOf(s).role = "none"
  BY DEF TailOf, NoMessage
<1>2. ASSUME s # <<>>, ~ Sound(TailOf(s)) PROVE SoundOf(Front(s)) = SoundOf(s)
  <2>1. Front(s) \in Seq(X) /\ TailOf(s) \in X /\ s = Append(Front(s), TailOf(s))
    BY <1>2, FrontTail
  <2>2. SoundOf(Append(Front(s), TailOf(s))) = SoundOf(Front(s))
    BY <1>2, <2>1, SoundAppend
  <2> QED BY <2>1, <2>2
<1>3. IsError(TailOf(s)) => ~ Sound(TailOf(s)) /\ TailOf(s).role = "assistant"
  BY DEF IsError, Sound
<1> QED BY <1>1, <1>2, <1>3 DEF DropAssistant, DropError

\* A message that is stored appears at the end of the rebuilt context.
LEMMA ContextAppend ==
  ASSUME NEW s \in Seq(Entries), NEW e \in Messages, KeptIn(s)
  PROVE  /\ Context(Append(s, e)) = Append(Context(s), e)
         /\ KeptIn(Append(s, e)) /\ Append(s, e) \in Seq(Entries)
<1> DEFINE t == Append(s, e)
           k == FirstKept(s)
           I == {i \in k .. Len(s) : ~ IsCompaction(s[i])}
           J == {i \in k .. Len(t) : ~ IsCompaction(t[i])}
<1>1. e \in Entries /\ ~ IsCompaction(e)
  BY Roles
<1>2. /\ Len(s) \in Nat /\ Len(t) = Len(s) + 1 /\ t[Len(s) + 1] = e /\ t \in Seq(Entries)
      /\ DOMAIN s = 1 .. Len(s) /\ DOMAIN t = 1 .. Len(s) + 1
      /\ \A i \in 1 .. Len(s) : t[i] = s[i]
  BY <1>1
<1> HIDE DEF t
<1>3. CompactionsOf(t) = CompactionsOf(s)
  BY <1>1, <1>2 DEF CompactionsOf
<1>4. CASE CompactionsOf(s) = {}
  BY <1>2, <1>3, <1>4 DEF Context, KeptIn, t
<1>5. CASE CompactionsOf(s) # {}
  <2>1. Max(CompactionsOf(s)) \in 1 .. Len(s)
    BY <1>5, CompactionPlaces
  <2>2. FirstKept(t) = k /\ k \in Nat /\ k <= Len(s)
    BY <1>2, <1>3, <1>5, <2>1, FirstKeptType DEF FirstKept, KeptIn
  <2>3. \A n \in 1 .. Len(s) : n \in I <=> n \in J
    BY <1>2, <2>2
  <2>4. Len(s) + 1 \in J
    BY <1>1, <1>2, <2>2
  <2>5. Context(t) = <<Summary>> \o Pick(t, J) /\ Context(s) = <<Summary>> \o Pick(s, I)
    BY <1>3, <1>5, <2>2 DEF Context
  <2>6. Pick(s, I) \in Seq(Entries)
    <3>1. \A n \in 1 .. Len(s) : n \in I => s[n] \in Entries
      BY <1>2
    <3> HIDE DEF I
    <3> QED BY <3>1, PickType
  <2> HIDE DEF I, J, k
  <2>7. Pick(t, J) = Append(Pick(s, I), e)
    BY <1>1, <2>3, <2>4, PickAppend DEF t
  <2>8. \A u \in Seq(Entries) : <<Summary>> \o Append(u, e) = Append(<<Summary>> \o u, e)
    <3> TAKE u \in Seq(Entries)
    <3> DEFINE X == Entries \cup {Summary}
    <3>1. u \in Seq(X) /\ e \in X /\ Summary \in X
      BY <1>1
    <3> HIDE DEF X
    <3> QED BY <3>1
  <2>9. KeptIn(t)
    BY <1>2, <2>2 DEF KeptIn, k
  <2> QED BY <1>2, <2>5, <2>6, <2>7, <2>8, <2>9 DEF t
<1> QED BY <1>4, <1>5

\* So what matches still matches when the same message is appended to both.
LEMMA MatchAppend ==
  ASSUME NEW s \in Seq(Entries), NEW u \in Seq(Lines), NEW e \in Messages, KeptIn(s),
         SoundOf(Context(s)) = SoundOf(u)
  PROVE  /\ SoundOf(Context(Append(s, e))) = SoundOf(Append(u, e))
         /\ KeptIn(Append(s, e)) /\ Append(s, e) \in Seq(Entries) /\ Append(u, e) \in Seq(Lines)
<1>1. e \in Lines /\ Context(s) \in Seq(Lines)
  BY Roles, ContextType
<1>2. /\ Context(Append(s, e)) = Append(Context(s), e)
      /\ KeptIn(Append(s, e)) /\ Append(s, e) \in Seq(Entries)
  BY ContextAppend
<1>3. SoundOf(Append(Context(s), e)) = SoundOf(Append(u, e))
  <2>1. SoundOf(Append(Context(s), e)) = IF Sound(e) THEN Append(SoundOf(Context(s)), e) ELSE SoundOf(Context(s))
    BY <1>1, SoundAppend
  <2>2. SoundOf(Append(u, e)) = IF Sound(e) THEN Append(SoundOf(u), e) ELSE SoundOf(u)
    BY <1>1, SoundAppend
  <2> QED BY <2>1, <2>2
<1> QED BY <1>1, <1>2, <1>3

\* The first messages of t, appended to s.
Prefixed(s, t, n) == s \o SubSeq(t, 1, n)

LEMMA PrefixedIs ==
  ASSUME NEW X, NEW h \in Seq(X), NEW t \in Seq(X)
  PROVE  /\ Prefixed(h, t, 0) = h /\ Prefixed(h, t, Len(t)) = h \o t
         /\ \A n \in Nat : n < Len(t) => Prefixed(h, t, n + 1) = Append(Prefixed(h, t, n), t[n + 1])
<1>1. SubSeq(t, 1, Len(t)) = t /\ SubSeq(t, 1, 0) = <<>>
  OBVIOUS
<1>2. h \o <<>> = h
  OBVIOUS
<1>3. ASSUME NEW n \in Nat, n < Len(t)
      PROVE  Prefixed(h, t, n + 1) = Append(Prefixed(h, t, n), t[n + 1])
  <2> DEFINE u == SubSeq(t, 1, n)
  <2>1. SubSeq(t, 1, n + 1) = Append(u, t[n + 1]) /\ u \in Seq(X) /\ t[n + 1] \in X
    BY <1>3
  <2> HIDE DEF u
  <2>2. h \o Append(u, t[n + 1]) = Append(h \o u, t[n + 1])
    BY <2>1
  <2> QED BY <2>1, <2>2 DEF Prefixed, u
<1> QED BY <1>1, <1>2, <1>3 DEF Prefixed

\* The same for the deferred commands, one by one.
LEMMA MatchFlush ==
  ASSUME NEW s \in Seq(Entries), NEW u \in Seq(Lines), NEW t \in Seq(Messages), KeptIn(s),
         SoundOf(Context(s)) = SoundOf(u)
  PROVE  SoundOf(Context(s \o t)) = SoundOf(u \o t)
<1> DEFINE Good(n) == LET a == Prefixed(s, t, n)
                          b == Prefixed(u, t, n)
                      IN  /\ a \in Seq(Entries) /\ b \in Seq(Lines) /\ KeptIn(a)
                          /\ SoundOf(Context(a)) = SoundOf(b)
           T == {n \in 0 .. Len(t) : ~ Good(n)}
<1>1. t \in Seq(Entries) /\ t \in Seq(Lines) /\ Len(t) \in Nat
  BY DEF Entries, Lines
<1>2. /\ Prefixed(s, t, 0) = s /\ Prefixed(s, t, Len(t)) = s \o t
      /\ \A n \in Nat : n < Len(t) => Prefixed(s, t, n + 1) = Append(Prefixed(s, t, n), t[n + 1])
  <2>1. Prefixed(s, t, 0) = s
    BY <1>1, PrefixedIs
  <2>2. Prefixed(s, t, Len(t)) = s \o t
    BY <1>1, PrefixedIs
  <2>3. \A n \in Nat : n < Len(t) => Prefixed(s, t, n + 1) = Append(Prefixed(s, t, n), t[n + 1])
    BY <1>1, PrefixedIs
  <2> QED BY <2>1, <2>2, <2>3
<1>3. /\ Prefixed(u, t, 0) = u /\ Prefixed(u, t, Len(t)) = u \o t
      /\ \A n \in Nat : n < Len(t) => Prefixed(u, t, n + 1) = Append(Prefixed(u, t, n), t[n + 1])
  <2>1. Prefixed(u, t, 0) = u
    BY <1>1, PrefixedIs
  <2>2. Prefixed(u, t, Len(t)) = u \o t
    BY <1>1, PrefixedIs
  <2>3. \A n \in Nat : n < Len(t) => Prefixed(u, t, n + 1) = Append(Prefixed(u, t, n), t[n + 1])
    BY <1>1, PrefixedIs
  <2> QED BY <2>1, <2>2, <2>3
<1>4. SUFFICES ASSUME T # {} PROVE FALSE
  <2>1. Good(Len(t))
    BY <1>1, <1>4
  <2> QED BY <1>2, <1>3, <2>1
<1>5. PICK m \in T : \A j \in T : m <= j
  <2>1. T \in SUBSET Nat
    BY <1>1
  <2> QED BY <1>4, <2>1, Least
<1>6. Good(0)
  BY <1>2, <1>3
<1>7. m # 0
  BY <1>5, <1>6
<1>8. PICK n \in Nat : m = n + 1 /\ n < Len(t) /\ n \in 0 .. Len(t)
  <2>1. m \in 0 .. Len(t) /\ m - 1 \in Nat /\ m = (m - 1) + 1
    BY <1>1, <1>5, <1>7
  <2> QED BY <1>1, <2>1
<1>9. Good(n)
  BY <1>5, <1>8
<1>10. t[n + 1] \in Messages
  BY <1>1, <1>8
<1>11. Good(n + 1)
  <2> DEFINE a == Prefixed(s, t, n)
             b == Prefixed(u, t, n)
  <2>1. a \in Seq(Entries) /\ b \in Seq(Lines) /\ KeptIn(a) /\ SoundOf(Context(a)) = SoundOf(b)
    BY <1>9
  <2>2. Prefixed(s, t, n + 1) = Append(a, t[n + 1]) /\ Prefixed(u, t, n + 1) = Append(b, t[n + 1])
    BY <1>2, <1>3, <1>8
  <2> HIDE DEF a, b
  <2>3. /\ SoundOf(Context(Append(a, t[n + 1]))) = SoundOf(Append(b, t[n + 1])) /\ KeptIn(Append(a, t[n + 1]))
        /\ Append(a, t[n + 1]) \in Seq(Entries) /\ Append(b, t[n + 1]) \in Seq(Lines)
    BY <1>10, <2>1, MatchAppend
  <2> QED BY <2>2, <2>3
<1> QED BY <1>5, <1>8, <1>11

-----------------------------------------------------------------------------
(* Answers that are dropped: why they are never sound.                     *)

\* Every good answer in s has been followed by a message that asks for another.
Plain(e)      == e.role \notin {"assistant", "compaction"}
GoodAnswer(e) == e.role = "assistant" /\ Sound(e)
Followed(s)   == \A i \in 1 .. Len(s) : GoodAnswer(s[i]) => \E j \in i+1 .. Len(s) : Plain(s[j])

\* Between a good answer and a later answer stands what the later one answers.
WellAsked(s) ==
  \A i, j \in 1 .. Len(s) : i < j /\ GoodAnswer(s[i]) /\ s[j].role = "assistant" =>
    \E l \in i+1 .. j-1 : Plain(s[l])

\* A context that starts at k keeps a message.
Keeps(s, k) == k > 0 /\ \E j \in 1 .. Len(s) : k <= j /\ ~ IsCompaction(s[j])

\* Every compaction keeps a message.
KeptInv ==
  /\ CompactionsOf(path) # {} => Keeps(path, FirstKept(path))
  /\ \A p \in Prompts : pc[p] = "compacting" => Keeps(path, compaction[p].from)

\* An answer is owed, or the last one was no good: whatever good answers there
\* are have been followed.
Owed ==
  \/ phase \in {"poll", "stream", "toolTurn"}
  \/ AfterAnswer /\ ~ Sound(lastAssistant)
FollowInv == WellAsked(path) /\ (Owed => Followed(path))

\* An answer that the overflow check drops failed or overflowed.
DropInv ==
  \A p \in Prompts :
    /\ pc[p] \in {"backoff", "cancelled"} => held[p].what = "retryable"
    /\ pc[p] = "check" /\ Overflows(held[p]) /\ TailOf(transcript).role = "assistant" =>
         ~ Sound(TailOf(transcript))

\* A session that grows by anything but answers.
LEMMA GrownWithoutAnswers ==
  ASSUME NEW X, NEW s \in Seq(X), NEW u \in Seq(X), Len(s) <= Len(u),
         \A i \in 1 .. Len(s) : u[i] = s[i],
         \A i \in 1 .. Len(u) : i > Len(s) => u[i].role # "assistant"
  PROVE  /\ WellAsked(s) => WellAsked(u)
         /\ Followed(s) => Followed(u)
         /\ \A k : Keeps(s, k) => Keeps(u, k)
<1>1. Len(s) \in Nat /\ Len(u) \in Nat
  OBVIOUS
<1>2. ASSUME WellAsked(s) PROVE WellAsked(u)
  <2> SUFFICES ASSUME NEW i \in 1 .. Len(u), NEW j \in 1 .. Len(u), i < j, GoodAnswer(u[i]), u[j].role = "assistant"
               PROVE  \E l \in i+1 .. j-1 : Plain(u[l])
    BY DEF WellAsked
  <2>1. i \in 1 .. Len(s) /\ j \in 1 .. Len(s) /\ u[i] = s[i] /\ u[j] = s[j]
    BY <1>1
  <2>2. PICK l \in i+1 .. j-1 : Plain(s[l])
    BY <1>2, <2>1 DEF WellAsked
  <2>3. u[l] = s[l]
    BY <1>1, <2>1
  <2> QED BY <2>2, <2>3
<1>3. ASSUME Followed(s) PROVE Followed(u)
  <2> SUFFICES ASSUME NEW i \in 1 .. Len(u), GoodAnswer(u[i]) PROVE \E j \in i+1 .. Len(u) : Plain(u[j])
    BY DEF Followed
  <2>1. i \in 1 .. Len(s) /\ u[i] = s[i]
    BY <1>1 DEF GoodAnswer
  <2>2. PICK j \in i+1 .. Len(s) : Plain(s[j])
    BY <1>3, <2>1 DEF Followed
  <2>3. j \in i+1 .. Len(u) /\ u[j] = s[j]
    BY <1>1, <2>1
  <2> QED BY <2>2, <2>3
<1>4. \A k : Keeps(s, k) => Keeps(u, k)
  BY <1>1 DEF Keeps
<1> QED BY <1>2, <1>3, <1>4

\* What an entry at the end looks like.
LEMMA AtTheEnd ==
  ASSUME NEW X, NEW s \in Seq(X), NEW e \in X
  PROVE  /\ Append(s, e) \in Seq(X) /\ Len(s) \in Nat /\ Len(Append(s, e)) = Len(s) + 1
         /\ Append(s, e)[Len(s) + 1] = e /\ \A i \in 1 .. Len(s) : Append(s, e)[i] = s[i]
OBVIOUS

\* A plain message follows all good answers.
LEMMA PlainFollows ==
  ASSUME NEW X, NEW s \in Seq(X), NEW e \in X, Plain(e)
  PROVE  /\ Followed(Append(s, e))
         /\ WellAsked(s) => WellAsked(Append(s, e))
<1> DEFINE u == Append(s, e)
<1>1. /\ u \in Seq(X) /\ Len(s) \in Nat /\ Len(u) = Len(s) + 1 /\ u[Len(s) + 1] = e
      /\ \A i \in 1 .. Len(s) : u[i] = s[i]
  BY AtTheEnd
<1> HIDE DEF u
<1>2. Followed(u)
  <2> SUFFICES ASSUME NEW i \in 1 .. Len(u), GoodAnswer(u[i]) PROVE \E j \in i+1 .. Len(u) : Plain(u[j])
    BY DEF Followed
  <2>1. i # Len(s) + 1
    BY <1>1 DEF GoodAnswer, Plain
  <2>2. Len(s) + 1 \in i+1 .. Len(u)
    BY <1>1, <2>1
  <2> QED BY <1>1, <2>2
<1>3. \A i \in 1 .. Len(u) : i > Len(s) => u[i].role # "assistant"
  BY <1>1 DEF Plain
<1>4. WellAsked(s) => WellAsked(u)
  BY <1>1, <1>3, GrownWithoutAnswers
<1> QED BY <1>2, <1>4 DEF u

\* An answer is well asked where the good ones have been followed; it leaves
\* them followed when it is no good itself.
LEMMA AnswerFollows ==
  ASSUME NEW X, NEW s \in Seq(X), NEW e \in X, WellAsked(s), Followed(s)
  PROVE  /\ WellAsked(Append(s, e))
         /\ ~ Sound(e) => Followed(Append(s, e))
<1> DEFINE u == Append(s, e)
<1>1. /\ u \in Seq(X) /\ Len(s) \in Nat /\ Len(u) = Len(s) + 1 /\ u[Len(s) + 1] = e
      /\ \A i \in 1 .. Len(s) : u[i] = s[i]
  BY AtTheEnd
<1> HIDE DEF u
<1>2. ASSUME NEW i \in 1 .. Len(s), GoodAnswer(u[i]) PROVE \E l \in i+1 .. Len(s) : Plain(u[l])
  <2>1. GoodAnswer(s[i])
    BY <1>1, <1>2
  <2>2. PICK l \in i+1 .. Len(s) : Plain(s[l])
    BY <2>1 DEF Followed
  <2>3. u[l] = s[l]
    BY <1>1, <1>2
  <2> QED BY <2>2, <2>3
<1>3. WellAsked(u)
  <2> SUFFICES ASSUME NEW i \in 1 .. Len(u), NEW j \in 1 .. Len(u), i < j, GoodAnswer(u[i]), u[j].role = "assistant"
               PROVE  \E l \in i+1 .. j-1 : Plain(u[l])
    BY DEF WellAsked
  <2>1. i \in 1 .. Len(s)
    BY <1>1
  <2>2. CASE j = Len(s) + 1
    <3>1. j - 1 = Len(s)
      BY <1>1, <2>2
    <3> QED BY <1>2, <2>1, <3>1
  <2>3. CASE j # Len(s) + 1
    <3>1. j \in 1 .. Len(s) /\ u[i] = s[i] /\ u[j] = s[j]
      BY <1>1, <2>1, <2>3
    <3>2. PICK l \in i+1 .. j-1 : Plain(s[l])
      BY <2>1, <3>1 DEF WellAsked
    <3>3. u[l] = s[l]
      BY <1>1, <2>1, <3>1
    <3> QED BY <3>2, <3>3
  <2> QED BY <2>2, <2>3
<1>4. ASSUME ~ Sound(e) PROVE Followed(u)
  <2> SUFFICES ASSUME NEW i \in 1 .. Len(u), GoodAnswer(u[i]) PROVE \E j \in i+1 .. Len(u) : Plain(u[j])
    BY DEF Followed
  <2>1. i \in 1 .. Len(s)
    BY <1>1, <1>4 DEF GoodAnswer
  <2>2. PICK l \in i+1 .. Len(s) : Plain(u[l])
    BY <1>2, <2>1
  <2>3. l \in i+1 .. Len(u)
    BY <1>1, <2>1
  <2> QED BY <2>2, <2>3
<1> QED BY <1>3, <1>4 DEF u

\* The prefixes of a selection have its type.
LEMMA PicksType ==
  ASSUME NEW X, NEW s \in Seq(X), NEW I, NEW f, Picks(s, I, f, Len(s))
  PROVE  \A n \in 0 .. Len(s) : f[n] \in Seq(X)
<1> DEFINE T == {n \in 0 .. Len(s) : f[n] \notin Seq(X)}
<1>1. SUFFICES ASSUME T # {} PROVE FALSE
  OBVIOUS
<1>2. PICK m \in T : \A j \in T : m <= j
  <2>1. T \in SUBSET Nat
    OBVIOUS
  <2> QED BY <1>1, <2>1, Least
<1>3. m # 0
  BY DEF Picks
<1>4. m \in 1 .. Len(s) /\ m - 1 \in 0 .. Len(s) /\ m - 1 \notin T /\ s[m] \in X
  BY <1>2, <1>3
<1>5. f[m] = IF m \in I THEN Append(f[m-1], s[m]) ELSE f[m-1]
  BY <1>4 DEF Picks
<1>6. f[m-1] \in Seq(X)
  BY <1>4
<1>7. f[m] \in Seq(X)
  <2> DEFINE u == f[m-1]
  <2>1. u \in Seq(X) /\ f[m] = IF m \in I THEN Append(u, s[m]) ELSE u
    BY <1>5, <1>6
  <2> HIDE DEF u
  <2> QED BY <1>4, <2>1
<1> QED BY <1>2, <1>7

\* The sound entries of a sequence are entries of it.
LEMMA SoundType == ASSUME NEW X, NEW s \in Seq(X) PROVE SoundOf(s) \in Seq(X)
<1> DEFINE I == {i \in DOMAIN s : Sound(s[i])}
<1>1. \A n \in 1 .. Len(s) : n \in I => s[n] \in X
  OBVIOUS
<1> HIDE DEF I
<1>2. Pick(s, I) \in Seq(X)
  BY <1>1, PickType
<1> QED BY <1>2 DEF SoundOf, I

\* g builds a sequence: to h it appends the entries of s whose places are in I.
Builds(g, h, s, I) ==
  /\ g[0] = h
  /\ \A n \in 1 .. Len(s) : g[n] = IF n \in I THEN Append(g[n-1], s[n]) ELSE g[n-1]

\* t is the last sound one of those entries, or none is sound and t is other.
LastOf(t, other, s, I) ==
  \/ t = other /\ \A i \in 1 .. Len(s) : i \in I => ~ Sound(s[i])
  \/ \E i \in 1 .. Len(s) : /\ i \in I /\ Sound(s[i]) /\ t = s[i]
                            /\ \A j \in 1 .. Len(s) : j > i /\ j \in I => ~ Sound(s[j])

\* Where what is built ends.
LEMMA LastSound ==
  ASSUME NEW X, NEW s \in Seq(X), NEW I, NEW h \in Seq(X), NEW g, Builds(g, h, s, I)
  PROVE  LastOf(TailOf(SoundOf(g[Len(s)])), TailOf(SoundOf(h)), s, I)
<1> DEFINE None_(n)   == /\ TailOf(SoundOf(g[n])) = TailOf(SoundOf(h))
                         /\ \A i \in 1 .. n : i \in I => ~ Sound(s[i])
           Last_(n, i) == /\ i \in I /\ Sound(s[i]) /\ TailOf(SoundOf(g[n])) = s[i]
                          /\ \A j \in 1 .. n : j > i /\ j \in I => ~ Sound(s[j])
           Right(n) == g[n] \in Seq(X) /\ (None_(n) \/ \E i \in 1 .. n : Last_(n, i))
           T == {n \in 0 .. Len(s) : ~ Right(n)}
<1>1. SUFFICES ASSUME T # {} PROVE FALSE
  <2>1. Right(Len(s))
    BY <1>1
  <2> QED BY <2>1 DEF LastOf
<1>2. PICK m \in T : \A j \in T : m <= j
  <2>1. T \in SUBSET Nat
    OBVIOUS
  <2> QED BY <1>1, <2>1, Least
<1>3. m # 0
  <2>1. Right(0)
    BY DEF Builds
  <2> QED BY <1>2, <2>1
<1>4. m \in 1 .. Len(s) /\ m - 1 \in 0 .. Len(s) /\ m - 1 \notin T /\ s[m] \in X
  BY <1>2, <1>3
<1>5. Right(m - 1)
  BY <1>4
<1>6. g[m] = IF m \in I THEN Append(g[m-1], s[m]) ELSE g[m-1]
  BY <1>4 DEF Builds
<1>7. \A j \in 1 .. m : j \in 1 .. m - 1 \/ j = m
  BY <1>4
<1>8. CASE m \notin I \/ ~ Sound(s[m])
  <2>1. g[m] \in Seq(X)
    BY <1>4, <1>5, <1>6
  <2>2. SoundOf(g[m]) = SoundOf(g[m-1])
    <3>1. CASE m \notin I
      BY <1>6, <3>1
    <3>2. CASE m \in I
      <4>1. g[m] = Append(g[m-1], s[m]) /\ g[m-1] \in Seq(X) /\ ~ Sound(s[m])
        BY <1>5, <1>6, <1>8, <3>2
      <4>2. SoundOf(Append(g[m-1], s[m])) = SoundOf(g[m-1])
        BY <1>4, <4>1, SoundAppend
      <4> QED BY <4>1, <4>2
    <3> QED BY <3>1, <3>2
  <2>3. None_(m - 1) => None_(m)
    BY <1>7, <1>8, <2>2
  <2>4. ASSUME NEW i \in 1 .. m - 1, Last_(m - 1, i) PROVE i \in 1 .. m /\ Last_(m, i)
    BY <1>4, <1>7, <1>8, <2>2, <2>4
  <2>5. Right(m)
    BY <1>5, <2>1, <2>3, <2>4
  <2> QED BY <1>2, <2>5
<1>9. CASE m \in I /\ Sound(s[m])
  <2>1. g[m] = Append(g[m-1], s[m]) /\ g[m-1] \in Seq(X)
    BY <1>5, <1>6, <1>9
  <2>2. SoundOf(g[m]) = Append(SoundOf(g[m-1]), s[m]) /\ SoundOf(g[m-1]) \in Seq(X) /\ g[m] \in Seq(X)
    <3> DEFINE u == g[m-1]
    <3>1. u \in Seq(X) /\ g[m] = Append(u, s[m])
      BY <2>1
    <3> HIDE DEF u
    <3>2. Append(u, s[m]) \in Seq(X)
      BY <1>4, <3>1
    <3>3. SoundOf(Append(u, s[m])) = Append(SoundOf(u), s[m])
      BY <1>4, <1>9, <3>1, SoundAppend
    <3>4. SoundOf(u) \in Seq(X)
      BY <3>1, SoundType
    <3> QED BY <3>1, <3>2, <3>3, <3>4 DEF u
  <2>3. TailOf(SoundOf(g[m])) = s[m]
    BY <1>4, <2>2, TailOfAppend
  <2>4. m \in 1 .. m /\ Last_(m, m)
    BY <1>4, <1>9, <2>3
  <2>5. Right(m)
    BY <2>2, <2>4
  <2> QED BY <1>2, <2>5
<1> QED BY <1>8, <1>9

\* The places of the messages the context of s is made of.
KeptPlaces(s) == {i \in 1 .. Len(s) : (CompactionsOf(s) # {} => FirstKept(s) <= i) /\ ~ IsCompaction(s[i])}

\* The last sound entry of a rebuilt context.
LEMMA LastOfContext ==
  ASSUME NEW s \in Seq(Entries)
  PROVE  LET t == TailOf(SoundOf(Context(s))) IN
         \/ t.role \in {"none", "summary"} /\ \A i \in KeptPlaces(s) : ~ Sound(s[i])
         \/ \E i \in KeptPlaces(s) : Sound(s[i]) /\ t = s[i] /\ \A j \in KeptPlaces(s) : j > i => ~ Sound(s[j])
<1> DEFINE X == Entries \cup {Summary}
           I == KeptPlaces(s)
<1>1. s \in Seq(X) /\ Summary \in X /\ Len(s) \in Nat /\ I \subseteq 1 .. Len(s)
  BY DEF KeptPlaces
<1>2. /\ <<>> \in Seq(X) /\ SoundOf(<<>>) = <<>>
      /\ <<Summary>> \in Seq(X) /\ SoundOf(<<Summary>>) = <<Summary>>
  <2>1. SoundOf(<<>>) = <<>>
    BY PickEmpty DEF SoundOf
  <2>2. <<>> \in Seq(X) /\ Append(<<>>, Summary) = <<Summary>> /\ <<Summary>> \in Seq(X)
    BY <1>1
  <2>3. Sound(Summary)
    BY DEF Sound, Summary
  <2> HIDE DEF X
  <2>4. SoundOf(Append(<<>>, Summary)) = Append(SoundOf(<<>>), Summary)
    BY <1>1, <2>2, <2>3, SoundAppend
  <2> QED BY <2>1, <2>2, <2>4
<1>3. TailOf(<<>>).role = "none" /\ TailOf(<<Summary>>).role = "summary"
  <2>1. Len(<<Summary>>) = 1 /\ <<Summary>>[1] = Summary /\ <<Summary>> # <<>>
    OBVIOUS
  <2> QED BY <2>1 DEF TailOf, NoMessage, Last, Summary
<1>4. \E h \in {<<>>, <<Summary>>} : \E g :
        Builds(g, h, s, I) /\ g[Len(s)] = Context(s)
  <2>1. CASE CompactionsOf(s) = {}
    <3> DEFINE g == [n \in 0 .. Len(s) |-> Prefixed(<<>>, s, n)]
    <3>1. \A n \in 1 .. Len(s) : n \in I
      BY <1>1, <2>1 DEF KeptPlaces, CompactionsOf
    <3> HIDE DEF I, X
    <3>2. Prefixed(<<>>, s, 0) = <<>>
      BY <1>1, <1>2, PrefixedIs
    <3>6. Prefixed(<<>>, s, Len(s)) = <<>> \o s
      <4>1. SubSeq(s, 1, Len(s)) = s
        BY <1>1
      <4> QED BY <4>1 DEF Prefixed
    <3>7. ASSUME NEW h \in Seq(X), NEW n \in Nat, n < Len(s)
          PROVE  Prefixed(h, s, n + 1) = Append(Prefixed(h, s, n), s[n + 1])
      BY <1>1, <3>7, PrefixedIs
    <3>3. <<>> \o s = s
      OBVIOUS
    <3>4. ASSUME NEW n \in 1 .. Len(s) PROVE g[n] = Append(g[n-1], s[n])
      <4>1. n - 1 \in Nat /\ n - 1 < Len(s) /\ (n - 1) + 1 = n /\ n - 1 \in 0 .. Len(s) /\ n \in 0 .. Len(s)
        BY <1>1
      <4>2. Prefixed(<<>>, s, (n - 1) + 1) = Append(Prefixed(<<>>, s, n - 1), s[(n - 1) + 1])
        BY <1>2, <3>7, <4>1
      <4> QED BY <4>1, <4>2
    <3>5. g[0] = <<>> /\ g[Len(s)] = Context(s)
      BY <1>1, <2>1, <3>2, <3>3, <3>6 DEF Context
    <3> HIDE DEF g
    <3> QED BY <3>1, <3>4, <3>5 DEF Builds
  <2>2. CASE CompactionsOf(s) # {}
    <3> DEFINE J == {i \in FirstKept(s) .. Len(s) : ~ IsCompaction(s[i])}
    <3>1. \A n \in 1 .. Len(s) : n \in I <=> n \in J
      BY <1>1, <2>2, FirstKeptType DEF KeptPlaces
    <3>2. Context(s) = <<Summary>> \o Pick(s, J)
      BY <2>2 DEF Context
    <3> HIDE DEF I, J
    <3>3. PICK f : Picks(s, J, f, Len(s))
      BY <1>1, PicksExist
    <3>4. Pick(s, J) = f[Len(s)]
      BY <1>1, <3>3, PickIs
    <3> DEFINE g == [n \in 0 .. Len(s) |-> <<Summary>> \o f[n]]
    <3>5. g[0] = <<Summary>> /\ g[Len(s)] = Context(s)
      <4>1. f[0] = <<>> /\ <<Summary>> \o <<>> = <<Summary>>
        BY <3>3 DEF Picks
      <4>2. 0 \in 0 .. Len(s) /\ Len(s) \in 0 .. Len(s)
        BY <1>1
      <4>3. g[0] = <<Summary>> \o f[0] /\ g[Len(s)] = <<Summary>> \o f[Len(s)]
        BY <4>2
      <4> HIDE DEF g
      <4> QED BY <3>2, <3>4, <4>1, <4>3
    <3>6. ASSUME NEW n \in 1 .. Len(s)
          PROVE  g[n] = IF n \in I THEN Append(g[n-1], s[n]) ELSE g[n-1]
      <4>1. n - 1 \in 0 .. Len(s) /\ n \in 0 .. Len(s)
        BY <1>1
      <4>2. f[n] = IF n \in J THEN Append(f[n-1], s[n]) ELSE f[n-1]
        BY <3>3 DEF Picks
      <4>3. CASE n \notin I
        BY <3>1, <4>1, <4>2, <4>3
      <4>4. CASE n \in I
        <5>1. f[n] = Append(f[n-1], s[n])
          BY <3>1, <4>2, <4>4
        <5>2. f[n-1] \in Seq(X)
          <6>1. s \in Seq(X) /\ \A i \in 1 .. Len(s) : s[i] \in X
            BY <1>1
          <6> HIDE DEF X
          <6> QED BY <3>3, <4>1, <6>1, PicksType
        <5>3. <<Summary>> \o Append(f[n-1], s[n]) = Append(<<Summary>> \o f[n-1], s[n])
          <6> DEFINE u == f[n-1]
          <6>1. u \in Seq(X) /\ s[n] \in X /\ Summary \in X
            BY <1>1, <5>2
          <6> HIDE DEF u, X
          <6>2. <<Summary>> \o Append(u, s[n]) = Append(<<Summary>> \o u, s[n])
            BY <6>1
          <6> QED BY <6>2 DEF u
        <5> QED BY <4>1, <4>4, <5>1, <5>3
      <4> QED BY <4>3, <4>4
    <3> HIDE DEF g
    <3> QED BY <3>5, <3>6 DEF Builds
  <2> QED BY <2>1, <2>2
<1>5. PICK h \in {<<>>, <<Summary>>} : \E g : Builds(g, h, s, I) /\ g[Len(s)] = Context(s)
  BY <1>4
<1>6. PICK g : Builds(g, h, s, I) /\ g[Len(s)] = Context(s)
  BY <1>5
<1>7. TailOf(SoundOf(h)).role \in {"none", "summary"} /\ h \in Seq(X)
  BY <1>2, <1>3, <1>5
<1> HIDE DEF I, X
<1>8. LastOf(TailOf(SoundOf(Context(s))), TailOf(SoundOf(h)), s, I)
  BY <1>1, <1>6, <1>7, LastSound
<1> QED BY <1>1, <1>7, <1>8 DEF I, LastOf

\* Where the good answers of the session have been followed, the rebuilt context
\* does not end with one, failures aside.
LEMMA FollowedContext ==
  ASSUME NEW s \in Seq(Entries), Followed(s)
  PROVE  TailOf(SoundOf(Context(s))).role # "assistant"
<1> DEFINE t == TailOf(SoundOf(Context(s)))
<1>1. SUFFICES ASSUME t.role = "assistant" PROVE FALSE
  OBVIOUS
<1>2. PICK i \in KeptPlaces(s) : Sound(s[i]) /\ t = s[i] /\ \A j \in KeptPlaces(s) : j > i => ~ Sound(s[j])
  BY <1>1, LastOfContext
<1>3. GoodAnswer(s[i]) /\ i \in 1 .. Len(s) /\ Len(s) \in Nat
  BY <1>1, <1>2 DEF GoodAnswer, KeptPlaces
<1>4. PICK j \in i+1 .. Len(s) : Plain(s[j])
  BY <1>3 DEF Followed
<1>5. j \in 1 .. Len(s) /\ j > i /\ ~ IsCompaction(s[j]) /\ Sound(s[j])
  BY <1>3, <1>4 DEF Plain, IsCompaction, Sound
<1>6. j \in KeptPlaces(s)
  <2> SUFFICES ASSUME CompactionsOf(s) # {} PROVE FirstKept(s) <= j
    BY <1>5 DEF KeptPlaces
  <2>1. FirstKept(s) <= i /\ FirstKept(s) \in Nat
    BY <1>2, FirstKeptType DEF KeptPlaces
  <2> QED BY <1>3, <1>5, <2>1
<1> QED BY <1>2, <1>5, <1>6

\* Where they have not all been followed, the rebuilt context ends with one.
LEMMA UnfollowedContext ==
  ASSUME NEW s \in Seq(Entries), WellAsked(s), ~ Followed(s), CompactionsOf(s) # {} => Keeps(s, FirstKept(s))
  PROVE  TailOf(SoundOf(Context(s))).role = "assistant"
<1> DEFINE t == TailOf(SoundOf(Context(s)))
<1>1. PICK i \in 1 .. Len(s) : GoodAnswer(s[i]) /\ \A j \in i+1 .. Len(s) : ~ Plain(s[j])
  BY DEF Followed
<1>2. Len(s) \in Nat
  OBVIOUS
<1>3. \A j \in 1 .. Len(s) : j > i => IsCompaction(s[j])
  <2> SUFFICES ASSUME NEW j \in 1 .. Len(s), j > i PROVE IsCompaction(s[j])
    OBVIOUS
  <2>1. ~ Plain(s[j])
    BY <1>1, <1>2
  <2>2. s[j].role # "assistant"
    <3>1. SUFFICES ASSUME s[j].role = "assistant" PROVE FALSE
      OBVIOUS
    <3>2. PICK l \in i+1 .. j-1 : Plain(s[l])
      BY <1>1, <3>1 DEF WellAsked
    <3>3. l \in i+1 .. Len(s)
      BY <1>2, <3>2
    <3> QED BY <1>1, <3>2, <3>3
  <2> QED BY <2>1, <2>2 DEF Plain, IsCompaction
<1>4. i \in KeptPlaces(s)
  <2>1. ~ IsCompaction(s[i])
    BY <1>1 DEF GoodAnswer, IsCompaction
  <2>2. ASSUME CompactionsOf(s) # {} PROVE FirstKept(s) <= i
    <3>1. PICK j \in 1 .. Len(s) : FirstKept(s) <= j /\ ~ IsCompaction(s[j])
      BY <2>2 DEF Keeps
    <3>2. j <= i
      BY <1>2, <1>3, <3>1
    <3>3. FirstKept(s) \in Nat
      BY FirstKeptType
    <3> QED BY <1>2, <3>1, <3>2, <3>3
  <2> QED BY <2>1, <2>2 DEF KeptPlaces
<1>5. \A k \in KeptPlaces(s) : k \in 1 .. Len(s) /\ k <= i
  BY <1>2, <1>3 DEF KeptPlaces
<1>6. PICK k \in KeptPlaces(s) : Sound(s[k]) /\ t = s[k] /\ \A j \in KeptPlaces(s) : j > k => ~ Sound(s[j])
  BY <1>1, <1>4, LastOfContext DEF GoodAnswer
<1>7. k = i
  <2>1. ~ (i > k)
    BY <1>1, <1>4, <1>6 DEF GoodAnswer
  <2> QED BY <1>5, <1>6, <2>1
<1> QED BY <1>1, <1>6, <1>7 DEF GoodAnswer

\* The tail of the transcript, where it is sound.
LEMMA SoundTail ==
  ASSUME NEW X, NEW s \in Seq(X), s # <<>>, Sound(TailOf(s))
  PROVE  TailOf(SoundOf(s)) = TailOf(s)
<1>1. Front(s) \in Seq(X) /\ TailOf(s) \in X /\ s = Append(Front(s), TailOf(s))
  BY FrontTail
<1>2. SoundOf(Append(Front(s), TailOf(s))) = Append(SoundOf(Front(s)), TailOf(s))
  BY <1>1, SoundAppend
<1>3. SoundOf(Front(s)) \in Seq(X)
  BY <1>1, SoundType
<1>4. TailOf(Append(SoundOf(Front(s)), TailOf(s))) = TailOf(s)
  BY <1>1, <1>3, TailOfAppend
<1> QED BY <1>1, <1>2, <1>4

\* So the answer at the end of the transcript is no good while one is owed.
LEMMA NoGoodTail ==
  ASSUME HistoryTypes, MatchInv, Followed(path), TailOf(transcript).role = "assistant"
  PROVE  ~ Sound(TailOf(transcript))
<1>1. SUFFICES ASSUME Sound(TailOf(transcript)) PROVE FALSE
  OBVIOUS
<1>2. transcript # <<>>
  BY DEF TailOf, NoMessage
<1>3. TailOf(SoundOf(transcript)) = TailOf(transcript)
  BY <1>1, <1>2, SoundTail DEF HistoryTypes
<1>4. TailOf(SoundOf(Context(path))).role # "assistant"
  BY FollowedContext DEF HistoryTypes
<1> QED BY <1>3, <1>4 DEF MatchInv

\* And a transcript that ends with something to answer has them all followed.
LEMMA AskedFollows ==
  ASSUME HistoryTypes, MatchInv, KeptInv, WellAsked(path), ToAnswer(transcript)
  PROVE  Followed(path)
<1>1. SUFFICES ASSUME ~ Followed(path) PROVE FALSE
  OBVIOUS
<1>2. transcript # <<>> /\ Sound(TailOf(transcript)) /\ TailOf(transcript).role # "assistant"
  BY DEF ToAnswer, TailOf, NoMessage, Sound
<1>3. TailOf(SoundOf(transcript)) = TailOf(transcript)
  BY <1>2, SoundTail DEF HistoryTypes
<1>4. TailOf(SoundOf(Context(path))).role = "assistant"
  BY <1>1, UnfollowedContext DEF HistoryTypes, KeptInv
<1> QED BY <1>2, <1>3, <1>4 DEF MatchInv

\* What a compaction is told to keep is a message at least.
LEMMA KeepFromKeeps == HistoryTypes /\ KeptInv => \A k \in KeepFrom : Keeps(path, k)
<1> SUFFICES ASSUME HistoryTypes, KeptInv, NEW k \in KeepFrom PROVE Keeps(path, k)
  OBVIOUS
<1> DEFINE s == FirstKept(path)
<1>1. path \in Seq(Entries) /\ Len(path) \in Nat /\ TailOf(path).role \notin {"none", "compaction"}
  BY DEF HistoryTypes, KeepFrom
<1>2. path # <<>> /\ Len(path) \in 1 .. Len(path)
  BY <1>1 DEF TailOf, NoMessage
<1>3. s \in Nat /\ s > 0
  <2>1. CompactionsOf(path) = {} => s = 1
    BY DEF FirstKept
  <2>2. CompactionsOf(path) # {} => s > 0
    BY DEF KeptInv, Keeps
  <2> QED BY <1>1, <2>1, <2>2, FirstKeptType
<1>4. CASE CutPoints(s) # {}
  <2>1. k \in CutPoints(s)
    BY <1>1, <1>4 DEF KeepFrom
  <2>2. k \in s .. Len(path) /\ path[k].role # "compaction"
    BY <2>1 DEF CutPoints
  <2> QED BY <1>1, <1>3, <2>2 DEF Keeps, IsCompaction
<1>5. CASE CutPoints(s) = {}
  <2>1. k = s
    BY <1>1, <1>5 DEF KeepFrom
  <2>2. CASE CompactionsOf(path) = {}
    <3>1. s = 1 /\ ~ IsCompaction(path[1]) /\ 1 \in 1 .. Len(path)
      BY <1>1, <1>2, <2>2 DEF FirstKept, CompactionsOf
    <3> QED BY <2>1, <3>1 DEF Keeps
  <2>3. CASE CompactionsOf(path) # {}
    BY <2>1, <2>3 DEF KeptInv
  <2> QED BY <2>2, <2>3
<1> QED BY <1>4, <1>5

\* Every compaction keeps a message: what one is told to keep when it begins is
\* still there when it ends, whatever the others have done meanwhile.
LEMMA KeptInductive ==
  ASSUME MaxManual = 0
  PROVE  ThreadInv /\ Heard /\ HistoryTypes /\ QueueTypes /\ KeptInv /\ [Next]_vars => KeptInv'
<1> SUFFICES ASSUME ThreadInv, Heard, HistoryTypes, QueueTypes, KeptInv, [Next]_vars PROVE KeptInv'
  OBVIOUS
<1> DEFINE Grown == /\ \A k : Keeps(path, k) => Keeps(path', k)
                    /\ CompactionsOf(path') # {} => Keeps(path', FirstKept(path'))
<1>0. /\ path \in Seq(Entries) /\ Len(path) \in Nat
      /\ CompactionsOf(path) # {} => Keeps(path, FirstKept(path))
  BY DEF HistoryTypes, KeptInv
<1>1. ASSUME UNCHANGED path PROVE Grown
  BY <1>0, <1>1 DEF Keeps, FirstKept, CompactionsOf
<1>2. ASSUME NEW t \in Seq(Messages), path' = path \o t PROVE Grown
  <2>1. t \in Seq(Entries)
    BY DEF Entries
  <2>2. \A i \in 1 .. Len(path) : (path \o t)[i] = path[i]
    BY <1>0, <2>1
  <2>3. Len(path \o t) \in Nat /\ Len(path) <= Len(path \o t)
    BY <1>0, <2>1
  <2>4. \A k : Keeps(path, k) => Keeps(path \o t, k)
    BY <1>0, <2>2, <2>3 DEF Keeps
  <2>5. CompactionsOf(path \o t) = CompactionsOf(path)
    BY <1>0, SameCompactions
  <2>6. CompactionsOf(path) # {} => FirstKept(path \o t) = FirstKept(path)
    <3>1. CompactionsOf(path) # {} => Max(CompactionsOf(path)) \in 1 .. Len(path)
      BY <1>0, CompactionPlaces
    <3> QED BY <2>2, <2>5, <3>1 DEF FirstKept
  <2> QED BY <1>0, <1>2, <2>4, <2>5, <2>6
<1>3. ASSUME NEW e \in Messages, path' = Append(path, e) PROVE Grown
  <2>1. e \in Entries
    BY Roles
  <2>2. Append(path, e) = path \o <<e>> /\ <<e>> \in Seq(Messages)
    BY <1>0, <2>1, AppendIsConcat
  <2> QED BY <1>2, <1>3, <2>2
<1>4. ASSUME NEW p \in Prompts, CompactionSucceeds(p) PROVE Grown
  <2> DEFINE k == compaction[p].from
             e == Compaction(k)
             u == Append(path, e)
  <2>1. path' = u /\ Keeps(path, k) /\ e \in Entries /\ IsCompaction(e) /\ e.from = k
    BY <1>4 DEF CompactionSucceeds, KeptInv, HistoryTypes, Compaction, Entries, IsCompaction
  <2> HIDE DEF e, k
  <2>2. /\ u \in Seq(Entries) /\ Len(u) = Len(path) + 1 /\ u[Len(path) + 1] = e
        /\ \A i \in 1 .. Len(path) : u[i] = path[i]
    BY <1>0, <2>1, AtTheEnd
  <2> HIDE DEF u
  <2>3. \A l : Keeps(path, l) => Keeps(u, l)
    BY <1>0, <2>2 DEF Keeps
  <2>4. Len(path) + 1 \in CompactionsOf(u)
    BY <1>0, <2>1, <2>2 DEF CompactionsOf
  <2>5. Max(CompactionsOf(u)) = Len(path) + 1
    <3> DEFINE m == Max(CompactionsOf(u))
    <3>1. m \in 1 .. Len(path) + 1 /\ Len(path) + 1 <= m
      BY <2>2, <2>4, CompactionPlaces
    <3> HIDE DEF m
    <3>2. m = Len(path) + 1
      BY <1>0, <3>1
    <3> QED BY <3>2 DEF m
  <2>6. FirstKept(u) = k
    BY <2>1, <2>2, <2>4, <2>5 DEF FirstKept
  <2> QED BY <2>1, <2>3, <2>6
<1>5. Grown
  <2>1. FlushBash => Grown
    <3>1. pendingBash \in Seq(Messages)
      BY DEF HistoryTypes, Messages
    <3> QED BY <1>2, <3>1 DEF FlushBash
  <2> HIDE DEF Grown
  <2> QED BY <1>1, <1>3, <1>4, <2>1, HistorySteps
<1>6. ASSUME NEW p \in Prompts, pc'[p] = "compacting" PROVE Keeps(path', compaction'[p].from)
  <2>1. CASE pc[p] = "compacting" /\ compaction'[p] = compaction[p]
    BY <1>5, <2>1 DEF KeptInv
  <2>2. CASE UNCHANGED path /\ \E k \in KeepFrom : compaction'[p].from = k
    BY <1>5, <2>2, KeepFromKeeps
  <2> QED BY <1>6, <2>1, <2>2, CompactingSteps
<1> QED BY <1>5, <1>6 DEF KeptInv, Keeps, FirstKept, CompactionsOf

\* Good answers have been followed whenever another one is owed, and the one that
\* has just come and is no good leaves them so.
LEMMA AgentFollows ==
  ASSUME ThreadInv, Heard, HistoryTypes, QueueTypes, FollowInv, AgentStep
  PROVE  FollowInv'
<1>0. path \in Seq(Entries) /\ WellAsked(path) /\ (Owed => Followed(path))
  BY DEF HistoryTypes, FollowInv
<1>1. \A p \in Prompts : pc[p] # "post"
  BY NobodysTurn DEF AgentStep, AtTurn
<1>2. ASSUME NEW e \in Messages, Plain(e), path' = Append(path, e) PROVE FollowInv'
  <2>1. e \in Entries
    BY Roles
  <2>2. Followed(Append(path, e)) /\ WellAsked(Append(path, e))
    BY <1>0, <1>2, <2>1, PlainFollows
  <2> QED BY <1>2, <2>2 DEF FollowInv, Followed, WellAsked
<1>3. ASSUME UNCHANGED path, Owed' => Owed PROVE FollowInv'
  BY <1>0, <1>3 DEF FollowInv, Followed, WellAsked
<1>4. ASSUME NEW m \in Prompts \cup Notes, UserMessage(m) PROVE FollowInv'
  <2>1. User(m) \in Messages /\ Plain(User(m)) /\ path' = Append(path, User(m))
    BY <1>4 DEF Messages, User, Plain, UserMessage, Heard
  <2> QED BY <1>2, <2>1
<1>5. CASE Announce
  BY <1>4, <1>5 DEF Announce, QueueTypes
<1>6. CASE FirstPoll
  <2>1. CASE steeringQueue = <<>>
    <3>1. UNCHANGED path /\ Owed
      BY <1>6, <2>1 DEF FirstPoll, Owed
    <3> QED BY <1>3, <3>1
  <2>2. CASE steeringQueue # <<>>
    <3>1. Head(steeringQueue) \in Notes
      BY <2>2 DEF QueueTypes
    <3> QED BY <1>4, <1>6, <2>2, <3>1 DEF FirstPoll
  <2> QED BY <2>1, <2>2
<1>7. CASE PollQueues
  <2>1. UNCHANGED <<path, lastAssistant, pc>> /\ phase \in {"toolTurn", "turnEnd"}
    BY <1>7 DEF PollQueues, threadVars
  <2>2. phase' = "inject" \/ (phase' = "stream" /\ phase = "toolTurn") \/ (phase' = "settling" /\ phase = "turnEnd")
    BY <1>7 DEF PollQueues, AgentEnd
  <2>3. Owed' => Owed
    BY <1>1, <2>1, <2>2 DEF Owed, AfterAnswer, Sound
  <2> QED BY <1>3, <2>1, <2>3
<1>8. ASSUME NEW k \in Kinds, Answer(k) PROVE FollowInv'
  <2>1. /\ Said(k) \in Entries /\ path' = Append(path, Said(k)) /\ lastAssistant' = Said(k)
    BY <1>8, Answered DEF Entries, Messages
  <2>2. Owed /\ phase' \in {"settling", "tools", "turnEnd"}
    BY <1>8 DEF Answer, AgentEnd, Owed
  <2>3. Owed' => ~ Sound(lastAssistant')
    BY <2>2 DEF Owed, Sound
  <2>4. WellAsked(Append(path, Said(k))) /\ (~ Sound(Said(k)) => Followed(Append(path, Said(k))))
    BY <1>0, <2>1, <2>2, AnswerFollows
  <2> QED BY <2>1, <2>3, <2>4 DEF FollowInv, Followed, WellAsked
<1>9. CASE ToolEnds
  <2>1. ToolResult \in Messages /\ Plain(ToolResult) /\ path' = Append(path, ToolResult)
    BY <1>9 DEF Messages, ToolResult, Plain, ToolEnds, Heard
  <2> QED BY <1>2, <2>1
<1>10. CASE RunEnds
  <2>1. UNCHANGED <<path, lastAssistant>> /\ AfterAnswer /\ phase' = "idle"
    BY <1>10 DEF RunEnds, Finishes, AfterAnswer
  <2>2. Owed' => Owed
    BY <2>1 DEF Owed, Sound
  <2> QED BY <1>3, <2>1, <2>2
<1> QED BY <1>5, <1>6, <1>7, <1>8, <1>9, <1>10 DEF AgentStep

LEMMA FollowInductive ==
  ASSUME MaxManual = 0
  PROVE  ThreadInv /\ Heard /\ KnownInv /\ HistoryTypes /\ QueueTypes /\ KeptInv /\ MatchInv /\ FollowInv
         /\ [Next]_vars => FollowInv'
<1> SUFFICES ASSUME ThreadInv, Heard, KnownInv, HistoryTypes, QueueTypes, KeptInv, MatchInv, FollowInv,
                    [Next]_vars
             PROVE  FollowInv'
  OBVIOUS
<1>0. path \in Seq(Entries) /\ Len(path) \in Nat /\ WellAsked(path) /\ (Owed => Followed(path))
  BY DEF HistoryTypes, FollowInv
<1> DEFINE Quiet == /\ WellAsked(path')
                    /\ Followed(path) => Followed(path')
<1>1. ASSUME Quiet, Owed' => Owed PROVE FollowInv'
  BY <1>0, <1>1 DEF FollowInv, Followed, WellAsked
<1>2. ASSUME UNCHANGED path PROVE Quiet
  BY <1>0, <1>2 DEF Followed, WellAsked
<1>3. ASSUME NEW t \in Seq(Entries), \A i \in 1 .. Len(t) : t[i].role # "assistant", path' = path \o t
      PROVE  Quiet
  <2> DEFINE u == path \o t
  <2>1. /\ u \in Seq(Entries) /\ Len(u) = Len(path) + Len(t) /\ Len(t) \in Nat
        /\ \A i \in 1 .. Len(path) : u[i] = path[i]
        /\ \A i \in 1 .. Len(u) : i > Len(path) => u[i] = t[i - Len(path)]
    BY <1>0
  <2> HIDE DEF u
  <2>2. \A i \in 1 .. Len(u) : i > Len(path) => u[i].role # "assistant"
    <3> SUFFICES ASSUME NEW i \in 1 .. Len(u), i > Len(path) PROVE u[i].role # "assistant"
      OBVIOUS
    <3>1. i - Len(path) \in 1 .. Len(t)
      BY <1>0, <2>1
    <3> QED BY <1>3, <2>1, <3>1
  <2>3. Len(path) <= Len(u)
    BY <1>0, <2>1
  <2>4. WellAsked(u) /\ (Followed(path) => Followed(u))
    BY <1>0, <2>1, <2>2, <2>3, GrownWithoutAnswers
  <2> QED BY <1>3, <2>4 DEF u
<1>4. ASSUME NEW e \in Entries, e.role # "assistant", path' = Append(path, e) PROVE Quiet
  <2>1. Append(path, e) = path \o <<e>> /\ <<e>> \in Seq(Entries) /\ \A i \in 1 .. Len(<<e>>) : <<e>>[i].role # "assistant"
    BY <1>0, <1>4, AppendIsConcat
  <2> QED BY <1>3, <1>4, <2>1
<1>5. FlushBash => Quiet
  <2>1. pendingBash \in Seq(Entries) /\ \A i \in 1 .. Len(pendingBash) : pendingBash[i].role # "assistant"
    BY DEF HistoryTypes, Entries, Messages, Bash
  <2> QED BY <1>3, <2>1 DEF FlushBash
<1> HIDE DEF Quiet
<1>6. ASSUME NEW p \in Prompts, Prompt(p) PROVE FollowInv'
  <2>1. FlushBash /\ UNCHANGED <<phase, lastAssistant>>
    BY <1>6 DEF Prompt
  <2>2. \A q \in Prompts : pc[q] # "post"
    BY <1>6, NobodysTurn DEF Prompt, AtTurn
  <2>3. \A q \in Prompts : pc'[q] # "post"
    BY <1>6, <2>2 DEF Prompt, GoTo, ThreadInv
  <2>4. Owed' => Owed
    BY <2>1, <2>2, <2>3 DEF Owed, AfterAnswer, Sound
  <2> QED BY <1>1, <1>5, <2>1, <2>4
<1>7. ASSUME NEW p \in Prompts, Thread(p) PROVE FollowInv'
  <2>1. \A q \in Prompts : q # p => pc[q] # "post"
    BY <1>7, NoneAssumption
       DEF Thread, AcceptAndRun, Post, Cancelled, BackoffExpires, Check, CompactionSucceeds, CompactionFails,
           Decide, Continue, Leave, Outside, ThreadInv, AtTurn
  <2>2. /\ pc[p] = "post" <=> Post(p)
        /\ \E l : l # "post" /\ pc' = [pc EXCEPT ![p] = l]
    BY <1>7 DEF Thread, AcceptAndRun, Post, Cancelled, BackoffExpires, Check, StartCompaction,
                NotCompacted, CompactionSucceeds, CompactionFails, Decide, Continue, Throw, Leave, GoTo
  <2>3. \A q \in Prompts : pc'[q] # "post"
    BY <2>1, <2>2 DEF ThreadInv
  <2>4. CASE Post(p)
    <3>1. phase' = "idle" /\ UNCHANGED path
      BY <2>4 DEF Post, KnownInv
    <3>2. ~ Owed'
      BY <2>3, <3>1 DEF Owed, AfterAnswer
    <3> QED BY <1>1, <1>2, <3>1, <3>2
  <2>5. CASE ~ Post(p)
    <3>1. UNCHANGED lastAssistant
      BY <1>7, <2>5 DEF Thread, AcceptAndRun, Cancelled, BackoffExpires, Check, CompactionSucceeds,
                        CompactionFails, Decide, Continue, Leave
    <3>2. Quiet
      <4>1. \/ UNCHANGED path \/ FlushBash \/ CompactionSucceeds(p)
        BY <1>7 DEF Thread, AcceptAndRun, Post, Cancelled, BackoffExpires, Check, CompactionFails, Decide, Continue,
                    Throw, Leave
      <4>2. CASE CompactionSucceeds(p)
        <5> DEFINE e == Compaction(compaction[p].from)
        <5>1. e \in Entries /\ e.role # "assistant" /\ path' = Append(path, e)
          BY <4>2 DEF CompactionSucceeds, HistoryTypes, Compaction, Entries
        <5> QED BY <1>4, <5>1
      <4> QED BY <1>2, <1>5, <4>1, <4>2
    <3>3. \/ UNCHANGED phase
          \/ phase' \in {"begin", "inject"}
          \/ phase' = "poll" /\ ToAnswer(transcript)
      BY <1>7 DEF Thread, AcceptAndRun, StartRun, Post, Cancelled, BackoffExpires, Check, CompactionSucceeds,
                  CompactionFails, Decide, Continue, Throw, Leave, agentVars, ToAnswer
    <3>4. CASE UNCHANGED phase
      <4>1. Owed' => Owed
        BY <2>3, <3>1, <3>4 DEF Owed, AfterAnswer, Sound
      <4> QED BY <1>1, <3>2, <4>1
    <3>5. CASE phase' \in {"begin", "inject"}
      <4>1. ~ Owed'
        BY <2>3, <3>5 DEF Owed, AfterAnswer
      <4> QED BY <1>1, <3>2, <4>1
    <3>6. CASE phase' = "poll" /\ ToAnswer(transcript)
      <4>1. Followed(path)
        BY <1>0, <3>6, AskedFollows
      <4> QED BY <3>2, <4>1 DEF Quiet, FollowInv
    <3> QED BY <3>3, <3>4, <3>5, <3>6
  <2> QED BY <2>4, <2>5
<1>8. ASSUME NEW b \in Bashes, RecordBash(b) PROVE FollowInv'
  <2>1. UNCHANGED <<pc, phase, lastAssistant>> /\ (UNCHANGED path \/ path' = Append(path, Bash(b)))
    BY <1>8 DEF RecordBash, threadVars
  <2>2. Bash(b) \in Entries /\ Bash(b).role # "assistant"
    BY DEF Entries, Messages, Bash
  <2>3. Owed' => Owed
    BY <2>1 DEF Owed, AfterAnswer, Sound
  <2> QED BY <1>1, <1>2, <1>4, <2>1, <2>2, <2>3
<1>9. CASE /\ UNCHANGED <<transcript, path, pendingBash, activeRun, phase, lastAssistant, retryAttempt,
                          retryOpen, held, compaction>>
           /\ UNCHANGED pc \/ CancelSleep
  <2>1. \A q \in Prompts : pc'[q] = "post" => pc[q] = "post"
    BY <1>9 DEF CancelSleep, ThreadInv
  <2>2. Owed' => Owed
    BY <1>9, <2>1 DEF Owed, AfterAnswer, Sound
  <2> QED BY <1>1, <1>2, <1>9, <2>2
<1> QED BY <1>6, <1>7, <1>8, <1>9, AgentFollows, Writers

\* An answer that the overflow check drops failed or overflowed.
LEMMA DropInductive ==
  ASSUME MaxManual = 0
  PROVE  ThreadInv /\ Heard /\ KnownInv /\ HistoryTypes /\ QueueTypes /\ FollowInv /\ MatchInv /\ DropInv
         /\ [Next]_vars => DropInv'
<1> SUFFICES ASSUME ThreadInv, Heard, KnownInv, HistoryTypes, QueueTypes, FollowInv, MatchInv, DropInv,
                    [Next]_vars
             PROVE  DropInv'
  OBVIOUS
<1> DEFINE Fits(p) == /\ pc'[p] \in {"backoff", "cancelled"} => held'[p].what = "retryable"
                      /\ pc'[p] = "check" /\ Overflows(held'[p]) /\ TailOf(transcript').role = "assistant" =>
                           ~ Sound(TailOf(transcript'))
<1> SUFFICES ASSUME NEW p \in Prompts PROVE Fits(p)
  BY DEF DropInv, Overflows, TailOf, Sound
<1>1. CASE pc'[p] \notin {"backoff", "cancelled", "check"}
  BY <1>1
<1>2. ASSUME pc'[p] \in {"backoff", "cancelled"} => pc[p] \in {"backoff", "cancelled"},
             pc'[p] # "check", held'[p] = held[p]
      PROVE  Fits(p)
  BY <1>2 DEF DropInv
<1>3. ASSUME UNCHANGED <<transcript, held>>, UNCHANGED pc \/ CancelSleep PROVE Fits(p)
  <2>1. /\ pc'[p] = "check" => pc[p] = "check"
        /\ pc'[p] \in {"backoff", "cancelled"} => pc[p] \in {"backoff", "cancelled"}
    BY <1>3 DEF CancelSleep, ThreadInv
  <2> QED BY <1>3, <2>1 DEF DropInv
<1>4. CASE AgentStep
  <2>1. \A q \in Prompts : pc[q] \notin AtTurn
    BY <1>4, NobodysTurn DEF AgentStep
  <2>2. UNCHANGED held /\ (UNCHANGED pc \/ pc' = [pc EXCEPT ![activeRun] = "post"])
    BY <1>4 DEF AgentStep, Announce, FirstPoll, PollQueues, Answer, ToolEnds, RunEnds, threadVars
  <2>3. activeRun # None => pc[activeRun] = "running"
    BY DEF ThreadInv
  <2> QED BY <1>1, <1>2, <2>1, <2>2, <2>3 DEF ThreadInv, AtTurn
<1>5. ASSUME NEW b \in Bashes, RecordBash(b) PROVE Fits(p)
  <2>1. UNCHANGED <<pc, held>> /\ pc[p] # "check"
    BY <1>5, NobodysTurn DEF RecordBash, threadVars, AtTurn
  <2> QED BY <1>2, <2>1
<1>6. ASSUME NEW q \in Prompts, Prompt(q) PROVE Fits(p)
  <2>1. pc[p] # "check"
    BY <1>6, NobodysTurn DEF Prompt, AtTurn
  <2>2. CASE q # p
    <3>1. pc'[p] = pc[p] /\ held'[p] = held[p]
      BY <1>6, <2>2 DEF Prompt, GoTo, ThreadInv, HistoryTypes
    <3> QED BY <1>2, <2>1, <3>1
  <2>3. CASE q = p
    <3> DEFINE spoken == {i \in DOMAIN transcript' : transcript'[i].role = "assistant"}
    <3>1. \/ pc' = [pc EXCEPT ![p] = "preflight"]
          \/ pc' = [pc EXCEPT ![p] = "check"] /\ held' = [held EXCEPT ![p] = transcript'[Max(spoken)]]
      BY <1>6, <2>3 DEF Prompt, GoTo
    <3>2. transcript' \in Seq(Lines)
      BY <1>6, HistoryGrows DEF Prompt
    <3>3. ASSUME TailOf(transcript').role = "assistant" PROVE TailOf(transcript') = transcript'[Max(spoken)]
      <4>1. transcript' # <<>> /\ Len(transcript') \in Nat
        BY <3>2, <3>3 DEF TailOf, NoMessage
      <4>2. Len(transcript') \in spoken /\ TailOf(transcript') = transcript'[Len(transcript')]
        BY <3>2, <3>3, <4>1 DEF TailOf, Last
      <4>3. spoken \in SUBSET (1 .. Len(transcript'))
        BY <3>2
      <4> HIDE DEF spoken
      <4>4. Max(spoken) \in spoken /\ Len(transcript') <= Max(spoken)
        BY <4>1, <4>2, <4>3, LastPlace
      <4>5. Max(spoken) = Len(transcript')
        <5> DEFINE m == Max(spoken)
        <5>1. m \in 1 .. Len(transcript') /\ Len(transcript') <= m
          BY <4>3, <4>4
        <5> HIDE DEF m
        <5>2. m = Len(transcript')
          BY <4>1, <5>1
        <5> QED BY <5>2 DEF m
      <4> QED BY <4>2, <4>5
    <3> HIDE DEF spoken
    <3>4. CASE pc' = [pc EXCEPT ![p] = "preflight"]
      BY <1>1, <3>4 DEF ThreadInv
    <3>5. CASE pc' = [pc EXCEPT ![p] = "check"] /\ held' = [held EXCEPT ![p] = transcript'[Max(spoken)]]
      <4>1. pc'[p] = "check" /\ held'[p] = transcript'[Max(spoken)]
        BY <3>5 DEF ThreadInv, HistoryTypes
      <4> QED BY <3>3, <4>1 DEF Overflows, Sound, Errors
    <3> QED BY <3>1, <3>4, <3>5
  <2> QED BY <2>2, <2>3
<1>7. ASSUME NEW q \in Prompts, Thread(q) PROVE Fits(p)
  <2>1. \E l : pc' = [pc EXCEPT ![q] = l]
    BY <1>7 DEF Thread, AcceptAndRun, Post, Cancelled, BackoffExpires, Check, StartCompaction,
                NotCompacted, CompactionSucceeds, CompactionFails, Decide, Continue, Throw, Leave, GoTo
  <2>2. CASE q # p
    <3>1. pc'[p] = pc[p]
      BY <2>1, <2>2 DEF ThreadInv
    <3>2. pc[p] # "check"
      BY <1>7, <2>2, NoneAssumption
         DEF Thread, AcceptAndRun, Post, Cancelled, BackoffExpires, Check, CompactionSucceeds, CompactionFails,
             Decide, Continue, Leave, Outside, ThreadInv, AtTurn
    <3>3. held'[p] = held[p]
      BY <1>7, <2>2 DEF Thread, AcceptAndRun, Post, Cancelled, BackoffExpires, Check, CompactionSucceeds,
                        CompactionFails, Decide, Continue, Leave, HistoryTypes
    <3> QED BY <1>2, <3>1, <3>2, <3>3
  <2>3. CASE q = p
    <3>1. CASE Post(p)
      <4>1. held'[p] = lastAssistant /\ AfterAnswer
        BY <3>1 DEF Post, HistoryTypes, AfterAnswer
      <4>2. ASSUME Overflows(lastAssistant), TailOf(transcript).role = "assistant"
            PROVE  ~ Sound(TailOf(transcript))
        <5>1. lastAssistant # NoMessage
          BY <3>1 DEF Post, KnownInv
        <5>2. ~ Sound(lastAssistant)
          BY <4>2, <5>1 DEF Overflows, Sound, Errors, HistoryTypes, Answers
        <5>3. Followed(path)
          BY <4>1, <5>2 DEF FollowInv, Owed
        <5> QED BY <4>2, <5>3, NoGoodTail
      <4>3. \/ pc' = [pc EXCEPT ![p] = "leave"]
            \/ pc' = [pc EXCEPT ![p] = "backoff"] /\ lastAssistant.what = "retryable"
            \/ pc' = [pc EXCEPT ![p] = "check"] /\ UNCHANGED transcript
        BY <3>1 DEF Post, GoTo
      <4>4. \/ pc'[p] = "leave"
            \/ pc'[p] = "backoff" /\ lastAssistant.what = "retryable"
            \/ pc'[p] = "check" /\ UNCHANGED transcript
        BY <4>3 DEF ThreadInv
      <4> QED BY <4>1, <4>2, <4>4
    <3>2. CASE Cancelled(p)
      <4>1. pc'[p] = "check" /\ pc[p] = "cancelled" /\ UNCHANGED held
        BY <3>2 DEF Cancelled, GoTo, ThreadInv
      <4> QED BY <4>1 DEF DropInv, Overflows
    <3>3. CASE ~ Post(p) /\ ~ Cancelled(p)
      <4>1. \E l : l \notin {"backoff", "cancelled", "check"} /\ pc' = [pc EXCEPT ![p] = l]
        BY <1>7, <2>3, <3>3
           DEF Thread, AcceptAndRun, BackoffExpires, Check, StartCompaction, NotCompacted, CompactionSucceeds,
               CompactionFails, Decide, Continue, Throw, Leave, GoTo
      <4> QED BY <1>1, <4>1 DEF ThreadInv
    <3> QED BY <3>1, <3>2, <3>3
  <2> QED BY <2>2, <2>3
<1> QED BY <1>3, <1>4, <1>5, <1>6, <1>7, Writers

\* The sound part of both is the same.
LEMMA MatchInductive ==
  ASSUME MaxManual = 0
  PROVE  ThreadInv /\ Heard /\ KnownInv /\ HistoryTypes /\ QueueTypes /\ KeptInv /\ FollowInv /\ DropInv /\ MatchInv
         /\ [Next]_vars => MatchInv'
<1> SUFFICES ASSUME ThreadInv, Heard, KnownInv, HistoryTypes, QueueTypes, KeptInv, FollowInv, DropInv, MatchInv,
                    [Next]_vars
             PROVE  MatchInv'
  OBVIOUS
<1>1. path \in Seq(Entries) /\ transcript \in Seq(Lines) /\ SoundOf(Context(path)) = SoundOf(transcript)
  BY DEF HistoryTypes, MatchInv
<1>2. KeptIn(path)
  <2>1. Len(path) \in Nat /\ FirstKept(path) \in Nat
    BY <1>1, FirstKeptType
  <2> QED BY <2>1 DEF KeptInv, Keeps, KeptIn
<1>3. CASE UNCHANGED <<path, transcript>>
  BY <1>1, <1>3 DEF MatchInv
<1>4. ASSUME NEW e \in Messages, path' = Append(path, e), transcript' = Append(transcript, e)
      PROVE  MatchInv'
  <2>1. SoundOf(Context(Append(path, e))) = SoundOf(Append(transcript, e))
    BY <1>1, <1>2, MatchAppend
  <2> QED BY <1>4, <2>1 DEF MatchInv
<1>5. CASE FlushBash
  <2>1. pendingBash \in Seq(Messages)
    BY DEF HistoryTypes, Messages
  <2>2. SoundOf(Context(path \o pendingBash)) = SoundOf(transcript \o pendingBash)
    BY <1>1, <1>2, <2>1, MatchFlush
  <2> QED BY <1>5, <2>2 DEF MatchInv, FlushBash
<1>6. ASSUME UNCHANGED path, transcript' = DropAssistant(transcript),
             NEW p \in Prompts, (Post(p) /\ lastAssistant.what = "retryable") \/ (Check(p) /\ Overflows(held[p]))
      PROVE  MatchInv'
  <2>1. TailOf(transcript).role = "assistant" => ~ Sound(TailOf(transcript))
    <3>1. CASE Post(p) /\ lastAssistant.what = "retryable"
      <4>1. AfterAnswer /\ lastAssistant # NoMessage
        BY <3>1 DEF Post, AfterAnswer, KnownInv
      <4>2. ~ Sound(lastAssistant)
        BY <3>1, <4>1 DEF Sound, Errors, HistoryTypes, Answers
      <4>3. Followed(path)
        BY <4>1, <4>2 DEF FollowInv, Owed
      <4> QED BY <4>3, NoGoodTail
    <3>2. CASE Check(p) /\ Overflows(held[p])
      <4>1. pc[p] = "check" /\ Overflows(held[p])
        BY <3>2 DEF Check
      <4> QED BY <4>1 DEF DropInv
    <3> QED BY <1>6, <3>1, <3>2
  <2>2. SoundOf(DropAssistant(transcript)) = SoundOf(transcript)
    BY <1>1, <2>1, SoundDrop
  <2> QED BY <1>1, <1>6, <2>2 DEF MatchInv
<1>7. ASSUME NEW p \in Prompts, CompactionSucceeds(p) PROVE MatchInv'
  <2> DEFINE t == Append(path, Compaction(compaction[p].from))
  <2>1. t \in Seq(Entries)
    <3>1. Compaction(compaction[p].from) \in Entries
      BY DEF HistoryTypes, Compaction, Entries
    <3> QED BY <1>1, <3>1
  <2>2. path' = t /\ transcript' \in {Context(t), DropError(Context(t))}
    BY <1>7 DEF CompactionSucceeds, Rebuilt
  <2> HIDE DEF t
  <2>3. SoundOf(DropError(Context(t))) = SoundOf(Context(t))
    BY <2>1, ContextType, SoundDrop
  <2> QED BY <2>2, <2>3 DEF MatchInv
<1> QED BY <1>3, <1>4, <1>5, <1>6, <1>7, HistorySteps

\* Where the session is not compacted by hand, rebuilding the context from the
\* session gives the agent's transcript back, but for the answers taken out of it
\* because they failed or overflowed, however the prompts overlap.
THEOREM SessionMatches == ASSUME MaxManual = 0 PROVE Spec => []SessionMatchesTranscript
<1>1. Init => KeptInv /\ FollowInv /\ DropInv /\ MatchInv
  <2> SUFFICES ASSUME Init PROVE KeptInv /\ FollowInv /\ DropInv /\ MatchInv
    OBVIOUS
  <2>1. path = <<>> /\ transcript = <<>> /\ \A p \in Prompts : pc[p] = "off"
    BY DEF Init
  <2>2. Context(path) = transcript /\ CompactionsOf(path) = {}
    BY <2>1 DEF Context, CompactionsOf
  <2>3. WellAsked(path) /\ Followed(path)
    BY <2>1 DEF WellAsked, Followed
  <2> QED BY <2>1, <2>2, <2>3 DEF KeptInv, FollowInv, DropInv, MatchInv
<1>2. Types /\ Heard /\ KnownInv /\ KeptInv /\ FollowInv /\ DropInv /\ MatchInv /\ [Next]_vars
        => KeptInv' /\ FollowInv' /\ DropInv' /\ MatchInv'
  BY KeptInductive, FollowInductive, DropInductive, MatchInductive DEF Types
<1>3. MatchInv => SessionMatchesTranscript
  BY DEF MatchInv, SessionMatchesTranscript, SoundOf, Sound
<1> QED BY <1>1, <1>2, <1>3, TypesHold, KnownHolds, PTL DEF Spec
=============================================================================
