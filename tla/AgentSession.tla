---------------------------- MODULE AgentSession ----------------------------
(***************************************************************************)
(* The session around the agent:                                           *)
(* packages/coding-agent/src/core/agent-session.ts.                        *)
(*                                                                         *)
(* Each call of prompt() is a thread: preflight, then agent.prompt(), then *)
(* after every run the post-run handling, which retries after a backoff,   *)
(* compacts the context, continues for queued messages, or leaves.  The    *)
(* agent is the one of AgentLoop, with one tool call per answer and queues *)
(* in one-at-a-time mode; its events reach the session only while the      *)
(* session is subscribed.  Bash commands, abort(), clearQueue() and a      *)
(* manual compact() come from outside at any moment.                       *)
(*                                                                         *)
(* The awaits between the end of a run and the next sleep, compaction or   *)
(* run are on settled promises: variable turn holds the thread whose       *)
(* continuation is running, and nothing else happens until it gives up.    *)
(***************************************************************************)
EXTENDS Naturals, Sequences, SequencesExt, FiniteSets

CONSTANTS
  Prompts,     \* the prompts: each one is a thread
  Notes,       \* steering and follow-up messages
  Bashes,      \* bash commands run by the user
  None,        \* undefined
  MaxRetries,  \* settings.retry.maxRetries
  Serial,      \* prompts are submitted one at a time, as the input loop of the
               \* interactive mode does and the RPC mode does not
  MaxAnswers,  \* bound: answers that are no plain text or exceed the threshold
  MaxManual,   \* bound: calls of compact()
  MaxAborts    \* bound: calls of abort(), abortRetry() and clearQueue()

ASSUME NoneAssumption == None \notin Prompts \cup Notes
ASSUME NumbersAssumption ==
  /\ {MaxRetries, MaxAnswers, MaxManual, MaxAborts} \subseteq Nat
  /\ Serial \in BOOLEAN

VARIABLES
  \* The agent.
  transcript,      \* agent.state.messages
  activeRun,       \* the thread whose agent.prompt() or continue() is running
  phase,           \* where the run stands
  pending,         \* the message the run has drained and not yet announced
  signalled,       \* its abort signal
  steeringQueue, followUpQueue,
  runs,            \* number of runs started
  \* The session.
  connected,       \* subscribed to the agent
  path,            \* the entries of the current branch
  lastAssistant,   \* _lastAssistantMessage
  retryAttempt,
  retryController, \* the thread whose sleep abortRetry() cancels
  overflowAttempted,
  steeringMirror, followUpMirror,
  pendingBash,
  willRetry,       \* what the last agent_end said
  \* The threads.
  pc, turn,
  stage,           \* "check": compaction check before the prompt; "before": the
                   \* continuation that follows it; "main": the prompt itself
  held,            \* the message the post-run handling looks at
  compaction,      \* the automatic compaction under way: reason, first kept entry
  \* Bash commands that have ended, manual compaction.
  recorded,
  manual, manualRun, manualKeep,
  \* Counters and history.
  sent, answers, manuals, aborts,
  retryOpen,       \* an auto_retry_start without its auto_retry_end
  overflowStreak   \* overflow compactions since a user message or a good answer

agentVars   == <<transcript, activeRun, phase, pending, signalled, runs>>
queueVars   == <<steeringQueue, followUpQueue>>
mirrorVars  == <<steeringMirror, followUpMirror>>
overflowVars == <<overflowAttempted, overflowStreak>>
retryVars   == <<retryAttempt, retryController, retryOpen>>
threadVars  == <<pc, turn, stage, held, compaction>>
manualVars  == <<connected, manual, manualRun, manualKeep, manuals>>
bashVars    == <<pendingBash, recorded>>
boundVars   == <<answers, aborts>>
vars == <<agentVars, queueVars, mirrorVars, path, lastAssistant, overflowVars, retryVars, willRetry,
          threadVars, manualVars, bashVars, boundVars, sent>>

Errors == {"retryable", "overflow", "fatal"}
Kinds  == Errors \cup {"text", "silentOverflow", "toolUse", "aborted"}
Phases == {"idle", "begin", "poll", "inject", "stream", "tools", "toolTurn", "turnEnd", "settling"}
Settled == {"done", "rejected", "failed"}

\* A compaction entry names the first entry that is kept.  gen counts the
\* compactions that precede an answer: its timestamp, compared with theirs.
IsCompaction(e)  == e.role = "compaction"
CompactionsOf(s) == {i \in DOMAIN s : IsCompaction(s[i])}
Compactions      == Cardinality(CompactionsOf(path))
User(m)          == [role |-> "user", what |-> m]
Said(k)          == [role |-> "assistant", what |-> k, gen |-> Compactions]
ToolResult       == [role |-> "toolResult"]
Bash(b)          == [role |-> "bash", what |-> b]
Summary          == [role |-> "summary"]
Compaction(k)    == [role |-> "compaction", from |-> k]
NoMessage        == [role |-> "none"]

Answers == [role : {"assistant"}, what : Kinds, gen : Nat]
Messages ==
  {User(m) : m \in Prompts \cup Notes} \cup {Bash(b) : b \in Bashes}
    \cup {ToolResult} \cup Answers

Init ==
  /\ transcript = <<>> /\ activeRun = None /\ phase = "idle" /\ pending = None
  /\ signalled = FALSE /\ steeringQueue = <<>> /\ followUpQueue = <<>> /\ runs = 0
  /\ connected = TRUE /\ path = <<>> /\ lastAssistant = NoMessage
  /\ retryAttempt = 0 /\ retryController = None /\ overflowAttempted = FALSE
  /\ steeringMirror = <<>> /\ followUpMirror = <<>> /\ pendingBash = <<>>
  /\ willRetry = FALSE
  /\ pc = [p \in Prompts |-> "off"] /\ turn = None
  /\ stage = [p \in Prompts |-> "check"] /\ held = [p \in Prompts |-> NoMessage]
  /\ compaction = [p \in Prompts |-> [reason |-> "none", from |-> 0]]
  /\ recorded = {}
  /\ manual = "off" /\ manualRun = 0 /\ manualKeep = 0
  /\ sent = {} /\ answers = 0 /\ manuals = 0 /\ aborts = 0
  /\ retryOpen = FALSE /\ overflowStreak = 0

isStreaming == activeRun # None
\* Bug: compact() waits until another run takes over.
AwaitedRunReplaced == runs # manualRun
\* The promise of waitForIdle() is the one of the run that was active.
AwaitedRunEnded == ~ (isStreaming /\ runs = manualRun)
CompactWakes == manual = "waiting" /\ AwaitedRunEnded

\* No continuation of a settled promise is waiting to run.
Outside     == turn = None /\ ~ CompactWakes
HasQueued   == steeringQueue # <<>> \/ followUpQueue # <<>>
TailOf(s)   == IF s = <<>> THEN NoMessage ELSE Last(s)

\* messages.slice(0, -1) when the tail is an assistant message.
DropAssistant(s) == IF TailOf(s).role = "assistant" THEN Front(s) ELSE s
IsError(e)       == e.role = "assistant" /\ e.what \in Errors
DropError(s)     == IF IsError(TailOf(s)) THEN Front(s) ELSE s

\* The entries of s at the places in I, in their order.  It is SelectSeq by
\* places instead of a predicate, so that lemmas about it can be stated.
Pick(s, I) ==
  LET f[n \in 0 .. Len(s)] ==
        IF n = 0 THEN <<>> ELSE IF n \in I THEN Append(f[n-1], s[n]) ELSE f[n-1]
  IN  f[Len(s)]

\* The first entry the last compaction kept, or the first one of all.
FirstKept(s) == IF CompactionsOf(s) = {} THEN 1 ELSE s[Max(CompactionsOf(s))].from

\* buildSessionContext(): the summary of the last compaction, the entries it
\* kept, the entries after it.
Context(s) ==
  IF CompactionsOf(s) = {} THEN s
  ELSE <<Summary>> \o Pick(s, {i \in FirstKept(s) .. Len(s) : ~ IsCompaction(s[i])})

\* Bug: a tool result is a cut point too.
CutAtResults(start) == {i \in start .. Len(path) : ~ IsCompaction(path[i])}
\* findCutPoint(): any entry but a tool result, as the token budget has it.
CutPoints(start) == {i \in start .. Len(path) : path[i].role \notin {"toolResult", "compaction"}}

\* prepareCompaction(): nothing to do right after a compaction; otherwise a cut
\* behind the first entry the last compaction kept.
KeepFrom ==
  IF TailOf(path).role \in {"none", "compaction"} THEN {}
  ELSE IF CutPoints(FirstKept(path)) = {} THEN {FirstKept(path)} ELSE CutPoints(FirstKept(path))

-----------------------------------------------------------------------------
(* Events of the agent, as _handleAgentEvent sees them.                    *)

\* Bug: the mirror forgets its newest message.
ForgetNewest(mirror, m) == IF m \in ToSet(mirror) THEN Front(mirror) ELSE mirror
\* The first one with the text of the message.
Forget(mirror, m) == RemoveFirst(mirror, m)

\* A user message starts and ends: the mirror forgets it, overflow recovery is
\* possible again, the session stores the message.
UserMessage(m) ==
  /\ transcript' = Append(transcript, User(m))
  /\ overflowStreak' = 0
  /\ IF connected
       THEN /\ path' = Append(path, User(m))
            /\ steeringMirror' = Forget(steeringMirror, m)
            /\ followUpMirror' = IF m \in ToSet(steeringMirror) THEN followUpMirror
                                                              ELSE Forget(followUpMirror, m)
            /\ overflowAttempted' = FALSE
       ELSE UNCHANGED <<path, mirrorVars, overflowAttempted>>

\* A good answer ends the retry and makes overflow recovery possible again.
EndsRetry(k) == k \notin Errors

AssistantMessage(k) ==
  /\ transcript' = Append(transcript, Said(k))
  /\ overflowStreak' = IF k \in Errors THEN overflowStreak ELSE 0
  /\ IF connected
       THEN /\ path' = Append(path, Said(k))
            /\ lastAssistant' = Said(k)
            /\ overflowAttempted' = (overflowAttempted /\ k \in Errors)
            /\ retryAttempt' = IF EndsRetry(k) THEN 0 ELSE retryAttempt
            /\ retryOpen' = (retryOpen /\ ~ EndsRetry(k))
       ELSE UNCHANGED <<path, lastAssistant, overflowAttempted, retryAttempt, retryOpen>>

\* Bug: announces a retry after the last attempt.
WillRetryOnceMore(k) == k = "retryable" /\ retryAttempt <= MaxRetries
\* _willRetryAfterAgentEnd, emitted with agent_end.
WillRetryAfter(k) == k = "retryable" /\ retryAttempt < MaxRetries

AgentEnd(k) ==
  /\ phase' = "settling"
  /\ willRetry' = IF connected THEN WillRetryAfter(k) ELSE willRetry

-----------------------------------------------------------------------------
(* A run of the agent, started for thread p.                               *)

StartRun(p, m, ph) ==
  /\ activeRun' = p
  /\ pending' = m
  /\ phase' = ph
  /\ signalled' = FALSE
  /\ runs' = runs + 1

\* The prompt, or the message continue() has drained, is announced.
Announce ==
  /\ phase \in {"begin", "inject"}
  /\ UserMessage(pending)
  /\ pending' = None
  /\ phase' = IF phase = "begin" THEN "poll" ELSE "stream"
  /\ UNCHANGED <<activeRun, signalled, runs, queueVars, lastAssistant, retryVars, willRetry,
                 threadVars, manualVars, bashVars, boundVars, sent>>

\* Steering messages are polled before the first answer, with nothing awaited
\* before they are announced.
FirstPoll ==
  /\ phase = "poll"
  /\ phase' = "stream"
  /\ IF steeringQueue # <<>>
       THEN UserMessage(Head(steeringQueue)) /\ steeringQueue' = Tail(steeringQueue)
       ELSE UNCHANGED <<transcript, path, mirrorVars, overflowVars, steeringQueue>>
  /\ UNCHANGED <<activeRun, pending, signalled, runs, followUpQueue, lastAssistant, retryVars,
                 willRetry, threadVars, manualVars, bashVars, boundVars, sent>>

\* Steering messages are polled after each turn, follow-ups when the agent would
\* stop; turn_start and its listeners come before they are announced.
PollQueues ==
  /\ phase \in {"toolTurn", "turnEnd"}
  /\ IF steeringQueue # <<>>
       THEN /\ pending' = Head(steeringQueue)
            /\ steeringQueue' = Tail(steeringQueue)
            /\ phase' = "inject"
            /\ UNCHANGED <<followUpQueue, willRetry>>
     ELSE IF phase # "turnEnd"
       THEN phase' = "stream" /\ UNCHANGED <<pending, queueVars, willRetry>>
     ELSE IF followUpQueue # <<>>
       THEN /\ pending' = Head(followUpQueue)
            /\ followUpQueue' = Tail(followUpQueue)
            /\ phase' = "inject"
            /\ UNCHANGED <<steeringQueue, willRetry>>
       ELSE AgentEnd("text") /\ UNCHANGED <<pending, queueVars>>
  /\ UNCHANGED <<transcript, activeRun, signalled, runs, mirrorVars, path, lastAssistant,
                 overflowVars, retryVars, threadVars, manualVars, bashVars, boundVars, sent>>

\* The provider answers; a call with a signal that is set answers "aborted".
Answer(k) ==
  /\ phase = "stream"
  /\ k = "aborted" <=> signalled
  /\ k \notin {"text", "aborted"} => answers < MaxAnswers
  /\ answers' = IF k \in {"text", "aborted"} THEN answers ELSE answers + 1
  /\ AssistantMessage(k)
  /\ CASE k \in Errors \cup {"aborted"} -> AgentEnd(k)
       [] k = "toolUse"                 -> phase' = "tools" /\ UNCHANGED willRetry
       [] OTHER                         -> phase' = "turnEnd" /\ UNCHANGED willRetry
  /\ UNCHANGED <<activeRun, pending, signalled, runs, queueVars, mirrorVars, retryController,
                 threadVars, manualVars, bashVars, aborts, sent>>

\* The tool call ends, with an error result when the run is aborted.
ToolEnds ==
  /\ phase = "tools"
  /\ phase' = "toolTurn"
  /\ transcript' = Append(transcript, ToolResult)
  /\ path' = IF connected THEN Append(path, ToolResult) ELSE path
  /\ UNCHANGED <<activeRun, pending, signalled, runs, queueVars, mirrorVars, lastAssistant,
                 overflowVars, retryVars, willRetry, threadVars, manualVars, bashVars, boundVars,
                 sent>>

\* Bug: an aborted run is never finished.
FinishesUnlessAborted == phase = "settling" /\ ~ signalled
Finishes == phase = "settling"

\* The listeners of agent_end settle; finishRun; the thread goes on.
RunEnds ==
  /\ Finishes
  /\ activeRun' = None
  /\ phase' = "idle"
  /\ turn' = activeRun
  /\ pc' = [pc EXCEPT ![activeRun] = "post"]
  /\ UNCHANGED <<transcript, pending, signalled, runs, queueVars, mirrorVars, path, lastAssistant,
                 overflowVars, retryVars, willRetry, stage, held, compaction, manualVars, bashVars,
                 boundVars, sent>>

-----------------------------------------------------------------------------
(* prompt() and the handling after each run.                               *)

\* Bug: the deferred commands stay deferred.
FlushKeeping == transcript' = transcript \o pendingBash /\ path' = path \o pendingBash
                  /\ UNCHANGED pendingBash
\* _flushPendingBashMessages
FlushBash ==
  /\ transcript' = transcript \o pendingBash
  /\ path' = path \o pendingBash
  /\ pendingBash' = <<>>

GoTo(p, l) == pc' = [pc EXCEPT ![p] = l]

\* prompt() up to the compaction check, which catches aborted answers too.
Prompt(p) ==
  /\ pc[p] = "off" /\ Outside /\ ~ isStreaming
  /\ Serial => \A q \in Prompts : pc[q] \in {"off"} \cup Settled
  /\ FlushBash
  /\ LET spoken == {i \in DOMAIN transcript' : transcript'[i].role = "assistant"} IN
       IF spoken = {}
         THEN GoTo(p, "preflight") /\ UNCHANGED <<turn, held>>
         ELSE /\ GoTo(p, "check")
              /\ turn' = p
              /\ held' = [held EXCEPT ![p] = transcript'[Max(spoken)]]
  /\ UNCHANGED <<activeRun, phase, pending, signalled, runs, queueVars, mirrorVars, lastAssistant,
                 overflowVars, retryVars, willRetry, stage, compaction, manualVars, recorded,
                 boundVars, sent>>

\* agent.prompt() or agent.continue() throws because a run is active, or
\* because there is nothing to continue.
Throw(p) ==
  /\ FlushBash
  /\ GoTo(p, IF stage[p] = "main" THEN "failed" ELSE "rejected")
  /\ turn' = None
  /\ UNCHANGED <<activeRun, phase, pending, signalled, runs, queueVars, stage>>

\* preflightResult(true), then agent.prompt().
AcceptAndRun(p) ==
  /\ pc[p] = "preflight" /\ Outside
  /\ stage' = [stage EXCEPT ![p] = "main"]
  /\ \/ /\ isStreaming
        /\ FlushBash
        /\ GoTo(p, "failed")
        /\ UNCHANGED <<activeRun, phase, pending, signalled, runs>>
     \/ /\ ~ isStreaming
        /\ StartRun(p, p, "begin")
        /\ GoTo(p, "running")
        /\ UNCHANGED <<transcript, path, pendingBash>>
  /\ UNCHANGED <<turn, queueVars, mirrorVars, lastAssistant, overflowVars, retryVars, willRetry,
                 held, compaction, manualVars, recorded, boundVars, sent>>

RetriesLeft == retryAttempt < MaxRetries

\* Bug: the series of retries is not closed by the last failure.
NeverCloses(m) == FALSE
ClosesRetry(m) == IsError(m) /\ retryAttempt > 0

\* _handlePostAgentRun and _prepareRetry up to the sleep.
Post(p) ==
  /\ turn = p /\ pc[p] = "post"
  /\ lastAssistant' = NoMessage
  /\ held' = [held EXCEPT ![p] = lastAssistant]
  /\ \/ /\ lastAssistant = NoMessage
        /\ GoTo(p, "leave")
        /\ UNCHANGED <<turn, transcript, retryVars>>
     \/ /\ lastAssistant # NoMessage /\ lastAssistant.what = "retryable" /\ RetriesLeft
        /\ retryAttempt' = retryAttempt + 1
        /\ retryOpen' = TRUE
        /\ retryController' = p
        /\ transcript' = DropAssistant(transcript)
        /\ GoTo(p, "backoff")
        /\ turn' = None
     \/ /\ lastAssistant # NoMessage
        /\ ~ (lastAssistant.what = "retryable" /\ RetriesLeft)
        /\ IF ClosesRetry(lastAssistant)
             THEN retryAttempt' = 0 /\ retryOpen' = FALSE
             ELSE UNCHANGED <<retryAttempt, retryOpen>>
        /\ GoTo(p, "check")
        /\ UNCHANGED <<turn, transcript, retryController>>
  /\ UNCHANGED <<activeRun, phase, pending, signalled, runs, queueVars, mirrorVars, path,
                 overflowVars, willRetry, stage, compaction, manualVars, bashVars, boundVars,
                 sent>>

\* The sleep of _prepareRetry ends.
BackoffExpires(p) ==
  /\ pc[p] = "backoff" /\ Outside
  /\ GoTo(p, "continue")
  /\ turn' = p
  /\ retryController' = None
  /\ UNCHANGED <<agentVars, queueVars, mirrorVars, path, lastAssistant, overflowVars, retryAttempt,
                 retryOpen, willRetry, stage, held, compaction, manualVars, bashVars, boundVars,
                 sent>>

\* The sleep was cancelled: the handling goes on as for a final error.
Cancelled(p) ==
  /\ turn = p /\ pc[p] = "cancelled"
  /\ retryAttempt' = 0
  /\ retryOpen' = FALSE
  /\ retryController' = None
  /\ GoTo(p, "check")
  /\ UNCHANGED <<agentVars, queueVars, mirrorVars, path, lastAssistant, overflowVars, willRetry,
                 turn, stage, held, compaction, manualVars, bashVars, boundVars, sent>>

-----------------------------------------------------------------------------
(* Automatic compaction.                                                   *)

\* A message older than the last compaction never triggers another one.
Current(m) == m.gen = Compactions
Overflows(m) == m.what \in {"overflow", "silentOverflow"}

\* The tokens are those of the answer, or for an error those of the last good
\* answer of the transcript, unless the last compaction made it stale.
HasUsage(e) == e.role = "assistant" /\ e.what \notin Errors \cup {"aborted"}
TokensKnown(m) ==
  IF m.what \notin Errors THEN TRUE
  ELSE LET good == {i \in DOMAIN transcript : HasUsage(transcript[i])}
       IN good # {} /\ transcript[Max(good)].gen = Compactions

\* Bug: overflow recovery is tried again and again.
NeverAttempted == FALSE
Attempted == overflowAttempted

\* No compaction took place.
NotCompacted(p) ==
  /\ GoTo(p, IF stage[p] = "check" THEN "preflight" ELSE "decide")
  /\ turn' = IF stage[p] = "check" THEN None ELSE p

\* _runAutoCompaction up to the summarisation, if there is anything to compact.
StartCompaction(p, r) ==
  \/ \E k \in KeepFrom :
       /\ compaction' = [compaction EXCEPT ![p] = [reason |-> r, from |-> k]]
       /\ GoTo(p, "compacting")
       /\ turn' = None
  \/ KeepFrom = {} /\ NotCompacted(p) /\ UNCHANGED compaction

\* _checkCompaction up to the summarisation; only the check before a prompt
\* looks at aborted answers.
Check(p) ==
  /\ turn = p /\ pc[p] = "check"
  /\ LET m       == held[p]
         skipped == (m.what = "aborted" /\ stage[p] # "check") \/ ~ Current(m)
     IN \/ /\ ~ skipped /\ Overflows(m) /\ ~ Attempted
           /\ overflowAttempted' = TRUE
           /\ transcript' = DropAssistant(transcript)
           /\ StartCompaction(p, "overflow")
           /\ UNCHANGED answers
        \/ /\ ~ skipped /\ ~ Overflows(m) /\ TokensKnown(m)
           /\ answers < MaxAnswers
           /\ answers' = answers + 1
           /\ StartCompaction(p, "threshold")
           /\ UNCHANGED <<transcript, overflowAttempted>>
        \/ /\ skipped \/ ~ Overflows(m) \/ Attempted
           /\ NotCompacted(p)
           /\ UNCHANGED <<transcript, overflowAttempted, compaction, answers>>
  /\ UNCHANGED <<activeRun, phase, pending, signalled, runs, queueVars, mirrorVars, path,
                 lastAssistant, overflowStreak, retryVars, willRetry, stage, held, manualVars,
                 bashVars, aborts, sent>>

\* Bug: the transcript is not rebuilt.
ContextIgnored(s) == transcript
Rebuilt(s) == Context(s)

\* The summary is stored and the transcript rebuilt; an overflow retries.
CompactionSucceeds(p) ==
  /\ pc[p] = "compacting" /\ Outside
  /\ LET overflow == compaction[p].reason = "overflow" IN
       /\ path' = Append(path, Compaction(compaction[p].from))
       /\ transcript' = IF overflow THEN DropError(Rebuilt(path')) ELSE Rebuilt(path')
       /\ overflowStreak' = IF overflow THEN overflowStreak + 1 ELSE overflowStreak
       /\ IF overflow \/ HasQueued
            THEN /\ GoTo(p, "continue")
                 /\ turn' = p
                 /\ stage' = [stage EXCEPT ![p] = IF @ = "check" THEN "before" ELSE @]
            ELSE NotCompacted(p) /\ UNCHANGED stage
  /\ UNCHANGED <<activeRun, phase, pending, signalled, runs, queueVars, mirrorVars, lastAssistant,
                 overflowAttempted, retryVars, willRetry, held, compaction, manualVars, bashVars,
                 boundVars, sent>>

\* The summarisation fails, or abortCompaction() cancels it.
CompactionFails(p) ==
  /\ pc[p] = "compacting" /\ Outside
  /\ NotCompacted(p)
  /\ compaction' = [compaction EXCEPT ![p].reason = "none"]
  /\ UNCHANGED <<agentVars, queueVars, mirrorVars, path, lastAssistant, overflowVars, retryVars,
                 willRetry, stage, held, manualVars, bashVars, boundVars, sent>>

\* Bug: the thread leaves whatever is queued.
LeaveAlways == TRUE
NothingQueued == ~ HasQueued

\* The last question of _handlePostAgentRun.
Decide(p) ==
  /\ turn = p /\ pc[p] = "decide"
  /\ GoTo(p, IF NothingQueued THEN "leave" ELSE "continue")
  /\ UNCHANGED <<agentVars, queueVars, mirrorVars, path, lastAssistant, overflowVars, retryVars,
                 willRetry, turn, stage, held, compaction, manualVars, bashVars, boundVars,
                 sent>>

\* agent.continue(): from an assistant message only with a queued message.
Continue(p) ==
  /\ turn = p /\ pc[p] = "continue"
  /\ LET tail == TailOf(transcript).role
         Go(m, ph) == /\ StartRun(p, m, ph)
                      /\ GoTo(p, "running")
                      /\ turn' = None
                      /\ UNCHANGED <<transcript, path, pendingBash, stage>>
     IN \/ /\ isStreaming \/ tail = "none" \/ (tail = "assistant" /\ ~ HasQueued)
           /\ Throw(p)
        \/ /\ ~ isStreaming /\ tail \notin {"none", "assistant"}
           /\ Go(None, "poll")
           /\ UNCHANGED queueVars
        \/ /\ ~ isStreaming /\ tail = "assistant" /\ steeringQueue # <<>>
           /\ Go(Head(steeringQueue), "inject")
           /\ steeringQueue' = Tail(steeringQueue)
           /\ UNCHANGED followUpQueue
        \/ /\ ~ isStreaming /\ tail = "assistant" /\ steeringQueue = <<>> /\ followUpQueue # <<>>
           /\ Go(Head(followUpQueue), "begin")
           /\ followUpQueue' = Tail(followUpQueue)
           /\ UNCHANGED steeringQueue
  /\ UNCHANGED <<mirrorVars, lastAssistant, overflowVars, retryVars, willRetry, held, compaction,
                 manualVars, recorded, boundVars, sent>>

\* The loop ends: the deferred bash commands are stored in any case.
Leave(p) ==
  /\ turn = p /\ pc[p] = "leave"
  /\ FlushBash
  /\ GoTo(p, IF stage[p] = "main" THEN "done" ELSE "preflight")
  /\ turn' = None
  /\ UNCHANGED <<activeRun, phase, pending, signalled, runs, queueVars, mirrorVars, lastAssistant,
                 overflowVars, retryVars, willRetry, stage, held, compaction, manualVars, recorded,
                 boundVars, sent>>

-----------------------------------------------------------------------------
(* Calls from outside.                                                     *)

\* steer() and followUp(): the text goes to the mirror, the message to the agent.
Steer(m) ==
  /\ Outside /\ m \notin sent
  /\ sent' = sent \cup {m}
  /\ steeringMirror' = Append(steeringMirror, m)
  /\ steeringQueue' = Append(steeringQueue, m)
  /\ UNCHANGED <<agentVars, followUpQueue, followUpMirror, path, lastAssistant, overflowVars,
                 retryVars, willRetry, threadVars, manualVars, bashVars, boundVars>>

FollowUp(m) ==
  /\ Outside /\ m \notin sent
  /\ sent' = sent \cup {m}
  /\ followUpMirror' = Append(followUpMirror, m)
  /\ followUpQueue' = Append(followUpQueue, m)
  /\ UNCHANGED <<agentVars, steeringQueue, steeringMirror, path, lastAssistant, overflowVars,
                 retryVars, willRetry, threadVars, manualVars, bashVars, boundVars>>

\* clearQueue() returns the mirrors and empties them and the queues.
ClearQueue ==
  /\ Outside /\ aborts < MaxAborts
  /\ steeringMirror \o followUpMirror # <<>>
  /\ aborts' = aborts + 1
  /\ steeringMirror' = <<>> /\ followUpMirror' = <<>>
  /\ steeringQueue' = <<>> /\ followUpQueue' = <<>>
  /\ UNCHANGED <<agentVars, path, lastAssistant, overflowVars, retryVars, willRetry, threadVars,
                 manualVars, bashVars, answers, sent>>

\* abortRetry() wakes the sleeper of the current controller.
CancelSleep ==
  IF retryController # None
    THEN /\ pc' = [pc EXCEPT ![retryController] = "cancelled"]
         /\ turn' = retryController
    ELSE UNCHANGED <<pc, turn>>

AbortRetry ==
  /\ Outside /\ aborts < MaxAborts /\ retryController # None
  /\ aborts' = aborts + 1
  /\ CancelSleep
  /\ UNCHANGED <<agentVars, queueVars, mirrorVars, path, lastAssistant, overflowVars, retryVars,
                 willRetry, stage, held, compaction, manualVars, bashVars, answers,
                 sent>>

\* abort(): the sleep, then the run if there is one.
Abort ==
  /\ Outside /\ aborts < MaxAborts
  /\ aborts' = aborts + 1
  /\ CancelSleep
  /\ signalled' = (signalled \/ isStreaming)
  /\ UNCHANGED <<transcript, activeRun, phase, pending, runs, queueVars, mirrorVars, path,
                 lastAssistant, overflowVars, retryVars, willRetry, stage, held, compaction,
                 manualVars, bashVars, answers, sent>>

Deferred == isStreaming

\* A command ends: recordBashResult, deferred while the agent runs.
RecordBash(b) ==
  /\ Outside /\ b \notin recorded
  /\ recorded' = recorded \cup {b}
  /\ IF Deferred
       THEN pendingBash' = Append(pendingBash, Bash(b)) /\ UNCHANGED <<transcript, path>>
       ELSE /\ transcript' = Append(transcript, Bash(b))
            /\ path' = Append(path, Bash(b))
            /\ UNCHANGED pendingBash
  /\ UNCHANGED <<activeRun, phase, pending, signalled, runs, queueVars, mirrorVars, lastAssistant,
                 overflowVars, retryVars, willRetry, threadVars, manualVars, boundVars, sent>>

-----------------------------------------------------------------------------
(* compact(): the session leaves the agent, aborts it, waits for its run.  *)

CompactCalled ==
  /\ Outside /\ manual = "off" /\ manuals < MaxManual
  /\ manuals' = manuals + 1
  /\ connected' = FALSE
  /\ manual' = "waiting"
  /\ manualRun' = IF isStreaming THEN runs ELSE 0
  /\ CancelSleep
  /\ signalled' = (signalled \/ isStreaming)
  /\ UNCHANGED <<transcript, activeRun, phase, pending, runs, queueVars, mirrorVars, path,
                 lastAssistant, overflowVars, retryVars, willRetry, stage, held, compaction,
                 manualKeep, bashVars, boundVars, sent>>

CompactBegins ==
  /\ CompactWakes
  /\ manual' = "summarising"
  /\ \E k \in KeepFrom : manualKeep' = k
  /\ UNCHANGED <<agentVars, queueVars, mirrorVars, path, lastAssistant, overflowVars, retryVars,
                 willRetry, threadVars, connected, manualRun, manuals, bashVars, boundVars,
                 sent>>

CompactSucceeds ==
  /\ manual = "summarising" /\ Outside
  /\ path' = Append(path, Compaction(manualKeep))
  /\ transcript' = Context(path')
  /\ manual' = "off"
  /\ connected' = TRUE
  /\ UNCHANGED <<activeRun, phase, pending, signalled, runs, queueVars, mirrorVars, lastAssistant,
                 overflowVars, retryVars, willRetry, threadVars, manualRun, manualKeep, manuals,
                 bashVars, boundVars, sent>>

\* Nothing to compact, a failure, or abortCompaction(): finally reconnects.
CompactFails ==
  /\ (manual = "summarising" /\ Outside) \/ CompactWakes
  /\ manual' = "off"
  /\ connected' = TRUE
  /\ UNCHANGED <<agentVars, queueVars, mirrorVars, path, lastAssistant, overflowVars, retryVars,
                 willRetry, threadVars, manualRun, manualKeep, manuals, bashVars, boundVars,
                 sent>>

-----------------------------------------------------------------------------
AgentStep ==
  /\ Outside
  /\ Announce \/ FirstPoll \/ PollQueues \/ (\E k \in Kinds : Answer(k)) \/ ToolEnds \/ RunEnds

Thread(p) ==
  \/ AcceptAndRun(p) \/ Post(p) \/ Cancelled(p) \/ BackoffExpires(p) \/ Check(p)
  \/ CompactionSucceeds(p) \/ CompactionFails(p) \/ Decide(p) \/ Continue(p) \/ Leave(p)

Manual == CompactBegins \/ CompactSucceeds \/ CompactFails

Next ==
  \/ AgentStep
  \/ \E p \in Prompts : Prompt(p) \/ Thread(p)
  \/ \E m \in Notes : Steer(m) \/ FollowUp(m)
  \/ ClearQueue \/ AbortRetry \/ Abort
  \/ \E b \in Bashes : RecordBash(b)
  \/ CompactCalled \/ Manual

Spec == Init /\ [][Next]_vars

\* The provider and the tools answer, timers expire, promise reactions run.
FairSpec ==
  /\ Spec
  /\ WF_vars(AgentStep)
  /\ \A p \in Prompts : WF_vars(Thread(p))
  /\ WF_vars(Manual)

-----------------------------------------------------------------------------
(* Properties.                                                             *)

TypeOK ==
  /\ transcript \in Seq(Messages \cup {Summary})
  /\ path \in Seq(Messages \cup [role : {"compaction"}, from : Nat])
  /\ activeRun \in Prompts \cup {None} /\ phase \in Phases
  /\ phase = "idle" <=> activeRun = None
  /\ pending # None <=> phase \in {"begin", "inject"}
  /\ pending \in Prompts \cup Notes \cup {None} /\ signalled \in BOOLEAN
  /\ {steeringQueue, followUpQueue, steeringMirror, followUpMirror} \subseteq Seq(Notes)
  /\ {runs, retryAttempt, overflowStreak, answers, manuals, aborts} \subseteq Nat
  /\ connected \in BOOLEAN /\ lastAssistant \in Answers \cup {NoMessage}
  /\ retryController \in Prompts \cup {None} /\ overflowAttempted \in BOOLEAN
  /\ pendingBash \in Seq({Bash(b) : b \in Bashes}) /\ willRetry \in BOOLEAN
  /\ pc \in [Prompts -> Settled \cup
       {"off", "preflight", "running", "post", "backoff", "cancelled", "check", "compacting",
        "decide", "continue", "leave"}]
  /\ turn \in Prompts \cup {None} /\ stage \in [Prompts -> {"check", "before", "main"}]
  /\ held \in [Prompts -> Answers \cup {NoMessage}]
  /\ compaction \in [Prompts -> [reason : {"none", "overflow", "threshold"}, from : Nat]]
  /\ recorded \subseteq Bashes
  /\ manual \in {"off", "waiting", "summarising"} /\ manualRun \in Nat /\ manualKeep \in Nat
  /\ sent \subseteq Notes /\ retryOpen \in BOOLEAN

\* A tool result directly follows the call it answers in the agent's
\* transcript: compaction never cuts between them, and a bash command that ends
\* meanwhile waits (agent-session.ts:2994).
ResultFollowsCall ==
  \A i \in DOMAIN transcript : transcript[i].role = "toolResult" =>
    i > 1 /\ transcript[i-1].role = "assistant" /\ transcript[i-1].what = "toolUse"

\* What the session would rebuild is what the agent has, but for the failed and
\* overflowing answers taken out of the agent's transcript for a retry.
SessionMatchesTranscript ==
  LET Sound(e)   == e.role = "assistant" => e.what \notin Errors \cup {"silentOverflow"}
      SoundOf(s) == Pick(s, {i \in DOMAIN s : Sound(s[i])})
  IN SoundOf(Context(path)) = SoundOf(transcript)

\* The mirrors show exactly what the agent's queues hold, in the same order, and
\* besides it at most the message being delivered, in front until it is announced.
MirrorMatchesQueue ==
  \/ /\ steeringMirror = steeringQueue
     /\ followUpMirror = followUpQueue
  \/ /\ pending # None
     /\ \/ steeringMirror = <<pending>> \o steeringQueue /\ followUpMirror = followUpQueue
        \/ steeringMirror = steeringQueue /\ followUpMirror = <<pending>> \o followUpQueue

AtRest == \A p \in Prompts : pc[p] \in {"off"} \cup Settled

\* Every announced retry is closed, as a success or a failure, by the time the
\* prompt returns, and the next prompt starts with all its attempts.
RetryClosedAtRest == AtRest => ~ retryOpen /\ retryAttempt = 0

\* One overflow compaction, then the failure is final: no compaction loop
\* without a user message or a good answer in between.
OverflowOnce == overflowStreak <= 1

\* The result of a bash command is stored once, or waits: deferring and
\* flushing neither lose nor repeat it, whichever thread flushes.
BashRecordedOnce ==
  LET kept == path \o pendingBash
  IN \A b \in recorded : Cardinality({i \in DOMAIN kept : kept[i] = Bash(b)}) = 1

\* The thread that leaves leaves no queued message behind.
NothingLeftBehind == [][\A p \in Prompts : pc[p] = "leave" /\ pc'[p] # "leave" => ~ HasQueued]_vars

\* agent_end said willRetry exactly when the thread then announces a retry.
WillRetryHonoured ==
  [][\A p \in Prompts : pc[p] = "post" /\ pc'[p] # "post" => (pc'[p] = "backoff" <=> willRetry)]_vars

\* Every prompt returns; abort, retry and compaction never strand it.
PromptsSettle == \A p \in Prompts : pc[p] # "off" ~> pc[p] \in Settled

\* compact() returns, and the session is subscribed again.
CompactSettles == manual # "off" ~> manual = "off" /\ connected
=============================================================================
