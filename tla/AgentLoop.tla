------------------------------ MODULE AgentLoop ------------------------------
(***************************************************************************)
(* The agent and its loop: packages/agent/src/agent.ts and agent-loop.ts.  *)
(*                                                                         *)
(* A run (prompt or continue) injects its prompts, polls the steering      *)
(* queue, and then takes turns: pending messages are injected, the model   *)
(* answers, the tool calls of the answer are executed, sequentially or in  *)
(* parallel, and the queues are polled again.  While a run awaits anything *)
(* (the provider, a tool, a listener), the owner of the agent may steer,   *)
(* queue a follow-up, clear the queues, abort or reset.                    *)
(*                                                                         *)
(* The code between two awaits is one step.  Two emits with nothing read   *)
(* between them are one step as well.  A run is a process of its own, with *)
(* its local variables, so that nothing but the guards of the code keeps   *)
(* two runs apart.                                                         *)
(***************************************************************************)
EXTENDS Naturals, Sequences, SequencesExt

CONSTANTS
  Msgs,            \* user messages; each one is sent once
  SteeringMode,    \* "all" or "one-at-a-time"
  FollowUpMode,    \* "all" or "one-at-a-time"
  ExecutionModes,  \* the modes a batch of tool calls may get
  MaxRuns,         \* bound: runs
  MaxCalls,        \* bound: tool calls the model makes in all
  MaxFailures,     \* bound: exceptions thrown by listeners, hooks and streamFn
  MaxResets        \* bound: calls of reset()

QueueModes == {"all", "one-at-a-time"}

ASSUME ModesAssumption ==
  /\ SteeringMode \in QueueModes
  /\ FollowUpMode \in QueueModes
  /\ ExecutionModes \subseteq {"sequential", "parallel"}
ASSUME BoundsAssumption == {MaxRuns, MaxCalls, MaxFailures, MaxResets} \subseteq Nat

Runs  == 1 .. MaxRuns
Calls == 1 .. MaxCalls

VARIABLES
  \* The state of the Agent object.
  transcript,        \* _state.messages
  isStreaming,       \* _state.isStreaming
  pendingToolCalls,  \* _state.pendingToolCalls
  steeringQueue,
  followUpQueue,
  activeRun,         \* the active run, 0 when undefined
  aborted,           \* the runs whose abort signal is set
  \* The local variables of each run.
  pc,
  pending,           \* the prompts, then pendingMessages
  context,           \* currentContext.messages
  skipPoll,          \* skipInitialSteeringPoll
  batch,             \* the tool calls of the last answer
  mode,              \* the execution mode of the batch
  announced,         \* calls of the batch announced by tool_execution_start
  reported,          \* calls of the batch whose result message is emitted
  hasMoreToolCalls,
  \* The tool calls.
  callState,
  owner,             \* the run of each call
  \* Counters.
  runs, nextCall, failures, resets,
  \* What the listeners saw last, and history.
  event,
  lane,              \* how each message was accepted
  acceptedAt,        \* when: a position in the order of acceptance
  accepted,          \* number of messages accepted
  delivered,         \* user messages in the order of injection
  discarded,         \* messages cleared, reset away, or lost by a failed run
  failedRuns         \* runs in which something was thrown

agentVars   == <<transcript, isStreaming, pendingToolCalls>>
queueVars   == <<steeringQueue, followUpQueue>>
batchVars   == <<batch, mode, announced, reported>>
loopVars    == <<pending, context, skipPoll, hasMoreToolCalls>>
callVars    == <<callState, owner, nextCall>>
acceptVars  == <<lane, acceptedAt, accepted>>
vars == <<agentVars, queueVars, activeRun, aborted, pc, loopVars, batchVars, callVars,
          runs, failures, resets, event, acceptVars, delivered, discarded, failedRuns>>

User(m)            == [role |-> "user", msg |-> m]
Answer(r, s, cs)   == [role |-> "assistant", run |-> r, stop |-> s, calls |-> cs]
ResultOf(c)        == [role |-> "toolResult", call |-> c]
Event(t, r)        == [type |-> t, run |-> r]

Entries ==
  [role : {"user"}, msg : Msgs]
    \cup [role : {"assistant"}, run : Runs, stop : {"stop", "toolUse", "error", "aborted"},
          calls : Seq(Calls)]
    \cup [role : {"toolResult"}, call : Calls]

Init ==
  /\ transcript = <<>>
  /\ isStreaming = FALSE
  /\ pendingToolCalls = {}
  /\ steeringQueue = <<>>
  /\ followUpQueue = <<>>
  /\ activeRun = 0
  /\ aborted = {}
  /\ pc = [r \in Runs |-> "off"]
  /\ pending = [r \in Runs |-> <<>>]
  /\ context = [r \in Runs |-> <<>>]
  /\ skipPoll = [r \in Runs |-> FALSE]
  /\ batch = [r \in Runs |-> <<>>]
  /\ mode = [r \in Runs |-> "none"]
  /\ announced = [r \in Runs |-> 0]
  /\ reported = [r \in Runs |-> 0]
  /\ hasMoreToolCalls = [r \in Runs |-> TRUE]
  /\ callState = [c \in Calls |-> "none"]
  /\ owner = [c \in Calls |-> 0]
  /\ runs = 0 /\ nextCall = 1 /\ failures = 0 /\ resets = 0
  /\ event = Event("none", 0)
  /\ lane = [m \in Msgs |-> "none"]
  /\ acceptedAt = [m \in Msgs |-> 0]
  /\ accepted = 0
  /\ delivered = <<>>
  /\ discarded = {}
  /\ failedRuns = {}

-----------------------------------------------------------------------------
(* The queues.  Each message is accepted once, in one way.                 *)

Accepted(m, l) ==
  /\ lane[m] = "none"
  /\ lane' = [lane EXCEPT ![m] = l]
  /\ acceptedAt' = [acceptedAt EXCEPT ![m] = accepted + 1]
  /\ accepted' = accepted + 1

Steer(m) ==
  /\ Accepted(m, "steering")
  /\ steeringQueue' = Append(steeringQueue, m)
  /\ UNCHANGED <<agentVars, followUpQueue, activeRun, aborted, pc, loopVars, batchVars, callVars,
                 runs, failures, resets, event, delivered, discarded, failedRuns>>

FollowUp(m) ==
  /\ Accepted(m, "followUp")
  /\ followUpQueue' = Append(followUpQueue, m)
  /\ UNCHANGED <<agentVars, steeringQueue, activeRun, aborted, pc, loopVars, batchVars, callVars,
                 runs, failures, resets, event, delivered, discarded, failedRuns>>

ClearSteeringQueue ==
  /\ steeringQueue # <<>>
  /\ steeringQueue' = <<>>
  /\ discarded' = discarded \cup ToSet(steeringQueue)
  /\ UNCHANGED <<agentVars, followUpQueue, activeRun, aborted, pc, loopVars, batchVars, callVars,
                 runs, failures, resets, event, acceptVars, delivered, failedRuns>>

ClearFollowUpQueue ==
  /\ followUpQueue # <<>>
  /\ followUpQueue' = <<>>
  /\ discarded' = discarded \cup ToSet(followUpQueue)
  /\ UNCHANGED <<agentVars, steeringQueue, activeRun, aborted, pc, loopVars, batchVars, callVars,
                 runs, failures, resets, event, acceptVars, delivered, failedRuns>>

\* Bug: the one-at-a-time mode leaves the message it takes in the queue.
LeftKeepingHead(q, m) == IF m = "all" THEN <<>> ELSE q

\* Bug: the newest message is taken first.
TakenNewest(q, m) == IF m = "all" \/ q = <<>> THEN q ELSE <<Last(q)>>

\* PendingMessageQueue.drain(): what it returns, and what it leaves.
Taken(q, m) == IF m = "all" \/ q = <<>> THEN q ELSE <<Head(q)>>
Left(q, m)  == IF m = "all" \/ q = <<>> THEN <<>> ELSE Tail(q)

-----------------------------------------------------------------------------
(* Starting a run.                                                         *)

\* Bug: prompt() does not look for an active run.
AlwaysIdle == TRUE

\* prompt() and continue() throw while a run is active.
Idle == activeRun = 0

\* runWithLifecycle, up to the first await of the executor.
StartRun(msgs, skip) ==
  LET r == runs + 1 IN
  /\ Idle
  /\ r \in Runs
  /\ runs' = r
  /\ activeRun' = r
  /\ isStreaming' = TRUE
  /\ pc' = [pc EXCEPT ![r] = "begin"]
  /\ pending' = [pending EXCEPT ![r] = msgs]
  /\ context' = [context EXCEPT ![r] = transcript]
  /\ skipPoll' = [skipPoll EXCEPT ![r] = skip]
  /\ event' = Event("agent_start", r)
  /\ UNCHANGED <<transcript, pendingToolCalls, aborted, hasMoreToolCalls, batchVars, callVars,
                 failures, resets, delivered, discarded, failedRuns>>

Prompt(m) ==
  /\ Accepted(m, "prompt")
  /\ StartRun(<<m>>, FALSE)
  /\ UNCHANGED queueVars

LastRole == IF transcript = <<>> THEN "none" ELSE Last(transcript).role

\* continue(): from a user or tool-result tail, or by draining a queue.
Continue ==
  /\ \/ /\ LastRole \notin {"none", "assistant"}
        /\ StartRun(<<>>, FALSE)
        /\ UNCHANGED queueVars
     \/ /\ LastRole = "assistant"
        /\ steeringQueue # <<>>
        /\ StartRun(Taken(steeringQueue, SteeringMode), TRUE)
        /\ steeringQueue' = Left(steeringQueue, SteeringMode)
        /\ UNCHANGED followUpQueue
     \/ /\ LastRole = "assistant"
        /\ steeringQueue = <<>>
        /\ followUpQueue # <<>>
        /\ StartRun(Taken(followUpQueue, FollowUpMode), FALSE)
        /\ followUpQueue' = Left(followUpQueue, FollowUpMode)
        /\ UNCHANGED steeringQueue
  /\ UNCHANGED acceptVars

Abort ==
  /\ activeRun # 0
  /\ aborted' = aborted \cup {activeRun}
  /\ UNCHANGED <<agentVars, queueVars, activeRun, pc, loopVars, batchVars, callVars,
                 runs, failures, resets, event, acceptVars, delivered, discarded, failedRuns>>

\* reset() does not ask whether a run is active, and does not end it.
Reset ==
  /\ resets < MaxResets
  /\ resets' = resets + 1
  /\ transcript' = <<>>
  /\ isStreaming' = FALSE
  /\ pendingToolCalls' = {}
  /\ steeringQueue' = <<>>
  /\ followUpQueue' = <<>>
  /\ discarded' = discarded \cup ToSet(steeringQueue) \cup ToSet(followUpQueue)
  /\ UNCHANGED <<activeRun, aborted, pc, loopVars, batchVars, callVars,
                 runs, failures, event, acceptVars, delivered, failedRuns>>

-----------------------------------------------------------------------------
(* One run: prompts, polls and turns.                                      *)

\* message_start and message_end of a prompt, a steering or a follow-up message.
Inject(r) ==
  /\ pc[r] \in {"begin", "inject"}
  /\ pending[r] # <<>>
  /\ LET m == Head(pending[r]) IN
       /\ transcript' = Append(transcript, User(m))
       /\ context' = [context EXCEPT ![r] = Append(@, User(m))]
       /\ delivered' = Append(delivered, m)
  /\ pending' = [pending EXCEPT ![r] = Tail(@)]
  /\ event' = Event("message_end", r)
  /\ UNCHANGED <<isStreaming, pendingToolCalls, queueVars, activeRun, aborted, pc, skipPoll,
                 hasMoreToolCalls, batchVars, callVars, runs, failures, resets, acceptVars,
                 discarded, failedRuns>>

\* The steering poll at the start of runLoop, skipped once when asked.
FirstPoll(r) ==
  /\ pc[r] = "begin"
  /\ pending[r] = <<>>
  /\ pc' = [pc EXCEPT ![r] = "inject"]
  /\ IF skipPoll[r]
       THEN UNCHANGED <<pending, steeringQueue>>
       ELSE /\ pending' = [pending EXCEPT ![r] = Taken(steeringQueue, SteeringMode)]
            /\ steeringQueue' = Left(steeringQueue, SteeringMode)
  /\ UNCHANGED <<agentVars, followUpQueue, activeRun, aborted, context, skipPoll, hasMoreToolCalls,
                 batchVars, callVars, runs, failures, resets, event, acceptVars, delivered,
                 discarded, failedRuns>>

\* streamAssistantResponse calls the provider with the context and the signal.
\* A provider called with a signal that is already set answers "aborted".
CallProvider(r) ==
  /\ pc[r] = "inject"
  /\ pending[r] = <<>>
  /\ pc' = [pc EXCEPT ![r] = IF r \in aborted THEN "cancelled" ELSE "stream"]
  /\ UNCHANGED <<agentVars, queueVars, activeRun, aborted, loopVars, batchVars, callVars,
                 runs, failures, resets, event, acceptVars, delivered, discarded, failedRuns>>

AddAnswer(r, a) ==
  /\ transcript' = Append(transcript, a)
  /\ context' = [context EXCEPT ![r] = Append(@, a)]

\* The provider reports an error, or that it was aborted: turn_end and agent_end
\* follow, without a poll.
AnswerFails(r) ==
  /\ pc[r] \in {"stream", "cancelled"}
  /\ \/ pc[r] = "stream" /\ AddAnswer(r, Answer(r, "error", <<>>))
     \/ r \in aborted /\ AddAnswer(r, Answer(r, "aborted", <<>>))
  /\ pc' = [pc EXCEPT ![r] = "ending"]
  /\ event' = Event("agent_end", r)
  /\ hasMoreToolCalls' = [hasMoreToolCalls EXCEPT ![r] = FALSE]
  /\ UNCHANGED <<isStreaming, pendingToolCalls, queueVars, activeRun, aborted, pending, skipPoll,
                 batchVars, callVars, runs, failures, resets, acceptVars,
                 delivered, discarded, failedRuns>>

\* The model answers without tool calls: turn_end follows.
AnswerText(r) ==
  /\ pc[r] = "stream"
  /\ AddAnswer(r, Answer(r, "stop", <<>>))
  /\ pc' = [pc EXCEPT ![r] = "turnEnd"]
  /\ event' = Event("turn_end", r)
  /\ hasMoreToolCalls' = [hasMoreToolCalls EXCEPT ![r] = FALSE]
  /\ UNCHANGED <<isStreaming, pendingToolCalls, queueVars, activeRun, aborted, pending, skipPoll,
                 batchVars, callVars, runs, failures, resets, acceptVars,
                 delivered, discarded, failedRuns>>

\* The model asks for n tools; the batch is sequential when the configuration
\* or one of the tools says so.
AnswerCalls(r, n, m) ==
  /\ pc[r] = "stream"
  /\ nextCall + n <= MaxCalls + 1
  /\ LET cs == [i \in 1 .. n |-> nextCall + i - 1] IN
       /\ AddAnswer(r, Answer(r, "toolUse", cs))
       /\ batch' = [batch EXCEPT ![r] = cs]
       /\ owner' = [c \in Calls |-> IF c \in ToSet(cs) THEN r ELSE owner[c]]
  /\ nextCall' = nextCall + n
  /\ mode' = [mode EXCEPT ![r] = m]
  /\ announced' = [announced EXCEPT ![r] = 0]
  /\ reported' = [reported EXCEPT ![r] = 0]
  /\ pc' = [pc EXCEPT ![r] = "prepare"]
  /\ event' = Event("message_end", r)
  /\ UNCHANGED <<isStreaming, pendingToolCalls, queueVars, activeRun, aborted, pending, skipPoll,
                 hasMoreToolCalls, callState, runs, failures, resets, acceptVars,
                 delivered, discarded, failedRuns>>

-----------------------------------------------------------------------------
(* One batch of tool calls.                                                *)

Ended(c) == callState[c] \in {"immediate", "finalized"}

AnnouncedCalls(r) == {batch[r][i] : i \in 1 .. announced[r]}

\* Bug: a call that fails at once cuts its batch short.
CutByImmediate(r) ==
  announced[r] > 0 /\ callState[batch[r][announced[r]]] = "immediate"

\* The loops over the calls break, after a call, once the signal is set.
Cut(r) == announced[r] > 0 /\ r \in aborted

\* Before the first call of a batch, before the next call of a parallel one, and
\* after the result message of a call of a sequential one.
BetweenCalls(r) ==
  \/ pc[r] = "prepare"
  \/ pc[r] = "report" /\ mode[r] = "sequential" /\ reported[r] = announced[r]

\* tool_execution_start, and prepareToolCall: unknown tools, invalid arguments,
\* blocked calls and aborted runs give an immediate result, whose
\* tool_execution_end follows at once; any other call is prepared, and executed
\* right away when the batch is sequential.
PrepareCall(r) ==
  /\ BetweenCalls(r)
  /\ announced[r] < Len(batch[r])
  /\ ~ Cut(r)
  /\ LET c == batch[r][announced[r] + 1] IN
       \/ /\ callState' = [callState EXCEPT ![c] = "immediate"]
          /\ pendingToolCalls' = pendingToolCalls \ {c}
          /\ event' = Event("tool_execution_end", r)
          /\ pc' = IF mode[r] = "sequential" THEN [pc EXCEPT ![r] = "report"] ELSE pc
       \/ /\ r \notin aborted
          /\ callState' = [callState EXCEPT ![c] = IF mode[r] = "sequential" THEN "executing"
                                                                             ELSE "prepared"]
          /\ pendingToolCalls' = pendingToolCalls \cup {c}
          /\ event' = Event("tool_execution_start", r)
          /\ pc' = IF mode[r] = "sequential" THEN [pc EXCEPT ![r] = "execute"] ELSE pc
  /\ announced' = [announced EXCEPT ![r] = @ + 1]
  /\ UNCHANGED <<transcript, isStreaming, queueVars, activeRun, aborted, loopVars, batch, mode,
                 reported, owner, nextCall, runs, failures, resets, acceptVars, delivered,
                 discarded, failedRuns>>

\* Parallel: when all calls are prepared, or the loop broke, the prepared ones
\* start together.
LaunchAll(r) ==
  /\ pc[r] = "prepare"
  /\ mode[r] = "parallel"
  /\ announced[r] = Len(batch[r]) \/ Cut(r)
  /\ callState' = [c \in Calls |-> IF c \in AnnouncedCalls(r) /\ callState[c] = "prepared"
                                     THEN "executing" ELSE callState[c]]
  /\ pc' = [pc EXCEPT ![r] = "execute"]
  /\ UNCHANGED <<agentVars, queueVars, activeRun, aborted, loopVars, batchVars, owner, nextCall,
                 runs, failures, resets, event, acceptVars, delivered, discarded, failedRuns>>

\* The tool returns or throws, afterToolCall runs, and tool_execution_end is
\* processed.  Nothing stops a tool whose run has failed in the meantime: its
\* event reaches the listeners if some run is active, and is refused otherwise.
ToolEnds(c) ==
  /\ callState[c] = "executing"
  /\ callState' = [callState EXCEPT ![c] = "finalized"]
  /\ pendingToolCalls' = pendingToolCalls \ {c}
  /\ event' = IF activeRun = 0 THEN event ELSE Event("tool_execution_end", activeRun)
  /\ UNCHANGED <<transcript, isStreaming, queueVars, activeRun, aborted, pc, loopVars, batchVars,
                 owner, nextCall, runs, failures, resets, acceptVars, delivered, discarded,
                 failedRuns>>

\* Bug: the batch is over with the first tool that ends.
AnyEnded(r) == \E c \in AnnouncedCalls(r) : Ended(c)

\* Bug: the calls behind the break are awaited as well.
WholeBatchEnded(r) == \A c \in ToSet(batch[r]) : Ended(c)

\* Promise.all over the batch, or the await of the one sequential call.
AllEnded(r) == \A c \in AnnouncedCalls(r) : Ended(c)

Join(r) ==
  /\ pc[r] = "execute"
  /\ AllEnded(r)
  /\ pc' = [pc EXCEPT ![r] = "report"]
  /\ UNCHANGED <<agentVars, queueVars, activeRun, aborted, loopVars, batchVars, callVars,
                 runs, failures, resets, event, acceptVars, delivered, discarded, failedRuns>>

\* Bug: the results of a parallel batch are emitted last call first.
ReportedLast(r) == batch[r][announced[r] - reported[r]]

\* The call whose result message comes next: in the order of the answer.
ReportedNext(r) == batch[r][reported[r] + 1]

\* emitToolResultMessage.
Report(r) ==
  /\ pc[r] = "report"
  /\ reported[r] < announced[r]
  /\ transcript' = Append(transcript, ResultOf(ReportedNext(r)))
  /\ reported' = [reported EXCEPT ![r] = @ + 1]
  /\ event' = Event("message_end", r)
  /\ UNCHANGED <<isStreaming, pendingToolCalls, queueVars, activeRun, aborted, pc, loopVars,
                 batch, mode, announced, callVars, runs, failures, resets, acceptVars, delivered,
                 discarded, failedRuns>>

\* Bug: the results are not given to the model.
NoResults(r) == <<>>

\* toolResults: what the loop appends to currentContext.messages.
Results(r) == [i \in 1 .. reported[r] |-> ResultOf(batch[r][i])]

\* The batch is over: turn_end.  The run stops calling the model only when
\* every result says terminate, which an immediate result never does.
CloseBatch(r) ==
  /\ pc[r] = "report"
  /\ reported[r] = announced[r]
  /\ mode[r] = "parallel" \/ announced[r] = Len(batch[r]) \/ Cut(r)
  /\ context' = [context EXCEPT ![r] = @ \o Results(r)]
  /\ \E terminate \in BOOLEAN :
       /\ terminate => \A c \in AnnouncedCalls(r) : callState[c] = "finalized"
       /\ hasMoreToolCalls' = [hasMoreToolCalls EXCEPT ![r] = ~ terminate]
  /\ batch' = [batch EXCEPT ![r] = <<>>]
  /\ mode' = [mode EXCEPT ![r] = "none"]
  /\ announced' = [announced EXCEPT ![r] = 0]
  /\ reported' = [reported EXCEPT ![r] = 0]
  /\ pc' = [pc EXCEPT ![r] = "turnEnd"]
  /\ event' = Event("turn_end", r)
  /\ UNCHANGED <<agentVars, queueVars, activeRun, aborted, pending, skipPoll, callVars,
                 runs, failures, resets, acceptVars, delivered, discarded, failedRuns>>

-----------------------------------------------------------------------------
(* The end of a turn, and of a run.                                        *)

\* Bug: a turn without tool calls goes straight to the follow-up queue.
NoMoreCalls(r) == ~ hasMoreToolCalls[r]

\* Follow-ups are polled when the agent would otherwise stop.
WouldStop(r) == ~ hasMoreToolCalls[r] /\ steeringQueue = <<>>

\* After turn_end: poll the steering queue, then, when there is nothing to go
\* on with, the follow-up queue, and stop when that is empty too.  Both polls
\* return settled promises: no other task runs between them.
Poll(r) ==
  /\ pc[r] = "turnEnd"
  /\ IF ~ WouldStop(r)
       THEN /\ pending' = [pending EXCEPT ![r] = Taken(steeringQueue, SteeringMode)]
            /\ steeringQueue' = Left(steeringQueue, SteeringMode)
            /\ pc' = [pc EXCEPT ![r] = "inject"]
            /\ UNCHANGED <<followUpQueue, event>>
       ELSE /\ pending' = [pending EXCEPT ![r] = Taken(followUpQueue, FollowUpMode)]
            /\ followUpQueue' = Left(followUpQueue, FollowUpMode)
            /\ IF followUpQueue # <<>>
                 THEN pc' = [pc EXCEPT ![r] = "inject"] /\ UNCHANGED event
                 ELSE pc' = [pc EXCEPT ![r] = "ending"] /\ event' = Event("agent_end", r)
            /\ UNCHANGED steeringQueue
  /\ UNCHANGED <<agentVars, activeRun, aborted, context, skipPoll, hasMoreToolCalls, batchVars,
                 callVars, runs, failures, resets, acceptVars, delivered, discarded, failedRuns>>

\* The calls the run awaits while tools execute: the last one of a sequential
\* batch, whose earlier calls are done with, or all of a parallel one.
InFlight(r) ==
  IF mode[r] = "sequential" THEN {batch[r][announced[r]]} ELSE AnnouncedCalls(r)

\* While tools execute, only the listener of an update or of the end of one that
\* has settled can throw; "crashed" is a tool whose end is never announced.
Throws(r) ==
  \/ /\ pc[r] = "execute" => \E c \in InFlight(r) : callState[c] = "finalized"
     /\ UNCHANGED callState
  \/ /\ pc[r] = "execute"
     /\ \E c \in InFlight(r) : /\ callState[c] = "executing"
                              /\ callState' = [callState EXCEPT ![c] = "crashed"]

\* The emits of handleRunFailure that are still to come, when the one before has
\* been awaited.  Behind message_start, pc is the stopReason of the failure message.
FailurePCs == {"error", "aborted", "failureMessage", "failureTurn"}

\* Something the run awaits throws: a listener, that of agent_end included, a
\* hook, streamFn.  The loop is left where it is, its drained messages with it,
\* and handleRunFailure starts a failure message.
Fail(r) ==
  /\ pc[r] \notin {"off", "failed"} \cup FailurePCs
  /\ failures < MaxFailures
  /\ Throws(r)
  /\ failures' = failures + 1
  /\ failedRuns' = failedRuns \cup {r}
  /\ pc' = [pc EXCEPT ![r] = IF r \in aborted THEN "aborted" ELSE "error"]
  /\ discarded' = discarded \cup ToSet(pending[r])
  /\ pending' = [pending EXCEPT ![r] = <<>>]
  /\ event' = Event("message_start", r)
  /\ UNCHANGED <<transcript, isStreaming, pendingToolCalls, queueVars, activeRun, aborted, context,
                 skipPoll, hasMoreToolCalls, batchVars, owner, nextCall, runs, resets, acceptVars,
                 delivered>>

\* The rest of handleRunFailure, one awaited emit after the other.
EmitFailure(r) ==
  /\ \/ /\ pc[r] \in {"error", "aborted"}
        /\ transcript' = Append(transcript, Answer(r, pc[r], <<>>))
        /\ pc' = [pc EXCEPT ![r] = "failureMessage"]
        /\ event' = Event("message_end", r)
     \/ /\ pc[r] = "failureMessage"
        /\ pc' = [pc EXCEPT ![r] = "failureTurn"]
        /\ event' = Event("turn_end", r)
        /\ UNCHANGED transcript
     \/ /\ pc[r] = "failureTurn"
        /\ pc' = [pc EXCEPT ![r] = "failed"]
        /\ event' = Event("agent_end", r)
        /\ UNCHANGED transcript
  /\ UNCHANGED <<isStreaming, pendingToolCalls, queueVars, activeRun, aborted, loopVars, batchVars,
                 callVars, runs, failures, resets, acceptVars, delivered, discarded, failedRuns>>

\* A listener throws on one of these as well: the others are not emitted.
FailAgain(r) ==
  /\ pc[r] \in FailurePCs
  /\ pc' = [pc EXCEPT ![r] = "failed"]
  /\ UNCHANGED <<agentVars, queueVars, activeRun, aborted, loopVars, batchVars, callVars,
                 runs, failures, resets, event, acceptVars, delivered, discarded, failedRuns>>

\* Bug: finishRun leaves the calls of a broken-off batch displayed.
KeptToolCalls == pendingToolCalls

\* finishRun drops the calls that never ended.
ClearedToolCalls == {}

\* The listeners of agent_end have settled: finishRun().
FinishRun(r) ==
  /\ pc[r] \in {"ending", "failed"}
  /\ pc' = [pc EXCEPT ![r] = "off"]
  /\ isStreaming' = FALSE
  /\ pendingToolCalls' = ClearedToolCalls
  /\ activeRun' = 0
  /\ pending' = [pending EXCEPT ![r] = <<>>]
  /\ context' = [context EXCEPT ![r] = <<>>]
  /\ batch' = [batch EXCEPT ![r] = <<>>]
  /\ mode' = [mode EXCEPT ![r] = "none"]
  /\ announced' = [announced EXCEPT ![r] = 0]
  /\ reported' = [reported EXCEPT ![r] = 0]
  /\ UNCHANGED <<transcript, queueVars, aborted, skipPoll, hasMoreToolCalls, callVars, runs,
                 failures, resets, event, acceptVars, delivered, discarded, failedRuns>>

-----------------------------------------------------------------------------
Owner ==
  \/ \E m \in Msgs : Steer(m) \/ FollowUp(m) \/ Prompt(m)
  \/ ClearSteeringQueue \/ ClearFollowUpQueue \/ Continue \/ Abort \/ Reset

\* The steps of the loop itself.
Loop(r) ==
  \/ Inject(r) \/ FirstPoll(r) \/ CallProvider(r)
  \/ PrepareCall(r) \/ LaunchAll(r) \/ Join(r) \/ Report(r)
  \/ CloseBatch(r) \/ Poll(r) \/ EmitFailure(r) \/ FinishRun(r)

\* The provider answers.
Provider(r) ==
  \/ AnswerFails(r) \/ AnswerText(r)
  \/ \E n \in 1 .. MaxCalls, m \in ExecutionModes : AnswerCalls(r, n, m)

Next ==
  \/ Owner
  \/ \E r \in Runs : Loop(r) \/ Provider(r) \/ Fail(r) \/ FailAgain(r)
  \/ \E c \in Calls : ToolEnds(c)

Spec == Init /\ [][Next]_vars

\* Promise reactions are run, listeners and tools settle, the provider answers.
FairSpec ==
  /\ Spec
  /\ \A r \in Runs : WF_vars(Loop(r)) /\ WF_vars(Provider(r))
  /\ \A c \in Calls : WF_vars(ToolEnds(c))

-----------------------------------------------------------------------------
(* Properties.                                                             *)

PCs == {"off", "begin", "inject", "stream", "cancelled", "prepare", "execute", "report",
        "turnEnd", "ending", "failed"} \cup FailurePCs

TypeOK ==
  /\ transcript \in Seq(Entries)
  /\ isStreaming \in BOOLEAN
  /\ pendingToolCalls \in SUBSET Calls
  /\ steeringQueue \in Seq(Msgs)
  /\ followUpQueue \in Seq(Msgs)
  /\ activeRun \in {0} \cup Runs
  /\ aborted \in SUBSET Runs
  /\ pc \in [Runs -> PCs]
  /\ pending \in [Runs -> Seq(Msgs)]
  /\ context \in [Runs -> Seq(Entries)]
  /\ skipPoll \in [Runs -> BOOLEAN]
  /\ batch \in [Runs -> Seq(Calls)]
  /\ mode \in [Runs -> {"none", "sequential", "parallel"}]
  /\ announced \in [Runs -> Nat]
  /\ reported \in [Runs -> Nat]
  /\ hasMoreToolCalls \in [Runs -> BOOLEAN]
  /\ callState \in [Calls -> {"none", "immediate", "prepared", "executing", "crashed", "finalized"}]
  /\ owner \in [Calls -> {0} \cup Runs]
  /\ runs \in 0 .. MaxRuns
  /\ nextCall \in 1 .. MaxCalls + 1
  /\ failures \in 0 .. MaxFailures
  /\ resets \in 0 .. MaxResets
  /\ lane \in [Msgs -> {"none", "prompt", "steering", "followUp"}]
  /\ acceptedAt \in [Msgs -> Nat]
  /\ accepted \in Nat
  /\ delivered \in Seq(Msgs)
  /\ discarded \in SUBSET Msgs
  /\ failedRuns \in SUBSET Runs

\* At most one run is under way, and it is the active one: a prompt or a
\* continue() issued while a run settles its listeners never starts a second
\* loop on the same transcript.
SingleRun == \A r \in Runs : pc[r] # "off" <=> r = activeRun

\* pendingToolCalls is what the user sees as running: exactly the calls of the
\* active run that were announced and have not ended, also when the batch is
\* cut by an abort or left behind by an exception.
PendingToolCallsExact ==
  pendingToolCalls =
    IF activeRun = 0 THEN {}
    ELSE {c \in Calls : owner[c] = activeRun /\ callState[c] \in {"prepared", "executing", "crashed"}}

\* Every tool result stands behind the answer that asked for it, in the order
\* of the calls of that answer, with no other message in between: steering
\* messages, follow-ups, failures and completion order never break up a batch.
ResultsFollowTheirCalls ==
  \A i \in DOMAIN transcript : transcript[i].role = "toolResult" =>
    \E j \in 1 .. i - 1 :
      /\ transcript[j].role = "assistant"
      /\ i - j \in DOMAIN transcript[j].calls
      /\ transcript[i].call = transcript[j].calls[i - j]
      /\ \A k \in j + 1 .. i : transcript[k].role = "toolResult"

\* A call is left without a result only by an abort or an exception, or because
\* its batch is still being worked on.
CallsAreAnswered ==
  \A j \in DOMAIN transcript : transcript[j].role = "assistant" =>
    LET a == transcript[j] IN
      \/ a.calls = <<>>
      \/ j + Len(a.calls) <= Len(transcript) /\ transcript[j + Len(a.calls)].role = "toolResult"
      \/ a.run \in aborted \cup failedRuns
      \/ batch[a.run] = a.calls

\* Each time the provider is called, the model sees the whole transcript: what
\* the loop keeps in its own context and what the listeners were told agree.
ModelSeesTranscript ==
  \A r \in Runs : pc[r] \in {"stream", "cancelled"} => context[r] = transcript

\* Messages queued in the same way are injected in the order in which they were
\* queued, over polls, turns, runs, exceptions and aborts.
QueueOrder ==
  \A i, j \in DOMAIN delivered :
    i < j /\ lane[delivered[i]] = lane[delivered[j]]
      => acceptedAt[delivered[i]] < acceptedAt[delivered[j]]

\* A follow-up is taken from its queue only when no steering message waits and
\* the agent has no tool results to report to the model.
FollowUpsWait ==
  [][\A m \in ToSet(followUpQueue) :
       m \in UNION {ToSet(pending'[r]) : r \in Runs} =>
         /\ steeringQueue = <<>>
         /\ \A r \in Runs : pc[r] = "turnEnd" => ~ hasMoreToolCalls[r]]_vars

\* agent_end is the last event of a run, over parallel and sequential batches,
\* aborts and failures: the next one opens another run.  Exceptions are all that
\* breaks this: a listener of that agent_end throws, which starts the events of a
\* failure behind it, or a parallel tool of a failed run ends late.
AgentEndIsLast ==
  [][event.type = "agent_end" /\ event' # event =>
       \/ event'.type = "agent_start"
       \/ event' = Event("message_start", event.run) /\ event.run \in failedRuns'
       \/ \E c \in Calls : /\ callState[c] = "executing" /\ callState'[c] = "finalized"
                           /\ owner[c] \in failedRuns]_vars

\* The messages: accepted once, delivered at most once and only by an active
\* run, discarded by a clear, a reset or an exception, and never lost otherwise.
Promise == INSTANCE Delivery WITH
  active    <- activeRun # 0,
  waiting   <- ToSet(steeringQueue) \cup ToSet(followUpQueue)
                 \cup UNION {ToSet(pending[r]) : r \in Runs},
  delivered <- ToSet(delivered)

ImplementsDelivery == Promise!Spec

\* A run settles, and with it waitForIdle(), abort or not, whatever the tools,
\* the provider and the listeners do, provided that each of them settles.
RunsSettle == \A r \in Runs : activeRun = r ~> activeRun # r
=============================================================================
